-------------------------- MODULE DeploymentProofs --------------------------
(***************************************************************************)
(* Proofs about Deployment, for any commands, users, workers and           *)
(* submitters: no worker outlives its handles, nobody is locked out, and   *)
(* no id of the last version is lost.                                      *)
(***************************************************************************)
EXTENDS Deployment, TLAPS

-----------------------------------------------------------------------------
(* The invariant *)

\* The types of the schema.
SchemaOK ==
  /\ tables \subseteq Tables /\ columns \subseteq OldColumns \cup {NewColumn}
  /\ keys \in BOOLEAN /\ dangling \subseteq Tables
  /\ taskId \in [Tasks -> {"", "old"}] /\ logId \in [Tasks -> {None, "", "old"}]

\* What a command still has to do is a list of tables, which is not empty where
\* it takes the first of it.
Commanded ==
  /\ cmd = [c \in Commands |-> cmd[c]]
  /\ \A c \in Commands : /\ cmd[c].todo \in Seq(Tables)
                         /\ cmd[c].pc \in {"models", "drop"} => cmd[c].todo # <<>>

\* The types of the rest: more than TypeOK says.
Typed ==
  /\ admins \subseteq Users /\ viper \subseteq Sections /\ loaded \subseteq Sections
  /\ why \in Signals \cup {None, "reload"} /\ sigChan \in Signals \cup {None}
  /\ token \in BOOLEAN /\ serving \in BOOLEAN
  /\ file \in [Files -> (SUBSET Sections) \cup {None}]
  /\ worker \in [Workers -> [at : {"off", "read", "handle"}, stale : BOOLEAN]]
  /\ req \in [Submitters -> [pc : {"none", "database", "redis", "models", "admin", "mark",
                                   "trigger"},
                             name : Users \cup {None}]]
  /\ \A x \in Submitters : req[x].pc # "none" => req[x].name \in Users

\* Where the main goroutine has no pool: the old one is gone, the new one not
\* yet there.
Between == {"down", "assemble", "migrate", "workers", "close", "reload"}

\* A pool is there only while the handles it was made with are.
Pooled ==
  \A w \in Workers : /\ ~worker[w].stale
                     /\ main \in Between => worker[w] = Off

\* Whoever holds the mark, or is about to write it, comes after the
\* administrator.
Marked ==
  \/ "installed" \in viper \cup loaded
  \/ \E f \in Files : file[f] # None /\ "installed" \in file[f]
  \/ \E x \in Submitters : req[x].pc = "mark"

Preceded == Marked => admins # {} \/ downs

Inv == SchemaOK /\ Commanded /\ Typed /\ Pooled /\ Preceded

-----------------------------------------------------------------------------
(* The schema and the commands *)

\* No step takes the administrators away without the tables being dropped.
Kept == (downs => downs') /\ (admins \subseteq admins' \/ downs')

\* The lists of tables are what they look like.
LEMMA ListsOfTables ==
  /\ Tables = {"provider_accounts", "push_tasks", "push_logs", "provider_templates",
               "channel_template_bindings", "admin_users", "failure_rules"}
  /\ Models \in Seq(Tables) /\ Models # <<>>
  /\ Cleaned \in Seq(Tables)
  /\ Dropped \in Seq(Tables) /\ Dropped # <<>>
  /\ <<>> \in Seq(Tables)
<1>1. Tables = {"provider_accounts", "push_tasks", "push_logs", "provider_templates",
               "channel_template_bindings", "admin_users", "failure_rules"}
  BY DEF Tables, Models
<1> QED BY <1>1 DEF Models, Cleaned, Dropped

\* AutoMigrate of a table keeps the types of the schema.
LEMMA AutoMigrateTyped ==
  ASSUME SchemaOK, NEW t \in Tables, AutoMigrate(t)
  PROVE  SchemaOK'
<1>1. Referred(t) \subseteq Tables
  BY ListsOfTables DEF Referred
<1> QED BY <1>1, Zenon DEF SchemaOK, AutoMigrate

\* A command that goes on has a program counter and a list again.
LEMMA GotoTyped ==
  ASSUME Commanded, NEW c \in Commands, NEW pc, NEW todo \in Seq(Tables),
         pc \in {"models", "drop"} => todo # <<>>, Goto(c, pc, todo)
  PROVE  Commanded'
<1> DEFINE new == [pc |-> pc, action |-> cmd[c].action, todo |-> todo]
<1>1. cmd' = [cmd EXCEPT ![c] = new]
  BY DEF Goto
<1>2. new.pc = pc /\ new.todo = todo
  OBVIOUS
<1> HIDE DEF new
<1> QED BY <1>1, <1>2 DEF Commanded

\* One that ends has neither.
LEMMA ExitTyped ==
  ASSUME Commanded, NEW c \in Commands, Exit(c)
  PROVE  Commanded'
<1>1. NotRunning.todo \in Seq(Tables) /\ NotRunning.pc \notin {"models", "drop"}
  BY ListsOfTables DEF NotRunning
<1> HIDE DEF NotRunning
<1> QED BY <1>1 DEF Commanded, Exit

\* Every step of a command.
LEMMA CommandKeeps ==
  ASSUME SchemaOK, admins \subseteq Users, Commanded, NEW c \in Commands, Command(c)
  PROVE  SchemaOK' /\ admins' \subseteq Users /\ Commanded' /\ Kept
<1> USE DEF OnlySchema
<1>1. ASSUME NEW action \in Actions, Run(c, action) PROVE SchemaOK' /\ admins' \subseteq Users /\ Commanded' /\ Kept
  <2> DEFINE new == [pc |-> CASE action = "up" -> "bindings" [] action = "seed" -> "seed"
                              [] OTHER -> "drop",
                     action |-> action,
                     todo |-> IF action \in {"down", "fresh"} THEN Dropped ELSE <<>>]
  <2>1. new.todo \in Seq(Tables)
    BY ListsOfTables
  <2>2. new.pc \in {"models", "drop"} => new.todo # <<>>
    BY MigrationAssumption, ListsOfTables
  <2>3. cmd' = [cmd EXCEPT ![c] = new]
    BY <1>1 DEF Run
  <2>4. UNCHANGED <<schema, admins, downs>>
    BY <1>1 DEF Run
  <2>5. Commanded'
    <3> HIDE DEF new
    <3> QED BY <2>1, <2>2, <2>3 DEF Commanded
  <2> QED BY <2>4, <2>5 DEF SchemaOK, schema, Kept
<1>2. CASE Kill(c)
  BY <1>2, ExitTyped DEF Kill, SchemaOK, schema, Kept
<1>3. CASE CheckBindings(c) \/ CheckIds(c)
  <2>1. UNCHANGED <<schema, admins, downs>>
    BY <1>3 DEF CheckBindings, CheckIds
  <2>2. \/ Goto(c, "code", <<>>) \/ Goto(c, "unbind", <<>>) \/ Goto(c, "unkey", <<>>)
        \/ Goto(c, "models", Models) \/ Goto(c, "logs", <<>>)
        \/ Goto(c, "column", <<>>) \/ Goto(c, "move", <<>>)
    BY <1>3 DEF CheckBindings, CheckIds
  <2>3. Commanded'
    BY <2>2, GotoTyped, ListsOfTables
  <2> QED BY <2>1, <2>3 DEF SchemaOK, schema, Kept
<1>4. CASE DropBindingColumn(c) \/ AddColumn(c)
  <2>1. Exit(c) \/ Goto(c, "unkey", <<>>) \/ Goto(c, "move", <<>>)
    BY <1>4 DEF DropBindingColumn, AddColumn
  <2>2. Commanded'
    BY <2>1, GotoTyped, ExitTyped, ListsOfTables
  <2>3. SchemaOK'
    <3>1. CASE DropBindingColumn(c)
      BY <3>1 DEF DropBindingColumn, SchemaOK
    <3>2. CASE AddColumn(c)
      BY <3>2 DEF AddColumn, SchemaOK
    <3> QED BY <1>4, <3>1, <3>2
  <2> QED BY <1>4, <2>2, <2>3 DEF DropBindingColumn, AddColumn, Kept
<1>5. CASE DropKeys(c)
  <2>1. Commanded'
    BY <1>5, GotoTyped, ListsOfTables DEF DropKeys
  <2> QED BY <1>5, <2>1 DEF DropKeys, SchemaOK, Kept
<1>6. CASE CleanBindings(c)
  <2>1. cmd[c].todo \in Seq(Tables) /\ cmd[c].todo # <<>>
    BY <1>6 DEF CleanBindings, Commanded
  <2>2. Tail(cmd[c].todo) \in Seq(Tables)
    BY <2>1
  <2>3. Exit(c) \/ Goto(c, "code", Tail(cmd[c].todo)) \/ Goto(c, "clean", Tail(cmd[c].todo))
    BY <1>6 DEF CleanBindings
  <2>4. Commanded'
    BY <2>2, <2>3, GotoTyped, ExitTyped
  <2>5. dangling' \subseteq dangling
    BY <1>6 DEF CleanBindings
  <2> QED BY <1>6, <2>4, <2>5 DEF CleanBindings, SchemaOK, Kept
<1>7. CASE RemoveCode(c)
  <2>1. Commanded'
    BY <1>7, GotoTyped, ListsOfTables DEF RemoveCode
  <2> QED BY <1>7, <2>1 DEF RemoveCode, SchemaOK, Kept
<1>8. CASE CreateLogs(c)
  <2>1. Commanded'
    BY <1>8, GotoTyped, ListsOfTables DEF CreateLogs
  <2>2. SchemaOK'
    BY <1>8, AutoMigrateTyped, ListsOfTables DEF CreateLogs
  <2> QED BY <1>8, <2>1, <2>2 DEF CreateLogs, Kept
<1>9. CASE MoveIds(c)
  <2>1. Exit(c) \/ Goto(c, "forget", <<>>)
    BY <1>9 DEF MoveIds
  <2>2. Commanded'
    BY <2>1, GotoTyped, ExitTyped, ListsOfTables
  <2>3. logId' \in [Tasks -> {None, "", "old"}]
    BY <1>9 DEF MoveIds, SchemaOK
  <2> QED BY <1>9, <2>2, <2>3 DEF MoveIds, SchemaOK, Kept
<1>10. CASE DropIds(c)
  <2>1. Exit(c) \/ Goto(c, "models", Models)
    BY <1>10 DEF DropIds
  <2>2. Commanded'
    BY <2>1, GotoTyped, ExitTyped, ListsOfTables
  <2> QED BY <1>10, <2>2 DEF DropIds, SchemaOK, Kept
<1>11. CASE MigrateModel(c)
  <2>1. cmd[c].todo \in Seq(Tables) /\ cmd[c].todo # <<>>
    BY <1>11 DEF MigrateModel, At, Commanded
  <2>2. Head(cmd[c].todo) \in Tables /\ Tail(cmd[c].todo) \in Seq(Tables)
    BY <2>1
  <2>3. CASE Exit(c) /\ UNCHANGED schema
    BY <1>11, <2>3, ExitTyped DEF MigrateModel, SchemaOK, schema, Kept
  <2>4. CASE AutoMigrate(Head(cmd[c].todo))
    <3>1. Exit(c) \/ Goto(c, "finished", Tail(cmd[c].todo))
          \/ (Tail(cmd[c].todo) # <<>> /\ Goto(c, "models", Tail(cmd[c].todo)))
      BY <1>11 DEF MigrateModel
    <3>2. Commanded'
      BY <2>2, <3>1, GotoTyped, ExitTyped
    <3>3. SchemaOK'
      BY <2>2, <2>4, AutoMigrateTyped
    <3> QED BY <1>11, <3>2, <3>3 DEF MigrateModel, Kept
  <2> QED BY <1>11, <2>3, <2>4 DEF MigrateModel
<1>12. CASE DropTable(c)
  <2>1. cmd[c].todo \in Seq(Tables) /\ cmd[c].todo # <<>>
    BY <1>12 DEF DropTable, At, Commanded
  <2>2. Tail(cmd[c].todo) \in Seq(Tables)
    BY <2>1
  <2>3. \/ Tail(cmd[c].todo) # <<>> /\ Goto(c, "drop", Tail(cmd[c].todo))
        \/ Goto(c, "bindings", Tail(cmd[c].todo)) \/ Goto(c, "finished", Tail(cmd[c].todo))
    BY <1>12 DEF DropTable
  <2>4. Commanded'
    BY <2>2, <2>3, GotoTyped
  <2>5. tables' \subseteq tables /\ columns' \subseteq columns /\ keys' = keys
    BY <1>12 DEF DropTable
  <2>6. dangling' \subseteq Tables
    BY <1>12, ListsOfTables DEF DropTable, SchemaOK
  <2>7. taskId' \in [Tasks -> {"", "old"}] /\ logId' \in [Tasks -> {None, "", "old"}]
    BY <1>12 DEF DropTable, SchemaOK
  <2>8. admins' \subseteq Users /\ downs'
    BY <1>12 DEF DropTable
  <2> QED BY <2>4, <2>5, <2>6, <2>7, <2>8 DEF SchemaOK, Kept
<1>13. CASE Seed(c)
  <2>1. Commanded'
    BY <1>13, GotoTyped, ListsOfTables DEF Seed
  <2>2. admins \subseteq admins' /\ admins' \subseteq Users
    BY <1>13, MigrationAssumption DEF Seed
  <2> QED BY <1>13, <2>1, <2>2 DEF Seed, SchemaOK, schema, Kept
<1>14. CASE Finish(c)
  BY <1>14, ExitTyped DEF Finish, SchemaOK, schema, Kept
<1> QED BY <1>1, <1>2, <1>3, <1>4, <1>5, <1>6, <1>7, <1>8, <1>9, <1>10, <1>11, <1>12,
           <1>13, <1>14 DEF Command, Step

-----------------------------------------------------------------------------
(* The initial states, and the steps of the main goroutine *)

\* A database of an earlier version or a new one, and a process that is down.
LEMMA InitInv == Init => Inv
<1> SUFFICES ASSUME Init PROVE Inv
  OBVIOUS
<1> USE DEF Init, InitMigration
<1>1. SchemaOK
  BY ListsOfTables DEF InitSchema, SchemaOK
<1>2. Commanded
  <2>1. NotRunning.todo \in Seq(Tables) /\ NotRunning.pc \notin {"models", "drop"}
    BY ListsOfTables DEF NotRunning
  <2> HIDE DEF NotRunning
  <2> QED BY <2>1 DEF Commanded
<1>3. PICK root \in {None, {"database"}, Sections} :
        /\ (root = Sections) <=> (admins # {})
        /\ file = [f \in Files |-> IF f = "root" THEN root ELSE None]
  OBVIOUS
<1>4. Typed
  <2>1. file \in [Files -> (SUBSET Sections) \cup {None}]
    <3>1. root \in (SUBSET Sections) \cup {None}
      BY <1>3 DEF Sections
    <3> QED BY <1>3, <3>1
  <2>2. worker \in [Workers -> [at : {"off", "read", "handle"}, stale : BOOLEAN]]
    BY DEF Off
  <2>3. req \in [Submitters -> [pc : {"none", "database", "redis", "models", "admin", "mark",
                                     "trigger"},
                               name : Users \cup {None}]]
    BY DEF NoRequest
  <2>4. \A x \in Submitters : req[x].pc = "none"
    BY DEF NoRequest
  <2>5. admins \subseteq Users
    BY MigrationAssumption
  <2> QED BY <2>1, <2>2, <2>3, <2>4, <2>5 DEF Typed
<1>5. Pooled
  BY DEF Pooled, Off
<1>6. Preceded
  <2>1. \A x \in Submitters : req[x].pc # "mark"
    BY DEF NoRequest
  <2>2. \A f \in Files : file[f] # None /\ "installed" \in file[f] => root = Sections
    BY <1>3 DEF Files, Sections
  <2> QED BY <1>3, <2>1, <2>2 DEF Preceded, Marked
<1> QED BY <1>1, <1>2, <1>4, <1>5, <1>6 DEF Inv

\* Without a word about the commands and the schema, their parts stay.
LEMMA SchemaUnchanged ==
  ASSUME SchemaOK, Commanded, UNCHANGED <<schema, cmd>>
  PROVE  SchemaOK' /\ Commanded'
BY DEF SchemaOK, Commanded, schema

\* What a start or a reload reads was already in the file or in memory.
LEMMA AssembledKeeps ==
  ASSUME Typed, Preceded, Assembled, UNCHANGED <<admins, downs, viper, file, req>>
  PROVE  /\ loaded' \subseteq Sections
         /\ Preceded'
<1>1. Read \subseteq Sections
  <2>1. \A f \in Files : file[f] = None \/ file[f] \subseteq Sections
    BY DEF Typed
  <2> QED BY <2>1 DEF Read, Files
<1>2. "installed" \in Read => \E f \in Files : file[f] # None /\ "installed" \in file[f]
  BY DEF Read, Files
<1>3. loaded' = viper \cup Read
  BY DEF Assembled
<1>4. loaded' \subseteq Sections
  BY <1>1, <1>3 DEF Typed
<1>5. Marked' => Marked
  BY <1>2, <1>3 DEF Marked
<1> QED BY <1>4, <1>5 DEF Preceded

\* Handles are replaced only while there is no pool.
LEMMA AssembledPooled ==
  ASSUME Typed, Pooled, main \in Between, Assembled
  PROVE  /\ \A w \in Workers : worker'[w] = Off
         /\ worker' = [w \in Workers |-> Off]
<1>1. \A w \in Workers : worker[w].at = "off"
  BY DEF Pooled, Off
<1>2. worker' = [w \in Workers |-> [at |-> "off", stale |-> FALSE]]
  BY <1>1 DEF Assembled
<1> QED BY <1>2 DEF Off

\* A process that ends leaves the files and the database.
LEMMA GoneKeeps ==
  ASSUME Inv, Gone, UNCHANGED <<schema, admins, cmd, downs, file>>
  PROVE  Inv'
<1> USE DEF Gone
<1>1. SchemaOK' /\ Commanded'
  BY SchemaUnchanged DEF Inv
<1>2. Typed'
  <2>1. worker' \in [Workers -> [at : {"off", "read", "handle"}, stale : BOOLEAN]]
    BY DEF Off
  <2>2. req' \in [Submitters -> [pc : {"none", "database", "redis", "models", "admin", "mark",
                                     "trigger"},
                               name : Users \cup {None}]]
    BY DEF NoRequest
  <2>3. \A x \in Submitters : req'[x].pc = "none"
    BY DEF NoRequest
  <2> QED BY <2>1, <2>2, <2>3 DEF Inv, Typed
<1>3. Pooled'
  BY DEF Pooled, Off
<1>4. Preceded'
  <2>1. \A x \in Submitters : req'[x].pc # "mark"
    BY DEF NoRequest
  <2>2. Marked' => Marked
    BY <2>1 DEF Marked
  <2> QED BY <2>2 DEF Inv, Preceded
<1> QED BY <1>1, <1>2, <1>3, <1>4 DEF Inv

\* Every step of the main goroutine.
LEMMA LoopKeeps ==
  ASSUME Inv, StartProcess \/ Loop
  PROVE  Inv'
<1> USE DEF Inv, OnlyLoop, migration, config
<1>1. CASE StartProcess
  <2>1. SchemaOK' /\ Commanded'
    BY <1>1, SchemaUnchanged DEF StartProcess
  <2>2. Typed' /\ Preceded'
    BY <1>1 DEF StartProcess, Typed, Preceded, Marked
  <2>3. Pooled'
    BY <1>1 DEF StartProcess, Pooled, Between
  <2> QED BY <2>1, <2>2, <2>3
<1>2. CASE Assemble \/ Reload
  <2>1. Assembled /\ UNCHANGED <<schema, cmd, admins, downs, viper, file, req, why, sigChan, token, serving>>
    BY <1>2 DEF Assemble, Reload
  <2>2. main \in Between
    BY <1>2 DEF Assemble, Reload, Between
  <2>3. SchemaOK' /\ Commanded'
    BY <2>1, SchemaUnchanged
  <2>4. loaded' \subseteq Sections /\ Preceded'
    BY <2>1, AssembledKeeps
  <2>5. worker' = [w \in Workers |-> Off]
    BY <2>1, <2>2, AssembledPooled
  <2>6. Pooled' /\ worker' \in [Workers -> [at : {"off", "read", "handle"}, stale : BOOLEAN]]
    BY <2>5 DEF Pooled, Off
  <2>7. Typed'
    BY <2>1, <2>4, <2>6 DEF Typed
  <2> QED BY <2>3, <2>4, <2>6, <2>7
<1>3. CASE RunMigration
  <2>1. SchemaOK'
    BY <1>3, ListsOfTables DEF RunMigration, SchemaOK, Wizard
  <2>2. Commanded'
    BY <1>3 DEF RunMigration, Commanded
  <2>3. Typed' /\ Preceded'
    BY <1>3 DEF RunMigration, Typed, Preceded, Marked
  <2>4. Pooled'
    BY <1>3 DEF RunMigration, Pooled, Between
  <2> QED BY <2>1, <2>2, <2>3, <2>4
<1>4. CASE RunWorkers
  <2>1. SchemaOK' /\ Commanded'
    BY <1>4, SchemaUnchanged DEF RunWorkers
  <2>2. Preceded'
    BY <1>4 DEF RunWorkers, Preceded, Marked
  <2>3. /\ worker' \in [Workers -> [at : {"off", "read", "handle"}, stale : BOOLEAN]]
        /\ \A w \in Workers : ~worker'[w].stale
    BY <1>4 DEF RunWorkers, Typed, Pooled
  <2>4. Typed'
    BY <1>4, <2>3 DEF RunWorkers, Typed
  <2>5. Pooled'
    BY <1>4, <2>3 DEF RunWorkers, Pooled, Between
  <2> QED BY <2>1, <2>2, <2>4, <2>5
<1>5. CASE RunHttp
  <2>1. SchemaOK' /\ Commanded'
    BY <1>5, SchemaUnchanged DEF RunHttp
  <2>2. Typed' /\ Preceded'
    BY <1>5 DEF RunHttp, Typed, Preceded, Marked
  <2>3. Pooled'
    BY <1>5 DEF RunHttp, Pooled, Between
  <2> QED BY <2>1, <2>2, <2>3
<1>6. CASE Signalled \/ ReloadAsked
  <2>1. SchemaOK' /\ Commanded'
    BY <1>6, SchemaUnchanged DEF Signalled, ReloadAsked
  <2>2. Typed'
    BY <1>6 DEF Signalled, ReloadAsked, Typed
  <2>3. Preceded'
    BY <1>6 DEF Signalled, ReloadAsked, Preceded, Marked
  <2>4. Pooled'
    BY <1>6 DEF Signalled, ReloadAsked, Pooled, Between
  <2> QED BY <2>1, <2>2, <2>3, <2>4
<1>7. CASE StopWorkers
  <2>1. SchemaOK' /\ Commanded'
    BY <1>7, SchemaUnchanged DEF StopWorkers
  <2>2. Typed' /\ Preceded'
    BY <1>7 DEF StopWorkers, Typed, Preceded, Marked
  <2>3. Pooled'
    BY <1>7 DEF StopWorkers, Stopped, Pooled
  <2> QED BY <2>1, <2>2, <2>3
<1>8. CASE StopHttp
  <2>1. CASE Gone
    BY <1>8, <2>1, GoneKeeps DEF StopHttp
  <2>2. CASE /\ serving' = FALSE /\ main' = "reload"
             /\ UNCHANGED <<why, viper, loaded, sigChan, token, worker, req>>
    <3>1. SchemaOK' /\ Commanded'
      BY <1>8, SchemaUnchanged DEF StopHttp
    <3>2. Typed' /\ Preceded'
      BY <1>8, <2>2 DEF StopHttp, Typed, Preceded, Marked
    <3>3. Pooled'
      BY <1>8, <2>2 DEF StopHttp, Pooled, Between
    <3> QED BY <3>1, <3>2, <3>3
  <2> QED BY <1>8, <2>1, <2>2 DEF StopHttp
<1> QED BY <1>1, <1>2, <1>3, <1>4, <1>5, <1>6, <1>7, <1>8 DEF Loop

-----------------------------------------------------------------------------
(* The other steps *)

\* The workers: none is there while main has no pool.
LEMMA WorkKeeps ==
  ASSUME Inv, NEW w \in Workers, Work(w)
  PROVE  Inv'
<1> USE DEF Inv, OnlyLoop, migration, config
<1>1. UNCHANGED <<main, why, loaded, token, serving>> /\ OnlyLoop
  BY DEF Work, Take, Handled, Leave, Working
<1>2. SchemaOK' /\ Commanded'
  BY <1>1, SchemaUnchanged
<1>3. Preceded'
  BY <1>1 DEF Preceded, Marked
<1>4. main \notin Between
  <2>1. worker[w].at # "off"
    BY DEF Work, Take, Handled, Leave
  <2> QED BY <2>1 DEF Pooled, Off
<1>5. PICK new \in [at : {"off", "read", "handle"}, stale : BOOLEAN] :
        worker' = [worker EXCEPT ![w] = new] /\ ~new.stale
  <2>1. ~worker[w].stale /\ worker[w].stale \in BOOLEAN
    BY DEF Pooled, Typed
  <2>2. CASE Take(w)
    <3> DEFINE new == [at |-> "handle", stale |-> worker[w].stale]
    <3>1. new \in [at : {"off", "read", "handle"}, stale : BOOLEAN] /\ ~new.stale
      BY <2>1
    <3>2. worker' = [worker EXCEPT ![w] = new]
      BY <2>2 DEF Take, Working
    <3> HIDE DEF new
    <3> QED BY <3>1, <3>2
  <2>3. CASE Handled(w)
    <3> DEFINE new == [at |-> "read", stale |-> worker[w].stale]
    <3>1. new \in [at : {"off", "read", "handle"}, stale : BOOLEAN] /\ ~new.stale
      BY <2>1
    <3>2. worker' = [worker EXCEPT ![w] = new]
      BY <2>3 DEF Handled, Working
    <3> HIDE DEF new
    <3> QED BY <3>1, <3>2
  <2>4. CASE Leave(w)
    <3> DEFINE new == Off
    <3>1. new \in [at : {"off", "read", "handle"}, stale : BOOLEAN] /\ ~new.stale
      BY <2>1 DEF Off
    <3>2. worker' = [worker EXCEPT ![w] = new]
      BY <2>4 DEF Leave
    <3> HIDE DEF new
    <3> QED BY <3>1, <3>2
  <2> QED BY <2>2, <2>3, <2>4 DEF Work
<1>6. Typed'
  <2>1. worker' \in [Workers -> [at : {"off", "read", "handle"}, stale : BOOLEAN]]
    BY <1>5, Zenon DEF Typed
  <2> QED BY <1>1, <2>1 DEF Typed
<1>7. Pooled'
  <2>1. \A v \in Workers : ~worker'[v].stale
    BY <1>5 DEF Pooled, Typed
  <2> QED BY <1>1, <1>4, <2>1 DEF Pooled
<1> QED BY <1>2, <1>3, <1>6, <1>7

\* A request of the installer keeps its name as it goes on.
LEMMA ProceedTyped ==
  ASSUME Typed, NEW x \in Submitters, req[x].pc # "none",
         NEW pc \in {"none", "database", "redis", "models", "admin", "mark", "trigger"},
         Proceed(x, pc) \/ Refuse(x)
  PROVE  /\ req' \in [Submitters -> [pc : {"none", "database", "redis", "models", "admin",
                                         "mark", "trigger"},
                                   name : Users \cup {None}]]
         /\ \A y \in Submitters : req'[y].pc # "none" => req'[y].name \in Users
         /\ \A y \in Submitters : req'[y].pc = "mark" => req[y].pc = "mark" \/ pc = "mark"
<1>1. PICK new \in [pc : {"none", "database", "redis", "models", "admin", "mark", "trigger"},
                   name : Users \cup {None}] :
        /\ req' = [req EXCEPT ![x] = new]
        /\ new.pc # "none" => new.name \in Users
        /\ new.pc \in {pc, "none"}
  <2>1. CASE Proceed(x, pc)
    <3> DEFINE new == [pc |-> pc, name |-> req[x].name]
    <3>1. /\ new \in [pc : {"none", "database", "redis", "models", "admin", "mark", "trigger"},
                     name : Users \cup {None}]
          /\ new.pc # "none" => new.name \in Users
          /\ new.pc \in {pc, "none"}
      BY DEF Typed
    <3>2. req' = [req EXCEPT ![x] = new]
      BY <2>1 DEF Proceed
    <3> HIDE DEF new
    <3> QED BY <3>1, <3>2
  <2>2. CASE Refuse(x)
    <3> DEFINE new == NoRequest
    <3>1. /\ new \in [pc : {"none", "database", "redis", "models", "admin", "mark", "trigger"},
                     name : Users \cup {None}]
          /\ new.pc # "none" => new.name \in Users
          /\ new.pc \in {pc, "none"}
      BY DEF NoRequest
    <3>2. req' = [req EXCEPT ![x] = new]
      BY <2>2 DEF Refuse
    <3> HIDE DEF new
    <3> QED BY <3>1, <3>2
  <2> QED BY <2>1, <2>2
<1>2. req' \in [Submitters -> [pc : {"none", "database", "redis", "models", "admin",
                                    "mark", "trigger"},
                              name : Users \cup {None}]]
  BY <1>1, Zenon DEF Typed
<1>3. \A y \in Submitters : req'[y] = IF y = x THEN new ELSE req[y]
  BY <1>1 DEF Typed
<1> QED BY <1>1, <1>2, <1>3 DEF Typed

\* Set writes the mark only for a request that comes after the administrator.
LEMMA SetKeeps ==
  ASSUME Inv, NEW x \in Submitters, req[x].pc # "none", NEW S \in SUBSET Sections,
         NEW next \in {"redis", "models", "trigger"}, Set(x, S, next),
         "installed" \in S => req[x].pc = "mark"
  PROVE  Inv'
<1> USE DEF Inv
<1>1. UNCHANGED <<schema, admins, cmd, downs, main, why, loaded, token, worker, serving, sigChan>>
  BY DEF Set, OnlyRequest, loop
<1>2. SchemaOK' /\ Commanded'
  BY <1>1, SchemaUnchanged
<1>3. Pooled'
  BY <1>1 DEF Pooled
<1>4. Proceed(x, next) \/ Refuse(x)
  BY DEF Set
<1>5. viper' = viper \cup S /\ viper' \subseteq Sections
  BY DEF Set, Typed
<1>6. file' \in [Files -> (SUBSET Sections) \cup {None}]
  <2>1. loaded \cup viper' \in (SUBSET Sections) \cup {None}
    BY <1>5 DEF Typed
  <2>2. CASE file' = file
    BY <2>2 DEF Typed
  <2>3. CASE file' = [file EXCEPT ![IF file["root"] = None THEN "root" ELSE "sub"] =
                                     loaded \cup viper']
    BY <2>1, <2>3, Zenon DEF Typed
  <2> QED BY <2>2, <2>3 DEF Set
<1>7. \A f \in Files : file'[f] = file[f] \/ file'[f] = loaded \cup viper \cup S
  BY <1>5 DEF Set, Typed
<1>8. Typed'
  BY <1>1, <1>4, <1>5, <1>6, ProceedTyped DEF Typed
<1>9. Marked' => Marked
  <2>1. \A y \in Submitters : req'[y].pc = "mark" => req[y].pc = "mark"
    BY <1>4, ProceedTyped
  <2> QED BY <1>1, <1>5, <1>7, <2>1 DEF Marked
<1> QED BY <1>1, <1>2, <1>3, <1>8, <1>9 DEF Preceded

\* Every step of the installer's requests after the first.
LEMMA InstallKeeps ==
  ASSUME Inv, NEW x \in Submitters, Install(x)
  PROVE  Inv'
<1> USE DEF Inv
<1>1. CASE UpdateDatabaseConfig(x) \/ UpdateRedisConfig(x) \/ MarkAsInstalled(x)
  BY <1>1, SetKeeps DEF UpdateDatabaseConfig, UpdateRedisConfig, MarkAsInstalled, Sections
<1>2. CASE CreateTables(x)
  <2>1. UNCHANGED <<admins, viper, file, cmd, downs, main, why, loaded, token, worker, serving, sigChan>>
    BY <1>2 DEF CreateTables, OnlyRequest, loop, config
  <2>2. SchemaOK'
    BY <1>2, ListsOfTables DEF CreateTables, SchemaOK, Wizard
  <2>3. Commanded' /\ Pooled'
    BY <2>1 DEF Commanded, Pooled
  <2>4. req[x].pc # "none" /\ (Proceed(x, "admin") \/ Refuse(x))
    BY <1>2 DEF CreateTables
  <2>5. Typed'
    BY <2>1, <2>4, ProceedTyped DEF Typed
  <2>6. \A y \in Submitters : req'[y].pc = "mark" => req[y].pc = "mark"
    BY <2>4, ProceedTyped
  <2>7. Preceded'
    BY <2>1, <2>6 DEF Preceded, Marked
  <2> QED BY <2>2, <2>3, <2>5, <2>7
<1>3. CASE CreateInitialData(x)
  <2>1. UNCHANGED <<schema, viper, file, cmd, downs, main, why, loaded, token, worker, serving, sigChan>>
    BY <1>3 DEF CreateInitialData, OnlyRequest, loop, config
  <2>2. SchemaOK' /\ Commanded' /\ Pooled'
    BY <2>1, SchemaUnchanged DEF Pooled
  <2>3. req[x].pc # "none" /\ (Proceed(x, "mark") \/ Refuse(x))
    BY <1>3 DEF CreateInitialData
  <2>4. admins' \subseteq Users /\ admins \subseteq admins'
    BY <1>3, <2>3 DEF CreateInitialData, Typed
  <2>5. Typed'
    BY <2>1, <2>3, <2>4, ProceedTyped DEF Typed
  <2>6. CASE Refuse(x)
    <3>1. \A y \in Submitters : req'[y].pc = "mark" => req[y].pc = "mark"
      BY <2>3, <2>6, ProceedTyped
    <3> QED BY <2>1, <2>2, <2>4, <2>5, <3>1 DEF Preceded, Marked
  <2>7. CASE admins' # {}
    BY <2>2, <2>5, <2>7 DEF Preceded
  <2> QED BY <1>3, <2>6, <2>7 DEF CreateInitialData
<1>4. CASE TriggerReload(x)
  <2>1. UNCHANGED <<schema, admins, viper, file, cmd, downs, main, why, loaded, worker, serving, sigChan>>
    BY <1>4 DEF TriggerReload, migration, config
  <2>2. SchemaOK' /\ Commanded' /\ Pooled'
    BY <2>1, SchemaUnchanged DEF Pooled
  <2>3. req[x].pc # "none" /\ Refuse(x) /\ token' = TRUE
    BY <1>4 DEF TriggerReload
  <2>4. Typed'
    BY <2>1, <2>3, ProceedTyped DEF Typed
  <2>5. \A y \in Submitters : req'[y].pc = "mark" => req[y].pc = "mark"
    BY <2>3, ProceedTyped
  <2> QED BY <2>1, <2>2, <2>4, <2>5 DEF Preceded, Marked
<1> QED BY <1>1, <1>2, <1>3, <1>4 DEF Install

\* The first step of a request.
LEMMA SubmitKeeps ==
  ASSUME Inv, NEW x \in Submitters, NEW name \in Users, Submit(x, name)
  PROVE  Inv'
<1> USE DEF Inv
<1> DEFINE new == [pc |-> "database", name |-> name]
<1>1. /\ req' = [req EXCEPT ![x] = new]
      /\ UNCHANGED <<schema, admins, viper, file, cmd, downs, main, why, loaded, token, worker, serving, sigChan>>
  BY DEF Submit, loop, config
<1>2. SchemaOK' /\ Commanded' /\ Pooled'
  BY <1>1, SchemaUnchanged DEF Pooled
<1>3. /\ new \in [pc : {"none", "database", "redis", "models", "admin", "mark", "trigger"},
                  name : Users \cup {None}]
      /\ new.pc = "database" /\ new.name \in Users
  OBVIOUS
<1> HIDE DEF new
<1>4. req' \in [Submitters -> [pc : {"none", "database", "redis", "models", "admin",
                                    "mark", "trigger"},
                              name : Users \cup {None}]]
  BY <1>1, <1>3, Zenon DEF Typed
<1>5. \A y \in Submitters : req'[y] = IF y = x THEN new ELSE req[y]
  BY <1>1 DEF Typed
<1>6. Typed'
  BY <1>1, <1>3, <1>4, <1>5 DEF Typed
<1>7. Preceded'
  BY <1>1, <1>3, <1>5 DEF Preceded, Marked
<1> QED BY <1>2, <1>6, <1>7

-----------------------------------------------------------------------------
(* The theorems *)

\* The invariant is inductive.
LEMMA NextInv == Inv /\ [Next]_vars => Inv'
<1> SUFFICES ASSUME Inv, [Next]_vars PROVE Inv'
  OBVIOUS
<1>1. CASE StartProcess \/ Loop
  BY <1>1, LoopKeeps
<1>2. CASE Crash
  BY <1>2, GoneKeeps DEF Crash, migration
<1>3. ASSUME NEW s \in Signals, Signal(s) PROVE Inv'
  <2>1. UNCHANGED <<schema, admins, viper, file, cmd, downs, main, why, loaded, token, worker, serving, req>>
    BY <1>3 DEF Signal, loop, config
  <2>2. SchemaOK' /\ Commanded'
    BY <2>1, SchemaUnchanged DEF Inv
  <2>3. sigChan' \in Signals \cup {None}
    BY <1>3 DEF Signal, Inv, Typed
  <2> QED BY <2>1, <2>2, <2>3 DEF Inv, Typed, Pooled, Preceded, Marked
<1>4. ASSUME NEW w \in Workers, Work(w) PROVE Inv'
  BY <1>4, WorkKeeps
<1>5. ASSUME NEW x \in Submitters, Install(x) PROVE Inv'
  BY <1>5, InstallKeeps
<1>6. ASSUME NEW x \in Submitters, NEW name \in Users, Submit(x, name) PROVE Inv'
  BY <1>6, SubmitKeeps
<1>7. ASSUME NEW c \in Commands, Command(c), UNCHANGED <<loop, sigChan, config, req>>
      PROVE Inv'
  <2>1. SchemaOK' /\ admins' \subseteq Users /\ Commanded' /\ Kept
    BY <1>7, CommandKeeps DEF Inv, Typed
  <2>2. UNCHANGED <<viper, file, main, why, loaded, token, worker, serving, sigChan, req>>
    BY <1>7 DEF loop, config
  <2>3. Typed' /\ Pooled'
    BY <2>1, <2>2 DEF Inv, Typed, Pooled
  <2>4. Marked' => Marked
    BY <2>2 DEF Marked
  <2>5. Preceded'
    BY <2>1, <2>4 DEF Inv, Preceded, Kept
  <2> QED BY <2>1, <2>3, <2>5 DEF Inv
<1>8. CASE UNCHANGED vars
  <2>1. UNCHANGED <<schema, admins, cmd, downs, viper, file, main, why, loaded, token, worker, serving, sigChan, req>>
    BY <1>8 DEF vars, migration, loop, config
  <2>2. SchemaOK' /\ Commanded'
    BY <2>1, SchemaUnchanged DEF Inv
  <2> QED BY <2>1, <2>2 DEF Inv, Typed, Pooled, Preceded, Marked
<1> QED BY <1>1, <1>2, <1>3, <1>4, <1>5, <1>6, <1>7, <1>8 DEF Next

\* A worker never handles a message with the database of one configuration that
\* it took from the queue of another (worker.go Stop, run.go reloadConfiguration):
\* for any number of workers, of signals, of reloads and of crashes.
THEOREM OneGenerationAlways == Spec => []OneGeneration
<1>1. Inv => OneGeneration
  BY DEF Inv, SchemaOK, Typed, Pooled, OneGeneration, TypeOK
<1> QED BY InitInv, NextInv, <1>1, PTL DEF Spec

\* A system that anything takes for installed has an administrator, unless the
\* command dropped its tables (install_service.go SubmitInstall): whichever
\* requests of the installer run together, and wherever one of them is cut off.
THEOREM NobodyLockedOutAlways == Spec => []NobodyLockedOut
<1>1. Inv => NobodyLockedOut
  BY DEF Inv, Preceded, Marked, NobodyLockedOut
<1> QED BY InitInv, NextInv, <1>1, PTL DEF Spec

-----------------------------------------------------------------------------
(* The ids of the last version *)

\* The newest log of each task that has an id has it as well.
Moved == \A k \in Tasks : taskId[k] # "" /\ logId[k] # None => logId[k] = taskId[k]

\* Nobody is about to drop the old column before that.
MoveInv == \A c \in Commands : cmd[c].pc = "forget" => Moved

\* What a step makes of the ids and of a command: ids only go, or are moved.
Careful(c) ==
  /\ Moved => Moved'
  /\ \E k : cmd' = [cmd EXCEPT ![c] = k] /\ (k.pc = "forget" => Moved')

\* A step that leaves the ids alone and goes somewhere else.
LEMMA GotoCareful ==
  ASSUME NEW c, NEW pc, pc # "forget", NEW todo, Goto(c, pc, todo)
  PROVE  \E k : cmd' = [cmd EXCEPT ![c] = k] /\ k.pc # "forget"
<1>1. PICK k : k = [pc |-> pc, action |-> cmd[c].action, todo |-> todo]
  OBVIOUS
<1>2. k.pc = pc
  BY <1>1
<1> QED BY <1>1, <1>2 DEF Goto

LEMMA ExitCareful ==
  ASSUME NEW c, Exit(c)
  PROVE  \E k : cmd' = [cmd EXCEPT ![c] = k] /\ k.pc # "forget"
<1>1. NotRunning.pc # "forget"
  BY DEF NotRunning
<1> QED BY <1>1 DEF Exit

\* Every step of a command.
LEMMA CommandCareful ==
  ASSUME SchemaOK, NEW c \in Commands, Command(c)
  PROVE  Careful(c)
<1> DEFINE Elsewhere == \E k : cmd' = [cmd EXCEPT ![c] = k] /\ k.pc # "forget"
<1>1. ASSUME NEW action \in Actions, Run(c, action) PROVE Careful(c)
  <2>1. PICK k : k = [pc |-> CASE action = "up" -> "bindings" [] action = "seed" -> "seed"
                               [] OTHER -> "drop",
                      action |-> action,
                      todo |-> IF action \in {"down", "fresh"} THEN Dropped ELSE <<>>]
    OBVIOUS
  <2>2. k.pc # "forget"
    BY <2>1
  <2>3. cmd' = [cmd EXCEPT ![c] = k]
    BY <1>1, <2>1 DEF Run
  <2> QED BY <1>1, <2>2, <2>3 DEF Careful, Moved, Run, schema
<1>2. CASE Kill(c)
  BY <1>2, ExitCareful DEF Careful, Moved, Kill, schema
<1>3. CASE CheckBindings(c)
  BY <1>3, GotoCareful DEF Careful, Moved, CheckBindings, schema
<1>4. CASE DropBindingColumn(c)
  <2>1. Elsewhere
    <3>1. CASE "template_binding_id" \in columns
      BY <1>4, <3>1, GotoCareful DEF DropBindingColumn
    <3>2. CASE ~("template_binding_id" \in columns)
      BY <1>4, <3>2, ExitCareful DEF DropBindingColumn
    <3> QED BY <3>1, <3>2
  <2>2. UNCHANGED <<taskId, logId>>
    BY <1>4 DEF DropBindingColumn
  <2> QED BY <2>1, <2>2 DEF Careful, Moved
<1>5. CASE DropKeys(c)
  BY <1>5, GotoCareful DEF Careful, Moved, DropKeys
<1>6. CASE CleanBindings(c)
  BY <1>6, GotoCareful, ExitCareful DEF Careful, Moved, CleanBindings
<1>7. CASE RemoveCode(c)
  BY <1>7, GotoCareful DEF Careful, Moved, RemoveCode
<1>8. CASE CheckIds(c)
  BY <1>8, GotoCareful DEF Careful, Moved, CheckIds, schema
<1>9. CASE CreateLogs(c)
  BY <1>9, GotoCareful DEF Careful, Moved, CreateLogs, AutoMigrate
<1>10. CASE AddColumn(c)
  <2>1. Elsewhere
    <3>1. CASE "push_logs" \in tables /\ NewColumn \notin columns
      BY <1>10, <3>1, GotoCareful DEF AddColumn
    <3>2. CASE ~("push_logs" \in tables /\ NewColumn \notin columns)
      BY <1>10, <3>2, ExitCareful DEF AddColumn
    <3> QED BY <3>1, <3>2
  <2>2. UNCHANGED <<taskId, logId>>
    BY <1>10 DEF AddColumn
  <2> QED BY <2>1, <2>2 DEF Careful, Moved
<1>11. CASE MoveIds(c) /\ HasIds
  <2>1. /\ logId' = [k \in Tasks |-> IF taskId[k] # "" /\ logId[k] = ""
                                     THEN taskId[k] ELSE logId[k]]
        /\ Goto(c, "forget", <<>>) /\ UNCHANGED taskId
    BY <1>11 DEF MoveIds
  <2>2. \A k \in Tasks : taskId[k] \in {"", "old"} /\ logId[k] \in {None, "", "old"}
    BY DEF SchemaOK
  <2>3. Moved'
    BY <2>1, <2>2 DEF Moved
  <2> QED BY <2>1, <2>3 DEF Careful, Goto
<1>12. CASE MoveIds(c) /\ ~HasIds
  <2>1. Elsewhere
    BY <1>12, ExitCareful DEF MoveIds
  <2>2. UNCHANGED <<taskId, logId>>
    BY <1>12 DEF MoveIds
  <2> QED BY <2>1, <2>2 DEF Careful, Moved
<1>13. CASE DropIds(c)
  <2>1. Elsewhere
    <3>1. CASE "push_tasks.provider_msg_id" \in columns
      BY <1>13, <3>1, GotoCareful DEF DropIds
    <3>2. CASE ~("push_tasks.provider_msg_id" \in columns)
      BY <1>13, <3>2, ExitCareful DEF DropIds
    <3> QED BY <3>1, <3>2
  <2>2. Moved => Moved'
    BY <1>13 DEF DropIds, Moved
  <2> QED BY <2>1, <2>2 DEF Careful
<1>14. CASE MigrateModel(c)
  <2>1. UNCHANGED <<taskId, logId>>
    BY <1>14 DEF MigrateModel, AutoMigrate, schema
  <2>2. Elsewhere
    BY <1>14, GotoCareful, ExitCareful DEF MigrateModel
  <2> QED BY <2>1, <2>2 DEF Careful, Moved
<1>15. CASE DropTable(c)
  <2>1. Elsewhere
    BY <1>15, GotoCareful DEF DropTable
  <2>2. Moved => Moved'
    BY <1>15 DEF DropTable, Moved
  <2> QED BY <2>1, <2>2 DEF Careful
<1>16. CASE Seed(c)
  BY <1>16, GotoCareful DEF Careful, Moved, Seed, schema
<1>17. CASE Finish(c)
  BY <1>17, ExitCareful DEF Careful, Moved, Finish, schema
<1> QED BY <1>1, <1>2, <1>3, <1>4, <1>5, <1>6, <1>7, <1>8, <1>9, <1>10, <1>11, <1>12, <1>13,
           <1>14, <1>15, <1>16, <1>17 DEF Command, Step

\* The process and its installer do not touch the ids, nor the commands.
LEMMA OthersCareful ==
  ASSUME [Next]_vars
  PROVE  UNCHANGED <<taskId, logId, cmd>> \/ \E c \in Commands : Command(c)
<1> USE DEF schema, migration, OnlyLoop, OnlyRequest
<1>1. CASE UNCHANGED vars
  BY <1>1 DEF vars
<1>2. CASE StartProcess \/ Loop \/ Crash
  BY <1>2 DEF StartProcess, Loop, Assemble, RunMigration, RunWorkers, RunHttp, Signalled,
              ReloadAsked, StopWorkers, StopHttp, Reload, Crash
<1>3. ASSUME NEW s \in Signals, Signal(s) PROVE UNCHANGED <<taskId, logId, cmd>>
  BY <1>3 DEF Signal
<1>4. ASSUME NEW w \in Workers, Work(w) PROVE UNCHANGED <<taskId, logId, cmd>>
  BY <1>4 DEF Work, Take, Handled, Leave, Working
<1>5. ASSUME NEW x \in Submitters, Install(x) PROVE UNCHANGED <<taskId, logId, cmd>>
  BY <1>5 DEF Install, UpdateDatabaseConfig, UpdateRedisConfig, Set, CreateTables,
              CreateInitialData, MarkAsInstalled, TriggerReload
<1>6. ASSUME NEW x \in Submitters, NEW name \in Users, Submit(x, name)
      PROVE  UNCHANGED <<taskId, logId, cmd>>
  BY <1>6 DEF Submit
<1> QED BY <1>1, <1>2, <1>3, <1>4, <1>5, <1>6 DEF Next

LEMMA NextMoves == Inv /\ MoveInv /\ [Next]_vars => MoveInv'
<1> SUFFICES ASSUME Inv, MoveInv, [Next]_vars PROVE MoveInv'
  OBVIOUS
<1>1. CASE UNCHANGED <<taskId, logId, cmd>>
  BY <1>1 DEF MoveInv, Moved
<1>2. ASSUME NEW c \in Commands, Command(c) PROVE MoveInv'
  <2>1. (Moved => Moved') /\ \E k : cmd' = [cmd EXCEPT ![c] = k] /\ (k.pc = "forget" => Moved')
    BY <1>2, CommandCareful DEF Inv, Careful
  <2>2. PICK k : cmd' = [cmd EXCEPT ![c] = k] /\ (k.pc = "forget" => Moved')
    BY <2>1
  <2>3. \A b \in Commands : cmd'[b] = IF b = c THEN k ELSE cmd[b]
    BY <2>2 DEF Inv, Commanded
  <2> QED BY <2>1, <2>2, <2>3 DEF MoveInv
<1> QED BY <1>1, <1>2, OthersCareful

\* When the old column goes, and not its table with it, no id goes that the newest
\* log of a task could have: whatever commands run at the same time, end at any of
\* their statements and are started again (migrateProviderMsgIDToPushLogs).
THEOREM IdsMovedHolds == Spec => IdsMoved
<1>1. Init => MoveInv
  BY DEF Init, InitMigration, NotRunning, MoveInv
<1>2. Inv /\ MoveInv /\ [Next]_vars =>
        [("push_tasks.provider_msg_id" \in columns \ columns' /\ "push_tasks" \in tables')
           => \A k \in Tasks : taskId[k] # "" /\ logId[k] # None => logId[k] = taskId[k]]_vars
  <2> SUFFICES ASSUME Inv, MoveInv, [Next]_vars, "push_tasks" \in tables',
                      "push_tasks.provider_msg_id" \in columns \ columns'
               PROVE  Moved
    BY DEF Moved
  <2>1. PICK c \in Commands : Command(c)
    <3>1. CASE UNCHANGED vars
      BY <3>1 DEF vars, migration, schema
    <3>2. CASE Next
      <4>1. CASE StartProcess \/ Loop \/ Crash
        <5>1. columns \subseteq columns'
          BY <4>1 DEF StartProcess, Loop, Assemble, RunMigration, RunWorkers, RunHttp,
                      Signalled, ReloadAsked, StopWorkers, StopHttp, Reload, Crash, schema,
                      migration, OnlyLoop
        <5> QED BY <5>1
      <4>2. ASSUME NEW s \in Signals, Signal(s) PROVE FALSE
        BY <4>2 DEF Signal, schema
      <4>3. ASSUME NEW w \in Workers, Work(w) PROVE FALSE
        BY <4>3 DEF Work, Take, Handled, Leave, Working, OnlyLoop, migration, schema
      <4>4. ASSUME NEW x \in Submitters, Install(x) PROVE FALSE
        <5>1. columns \subseteq columns'
          BY <4>4 DEF Install, UpdateDatabaseConfig, UpdateRedisConfig, Set, CreateTables,
                      CreateInitialData, MarkAsInstalled, TriggerReload, migration, schema
        <5> QED BY <5>1
      <4>5. ASSUME NEW x \in Submitters, NEW name \in Users, Submit(x, name) PROVE FALSE
        BY <4>5 DEF Submit, schema
      <4> QED BY <3>2, <4>1, <4>2, <4>3, <4>4, <4>5 DEF Next
    <3> QED BY <3>1, <3>2
  <2>2. CASE DropIds(c)
    BY <2>2 DEF DropIds, At, MoveInv
  <2>3. CASE DropTable(c)
    <3>1. PICK t : t = Head(cmd[c].todo)
      OBVIOUS
    <3>2. \/ /\ tables' = tables \ {t}
             /\ columns' = columns \ (CASE t = "push_logs" -> {NewColumn}
                                        [] t = "push_tasks" -> {"push_tasks.provider_msg_id"}
                                        [] OTHER -> {})
          \/ columns' = columns
      BY <2>3, <3>1 DEF DropTable
    <3>3. CASE t = "push_tasks"
      BY <3>2, <3>3
    <3>4. CASE t = "push_logs"
      BY <3>2, <3>4 DEF NewColumn
    <3>5. CASE t # "push_tasks" /\ t # "push_logs"
      BY <3>2, <3>5
    <3> QED BY <3>3, <3>4, <3>5
  <2>4. CASE ~DropIds(c) /\ ~DropTable(c)
    <3>1. "push_tasks.provider_msg_id" \in columns'
      BY <2>1, <2>4 DEF Command, Run, Kill, Step, CheckBindings, DropBindingColumn, DropKeys,
           CleanBindings, RemoveCode, CheckIds, CreateLogs, AddColumn, MoveIds, MigrateModel,
           Seed, Finish, AutoMigrate, schema
    <3> QED BY <3>1
  <2> QED BY <2>2, <2>3, <2>4
<1>3. Inv /\ MoveInv /\ [Next]_vars => Inv' /\ MoveInv'
  BY NextInv, NextMoves
<1> QED BY <1>1, <1>2, <1>3, InitInv, PTL DEF Spec, IdsMoved
=============================================================================

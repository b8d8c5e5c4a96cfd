----------------------------- MODULE Deployment -----------------------------
(***************************************************************************)
(* One process of the service from its start to its end, next to the       *)
(* commands of Migration on the same database: the main loop of cmd/run.go *)
(* with its signals and reloads, the servers it starts and stops in order, *)
(* the workers, and the requests of the installer, which write the         *)
(* configuration, create the tables and the first administrator, mark the  *)
(* system as installed and ask for a reload.                               *)
(*                                                                         *)
(* What viper was told by Set is memory of the process. It writes the file *)
(* of the first search path if there is none, and else the one it was      *)
(* pointed to; it reads the first it finds. Redis is left out: a start     *)
(* without it panics in Cache.Assembly, which is a crash. So are the       *)
(* scanners, which are told to stop and not waited for.                    *)
(***************************************************************************)
EXTENDS Migration

CONSTANTS
  Workers,    \* goroutines of the worker pool
  Submitters  \* goroutines that serve POST /api/install/submit

\* The sections of the configuration that matter here.
Sections == {"database", "installed"}

\* ./config.yaml and ./config/config.yaml, found in this order.
Files == {"root", "sub"}

Signals == {"HUP", "TERM"}

\* The tables the installer creates: not all that Models has.
Wizard == Tables \ {"failure_rules"}

VARIABLES
  file,      \* the sections in each file; None: no such file
  viper,     \* the sections in memory
  main,      \* where the main goroutine is
  why,       \* what it stops for: a signal, or "reload"
  loaded,    \* the sections of the configuration in use
  sigChan,   \* the pending signal, or None
  token,     \* the reload channel is full
  worker,    \* what each worker does, and whether its handles were replaced
  serving,   \* the HTTP server accepts requests
  req        \* the requests of the installer

loop == <<main, why, loaded, token, worker, serving>>
config == <<file, viper>>
vars == <<migration, faults, loop, sigChan, config, req>>

Off == [at |-> "off", stale |-> FALSE]

NoRequest == [pc |-> "none", name |-> None]

\* A new directory, a file that names the database, or an installed system.
Init ==
  /\ InitMigration
  /\ \E root \in {None, {"database"}, Sections} :
       /\ (root = Sections) <=> (admins # {})
       /\ file = [f \in Files |-> IF f = "root" THEN root ELSE None]
  /\ viper = {}
  /\ main = "down"
  /\ why = None
  /\ loaded = {}
  /\ sigChan = None
  /\ token = FALSE
  /\ worker = [w \in Workers |-> Off]
  /\ serving = FALSE
  /\ req = [x \in Submitters |-> NoRequest]

OnlyLoop == UNCHANGED <<migration, faults, sigChan, config, req>>

-----------------------------------------------------------------------------
(* The main goroutine: a start, and the servers in the order of config.Server *)

Read == CASE file["root"] # None -> file["root"]
          [] file["sub"] # None -> file["sub"]
          [] OTHER -> {}

\* The helper has new handles; a worker that runs keeps the ones it has.
Assembled ==
  /\ loaded' = viper \cup Read
  /\ worker' = [w \in Workers |-> [at |-> worker[w].at, stale |-> worker[w].at # "off"]]

Installed == "installed" \in loaded

StartProcess ==
  /\ main = "down" /\ runs < MaxRuns
  /\ main' = "assemble"
  /\ runs' = runs + 1
  /\ UNCHANGED <<schema, admins, cmd, downs, faults, sigChan, config, req>>
  /\ UNCHANGED <<why, loaded, token, worker, serving>>

Assemble ==
  /\ main = "assemble"
  /\ Assembled
  /\ main' = "migrate"
  /\ UNCHANGED <<why, token, serving>> /\ OnlyLoop

\* The models before the bindings, which may be refused: an error is logged, and
\* the service starts nevertheless.
RunMigration ==
  /\ main = "migrate"
  /\ main' = "workers"
  /\ \/ /\ Installed /\ ~Refused("channel_template_bindings")
        /\ tables' = Tables
        /\ columns' = columns \cup {NewColumn}
        /\ keys' = TRUE
        /\ UNCHANGED faults
     \/ /\ Installed /\ Refused("channel_template_bindings")
        /\ tables' = tables \cup (Wizard \ {"admin_users"})
        /\ columns' = columns \cup {NewColumn}
        /\ UNCHANGED <<keys, faults>>
     \/ Installed /\ Fault /\ UNCHANGED <<tables, columns, keys>>
     \/ ~Installed /\ UNCHANGED <<tables, columns, keys, faults>>
  /\ UNCHANGED <<dangling, taskId, logId, admins, cmd, downs, runs>>
  /\ UNCHANGED <<why, loaded, token, worker, serving>>
  /\ UNCHANGED <<sigChan, config, req>>

RunWorkers ==
  /\ main = "workers"
  /\ worker' = IF Installed THEN [w \in Workers |-> [at |-> "read", stale |-> FALSE]] ELSE worker
  /\ main' = "http"
  /\ UNCHANGED <<why, loaded, token, serving>> /\ OnlyLoop

RunHttp ==
  /\ main = "http"
  /\ serving' = TRUE
  /\ main' = "wait"
  /\ UNCHANGED <<why, loaded, token, worker>> /\ OnlyLoop

-----------------------------------------------------------------------------
(* It waits for a signal or a reload, stops the servers, and starts again    *)

Signalled ==
  /\ main = "wait" /\ sigChan # None
  /\ why' = sigChan
  /\ sigChan' = None
  /\ main' = "stop"
  /\ UNCHANGED <<loaded, token, worker, serving>>
  /\ UNCHANGED <<migration, faults, config, req>>

ReloadAsked ==
  /\ main = "wait" /\ token
  /\ why' = "reload"
  /\ token' = FALSE
  /\ main' = "stop"
  /\ UNCHANGED <<loaded, worker, serving>> /\ OnlyLoop

\* Mutant of Stopped: the pool is told to stop and not waited for.
StoppedAtOnce == TRUE

Stopped == \A w \in Workers : worker[w] = Off

\* The context of the workers is cancelled while main is at "stop".
StopWorkers ==
  /\ main = "stop"
  /\ Stopped
  /\ main' = "close"
  /\ UNCHANGED <<why, loaded, token, worker, serving>> /\ OnlyLoop

\* Everything in the process is gone.
Gone == /\ main' = "down"
        /\ why' = None
        /\ viper' = {} /\ loaded' = {}
        /\ sigChan' = None /\ token' = FALSE
        /\ worker' = [w \in Workers |-> Off]
        /\ serving' = FALSE
        /\ req' = [x \in Submitters |-> NoRequest]

\* Shutdown waits five seconds for the requests under way, which go on after that.
StopHttp ==
  /\ main = "close"
  /\ IF why = "TERM"
     THEN Gone
     ELSE /\ serving' = FALSE
          /\ main' = "reload"
          /\ UNCHANGED <<why, viper, loaded, sigChan, token, worker, req>>
  /\ UNCHANGED <<migration, faults, file>>

\* reloadConfiguration; what it assembled is assembled again at once.
Reload ==
  /\ main = "reload"
  /\ Assembled
  /\ main' = "assemble"
  /\ UNCHANGED <<why, token, serving>> /\ OnlyLoop

Loop == \/ Assemble \/ RunMigration \/ RunWorkers \/ RunHttp
        \/ Signalled \/ ReloadAsked \/ StopWorkers \/ StopHttp \/ Reload

\* A signal that comes while another is pending is dropped.
Signal(s) ==
  /\ main # "down" /\ runs < MaxRuns
  /\ sigChan' = IF sigChan = None THEN s ELSE sigChan
  /\ runs' = runs + 1
  /\ UNCHANGED <<schema, admins, cmd, downs, faults, loop, config, req>>

Crash ==
  /\ main # "down" /\ Fault
  /\ Gone
  /\ UNCHANGED <<migration, file>>

-----------------------------------------------------------------------------
(* The workers, as far as a stop concerns them                               *)

Working(w, at) ==
  /\ worker' = [worker EXCEPT ![w] = [at |-> at, stale |-> worker[w].stale]]
  /\ UNCHANGED <<main, why, loaded, token, serving>> /\ OnlyLoop

Take(w) == worker[w].at = "read" /\ main # "stop" /\ Working(w, "handle")

Handled(w) == worker[w].at = "handle" /\ Working(w, "read")

\* Between two batches the worker looks whether it is to stop.
Leave(w) ==
  /\ worker[w].at = "read" /\ main = "stop"
  /\ worker' = [worker EXCEPT ![w] = Off]
  /\ UNCHANGED <<main, why, loaded, token, serving>> /\ OnlyLoop

Work(w) == Take(w) \/ Handled(w) \/ Leave(w)

-----------------------------------------------------------------------------
(* The installer                                                             *)

OnlyRequest == UNCHANGED <<cmd, downs, runs, loop, sigChan>>

Proceed(x, pc) == req' = [req EXCEPT ![x] = [pc |-> pc, name |-> req[x].name]]

\* The answer is an error, and what was done stays.
Refuse(x) == req' = [req EXCEPT ![x] = NoRequest]

\* The table is looked at with the handle of the configuration in use.
HasAdmin == "database" \in loaded /\ admins # {}

Submit(x, name) ==
  /\ serving /\ req[x].pc = "none" /\ runs < MaxRuns
  /\ ~Installed /\ ~HasAdmin
  /\ req' = [req EXCEPT ![x] = [pc |-> "database", name |-> name]]
  /\ runs' = runs + 1
  /\ UNCHANGED <<schema, admins, cmd, downs, faults, loop, sigChan, config>>

\* SafeWriteConfig, then WriteConfig; what Set did stays when both fail.
Set(x, S, next) ==
  /\ viper' = viper \cup S
  /\ \/ /\ file' = [file EXCEPT ![IF file["root"] = None THEN "root" ELSE "sub"] =
                                  loaded \cup viper']
        /\ Proceed(x, next)
        /\ UNCHANGED faults
     \/ Fault /\ Refuse(x) /\ UNCHANGED file
  /\ UNCHANGED <<schema, admins>> /\ OnlyRequest

UpdateDatabaseConfig(x) == req[x].pc = "database" /\ Set(x, {"database"}, "redis")

UpdateRedisConfig(x) == req[x].pc = "redis" /\ Set(x, {}, "models")

\* The models before the bindings are done when these are refused.
CreateTables(x) ==
  /\ req[x].pc = "models"
  /\ \/ /\ ~Refused("channel_template_bindings")
        /\ tables' = tables \cup Wizard
        /\ columns' = columns \cup {NewColumn}
        /\ keys' = TRUE
        /\ Proceed(x, "admin")
        /\ UNCHANGED faults
     \/ /\ Refused("channel_template_bindings")
        /\ tables' = tables \cup {"admin_users", "provider_accounts", "provider_templates"}
        /\ Refuse(x)
        /\ UNCHANGED <<columns, keys, faults>>
     \/ Fault /\ Refuse(x) /\ UNCHANGED <<tables, columns, keys>>
  /\ UNCHANGED <<dangling, taskId, logId, admins, config>> /\ OnlyRequest

\* Mutant of CreateInitialData: the error of the statement is not looked at.
CreateInitialDataAnyway(x) ==
  /\ req[x].pc = "admin"
  /\ Proceed(x, "mark")
  /\ \/ admins' = admins \cup {req[x].name} /\ UNCHANGED faults
     \/ Fault /\ UNCHANGED admins
  /\ UNCHANGED <<schema, config>> /\ OnlyRequest

CreateInitialData(x) ==
  /\ req[x].pc = "admin"
  /\ \/ /\ req[x].name \notin admins /\ "admin_users" \in tables
        /\ admins' = admins \cup {req[x].name}
        /\ Proceed(x, "mark")
        /\ UNCHANGED faults
     \/ /\ req[x].name \in admins \/ "admin_users" \notin tables
        /\ Refuse(x)
        /\ UNCHANGED <<admins, faults>>
     \/ Fault /\ Refuse(x) /\ UNCHANGED admins
  /\ UNCHANGED <<schema, config>> /\ OnlyRequest

MarkAsInstalled(x) == req[x].pc = "mark" /\ Set(x, {"installed"}, "trigger")

\* Mutant of TriggerReload: the channel has no buffer.
TriggerUnbuffered(x) ==
  /\ req[x].pc = "trigger"
  /\ token' = (token \/ main = "wait")
  /\ Refuse(x)
  /\ UNCHANGED <<main, why, loaded, worker, serving>>
  /\ UNCHANGED <<migration, faults, sigChan, config>>

\* Half a second after the answer; a full channel drops the request.
TriggerReload(x) ==
  /\ req[x].pc = "trigger"
  /\ token' = TRUE
  /\ Refuse(x)
  /\ UNCHANGED <<main, why, loaded, worker, serving>>
  /\ UNCHANGED <<migration, faults, sigChan, config>>

Install(x) ==
  \/ UpdateDatabaseConfig(x) \/ UpdateRedisConfig(x) \/ CreateTables(x)
  \/ CreateInitialData(x) \/ MarkAsInstalled(x) \/ TriggerReload(x)

-----------------------------------------------------------------------------
Next ==
  \/ StartProcess \/ Loop \/ Crash
  \/ \E s \in Signals : Signal(s)
  \/ \E w \in Workers : Work(w)
  \/ \E x \in Submitters : Install(x) \/ \E name \in Users : Submit(x, name)
  \/ \E c \in Commands : Command(c) /\ UNCHANGED <<loop, sigChan, config, req>>

Spec == Init /\ [][Next]_vars

\* The goroutines of the process run; nobody has to start it or to signal it.
FairSpec ==
  /\ Spec
  /\ WF_vars(Loop)
  /\ \A w \in Workers : WF_vars(Handled(w)) /\ WF_vars(Leave(w))
  /\ \A x \in Submitters : WF_vars(Install(x))

-----------------------------------------------------------------------------
(* Properties                                                                *)

TypeOK ==
  /\ tables \subseteq Tables /\ columns \subseteq OldColumns \cup {NewColumn}
  /\ keys \in BOOLEAN /\ dangling \subseteq Tables /\ admins \subseteq Users
  /\ taskId \in [Tasks -> {"", "old"}] /\ logId \in [Tasks -> {None, "", "old"}]
  /\ \A f \in Files : file[f] # None => file[f] \subseteq Sections
  /\ viper \subseteq Sections /\ loaded \subseteq Sections
  /\ why \in Signals \cup {None, "reload"} /\ sigChan \in Signals \cup {None}
  /\ token \in BOOLEAN /\ serving \in BOOLEAN

\* A worker takes messages from the queue, and handles them with the database,
\* of one and the same configuration: none of the pool before a reload is left
\* when the handles are replaced (worker.go Stop, run.go reloadConfiguration).
OneGeneration ==
  TypeOK /\ \A w \in Workers : ~worker[w].stale

\* What the process or a file takes for an installed system has an administrator:
\* else the installer would be closed and nobody could log in. It holds whatever
\* request of the installer fails or is cut off, and wherever (SubmitInstall).
NobodyLockedOut ==
  ("installed" \in viper \cup loaded \/
   \E f \in Files : file[f] # None /\ "installed" \in file[f])
    => admins # {} \/ downs

\* The ids providers gave to the messages of the last version are not lost: when
\* the column goes, the newest log of each task has the task's id, whatever run
\* of the command was cut off before (migrateProviderMsgIDToPushLogs).
IdsMoved ==
  [][("push_tasks.provider_msg_id" \in columns \ columns' /\ "push_tasks" \in tables')
       => \A k \in Tasks : taskId[k] # "" /\ logId[k] # None => logId[k] = taskId[k]]_vars

\* An installation that was answered with success is in use before long, without
\* a restart, or the process has ended: asking for a reload while another is
\* under way, or already asked for, loses nothing (TriggerReload, run.go).
InstallTakesEffect ==
  \A x \in Submitters : req[x].pc = "trigger" ~> Installed \/ main = "down"
=============================================================================

------------------------------ MODULE Migration ------------------------------
(***************************************************************************)
(* The schema of the database and the programs that change it: the command *)
(* cmd/migrate with its actions up, down, fresh and seed, which several    *)
(* administrators may run at once, and gorm's AutoMigrate, which the       *)
(* command, the installer and every start of the service call.             *)
(*                                                                         *)
(* A statement is one step and is committed by itself (MySQL commits every *)
(* ALTER); a command that meets an error it does not only log ends there,  *)
(* and so does one that is killed. AutoMigrate creates tables and adds     *)
(* columns and foreign keys; it never removes any.                         *)
(***************************************************************************)
EXTENDS Integers, Sequences, FiniteSets

CONSTANTS
  Tasks,      \* tasks there were before the migration
  Commands,   \* processes of cmd/migrate
  Actions,    \* what they are started for
  Users,      \* user names of administrators
  Seeded,     \* the one the seed creates
  MaxRuns,    \* bound: commands, starts of the service, signals to it and
              \* installations in one behaviour
  MaxFaults,  \* bound: crashes and failed statements in one behaviour
  None

\* The tables the programs tell apart, in the order of the models. "provider_
\* accounts" stands for channels as well, and "provider_templates" for message_
\* templates and all that is neither dropped nor referred to.
Models == <<"provider_accounts", "push_tasks", "push_logs", "provider_templates",
            "channel_template_bindings", "admin_users", "failure_rules">>

Tables == {Models[i] : i \in 1 .. Len(Models)}

\* What the rows of a table refer to, and AutoMigrate creates before it.
Referred(t) ==
  CASE t = "provider_templates" -> {"provider_accounts"}
    [] t = "channel_template_bindings" -> {"provider_templates", "provider_accounts"}
    [] OTHER -> {}

\* Columns of earlier versions, and the one that took the last one's place.
OldColumns == {"template_binding_id", "template_code", "push_tasks.provider_msg_id"}
NewColumn == "push_logs.provider_msg_id"

\* Cleaning removes the bindings that refer to a missing row of these, in turn.
Cleaned == <<"provider_templates", "provider_accounts">>

Dropped == <<"admin_users", "push_logs", "push_tasks", "provider_accounts">>

ASSUME MigrationAssumption ==
  /\ Actions \subseteq {"up", "down", "fresh", "seed"}
  /\ Seeded \in Users
  /\ MaxRuns \in Nat /\ MaxFaults \in Nat

VARIABLES
  tables,    \* the tables there are
  columns,   \* the columns of the above there are
  keys,      \* bindings have their foreign keys
  dangling,  \* tables of which a binding refers to a missing row
  taskId,    \* provider_msg_id of each task
  logId,     \* provider_msg_id of the newest log of each task; None: no log
  admins,    \* names of the rows of admin_users
  cmd,       \* the commands
  downs,     \* history: tables were dropped
  runs,
  faults

schema == <<tables, columns, keys, dangling, taskId, logId>>
migration == <<schema, admins, cmd, downs, runs>>

NotRunning == [pc |-> "none", action |-> None, todo |-> <<>>]

\* A database of an earlier version, or a new one.
InitSchema ==
  \/ /\ tables = Tables \ {"failure_rules"}
     /\ columns = OldColumns
     /\ dangling \in {{}, {"provider_accounts"}}
     /\ keys = (dangling = {})
     /\ taskId = [k \in Tasks |-> "old"]
     /\ logId \in [Tasks -> {None, ""}]
  \/ /\ tables = {} /\ columns = {} /\ keys = FALSE /\ dangling = {}
     /\ taskId = [k \in Tasks |-> ""] /\ logId = [k \in Tasks |-> None]

InitMigration ==
  /\ InitSchema
  /\ admins \in {{}, {Seeded}} /\ (admins # {} => "admin_users" \in tables)
  /\ cmd = [c \in Commands |-> NotRunning]
  /\ downs = FALSE
  /\ runs = 0
  /\ faults = 0

Fault == faults < MaxFaults /\ faults' = faults + 1

-----------------------------------------------------------------------------
(* AutoMigrate of one model: its table, its new columns, its foreign keys    *)

\* A foreign key is refused while a row refers to a missing one.
Refused(t) == t = "channel_template_bindings" /\ ~keys /\ dangling # {}

AutoMigrate(t) ==
  /\ ~Refused(t)
  /\ tables' = tables \cup {t} \cup Referred(t)
  /\ columns' = columns \cup (IF t = "push_logs" THEN {NewColumn} ELSE {})
  /\ keys' = (keys \/ t = "channel_template_bindings")
  /\ UNCHANGED <<dangling, taskId, logId>>

-----------------------------------------------------------------------------
(* The command                                                               *)

At(c, pc) == cmd[c].pc = pc

Goto(c, pc, todo) ==
  cmd' = [cmd EXCEPT ![c] = [pc |-> pc, action |-> cmd[c].action, todo |-> todo]]

\* log.Fatalf
Exit(c) == cmd' = [cmd EXCEPT ![c] = NotRunning]

OnlySchema == UNCHANGED <<admins, downs, runs, faults>>

Run(c, action) ==
  /\ At(c, "none") /\ runs < MaxRuns
  /\ runs' = runs + 1
  /\ cmd' = [cmd EXCEPT ![c] =
               [pc |-> CASE action = "up" -> "bindings" [] action = "seed" -> "seed"
                         [] OTHER -> "drop",
                action |-> action,
                todo |-> IF action \in {"down", "fresh"} THEN Dropped ELSE <<>>]]
  /\ UNCHANGED <<schema, admins, downs, faults>>

\* The process is killed, or a statement fails whose error it does not only log.
Kill(c) ==
  /\ ~At(c, "none") /\ Fault
  /\ Exit(c)
  /\ UNCHANGED <<schema, admins, downs, runs>>

CheckBindings(c) ==
  /\ At(c, "bindings")
  /\ CASE "channel_template_bindings" \notin tables -> Goto(c, "code", <<>>)
       [] "template_binding_id" \in columns -> Goto(c, "unbind", <<>>)
       [] OTHER -> Goto(c, "unkey", <<>>)
  /\ UNCHANGED schema /\ OnlySchema

DropBindingColumn(c) ==
  /\ At(c, "unbind")
  /\ IF "template_binding_id" \in columns THEN Goto(c, "unkey", <<>>) ELSE Exit(c)
  /\ columns' = columns \ {"template_binding_id"}
  /\ UNCHANGED <<tables, keys, dangling, taskId, logId>> /\ OnlySchema

\* An error is logged, and the key stays.
DropKeys(c) ==
  /\ At(c, "unkey")
  /\ Goto(c, "clean", Cleaned)
  /\ \/ keys' = FALSE /\ UNCHANGED faults
     \/ keys' = keys /\ Fault
  /\ UNCHANGED <<tables, columns, dangling, taskId, logId, admins, downs, runs>>

\* The statement joins the bindings with the table: both have to be there.
CleanBindings(c) ==
  /\ At(c, "clean") /\ cmd[c].todo # <<>>
  /\ LET t == Head(cmd[c].todo) IN
     IF {"channel_template_bindings", t} \subseteq tables
     THEN /\ dangling' = dangling \ {t}
          /\ Goto(c, IF Len(cmd[c].todo) = 1 THEN "code" ELSE "clean", Tail(cmd[c].todo))
     ELSE Exit(c) /\ UNCHANGED dangling
  /\ UNCHANGED <<tables, columns, keys, taskId, logId>> /\ OnlySchema

RemoveCode(c) ==
  /\ At(c, "code")
  /\ columns' = columns \ {"template_code"}
  /\ Goto(c, "ids", <<>>)
  /\ UNCHANGED <<tables, keys, dangling, taskId, logId>> /\ OnlySchema

\* Mutant of CheckIds: the new column is taken for a migration that was done.
CheckIdsByNew(c) ==
  /\ At(c, "ids")
  /\ CASE "push_tasks.provider_msg_id" \notin columns -> Goto(c, "models", Models)
       [] "push_logs" \notin tables -> Goto(c, "logs", <<>>)
       [] NewColumn \notin columns -> Goto(c, "column", <<>>)
       [] OTHER -> Goto(c, "forget", <<>>)
  /\ UNCHANGED schema /\ OnlySchema

CheckIds(c) ==
  /\ At(c, "ids")
  /\ CASE "push_tasks.provider_msg_id" \notin columns -> Goto(c, "models", Models)
       [] "push_logs" \notin tables -> Goto(c, "logs", <<>>)
       [] NewColumn \notin columns -> Goto(c, "column", <<>>)
       [] OTHER -> Goto(c, "move", <<>>)
  /\ UNCHANGED schema /\ OnlySchema

CreateLogs(c) ==
  /\ At(c, "logs")
  /\ AutoMigrate("push_logs")
  /\ Goto(c, "move", <<>>)
  /\ OnlySchema

AddColumn(c) ==
  /\ At(c, "column")
  /\ IF "push_logs" \in tables /\ NewColumn \notin columns
     THEN Goto(c, "move", <<>>) /\ columns' = columns \cup {NewColumn}
     ELSE Exit(c) /\ UNCHANGED columns
  /\ UNCHANGED <<tables, keys, dangling, taskId, logId>> /\ OnlySchema

HasIds == /\ "push_tasks.provider_msg_id" \in columns
          /\ {"push_tasks", "push_logs"} \subseteq tables
          /\ NewColumn \in columns

\* The id of a task goes to its newest log, unless that one has an id.
MoveIds(c) ==
  /\ At(c, "move")
  /\ IF HasIds
     THEN /\ logId' = [k \in Tasks |-> IF taskId[k] # "" /\ logId[k] = ""
                                         THEN taskId[k] ELSE logId[k]]
          /\ Goto(c, "forget", <<>>)
     ELSE Exit(c) /\ UNCHANGED logId
  /\ UNCHANGED <<tables, columns, keys, dangling, taskId>> /\ OnlySchema

DropIds(c) ==
  /\ At(c, "forget")
  /\ IF "push_tasks.provider_msg_id" \in columns
     THEN /\ Goto(c, "models", Models)
          /\ columns' = columns \ {"push_tasks.provider_msg_id"}
          /\ taskId' = [k \in Tasks |-> ""]
     ELSE Exit(c) /\ UNCHANGED <<columns, taskId>>
  /\ UNCHANGED <<tables, keys, dangling, logId>> /\ OnlySchema

MigrateModel(c) ==
  /\ At(c, "models")
  /\ LET rest == Tail(cmd[c].todo) IN
     IF Refused(Head(cmd[c].todo))
     THEN Exit(c) /\ UNCHANGED schema
     ELSE /\ AutoMigrate(Head(cmd[c].todo))
          /\ IF rest = <<>> THEN Goto(c, "finished", rest) ELSE Goto(c, "models", rest)
  /\ OnlySchema

-----------------------------------------------------------------------------
(* down, fresh, seed                                                         *)

\* Columns and rows go with their table. Foreign keys are not looked at while a
\* table is dropped: the bindings stay, if there are any, and refer to nothing.
DropTable(c) ==
  /\ At(c, "drop")
  /\ LET t == Head(cmd[c].todo)
         rest == Tail(cmd[c].todo)
         pc == CASE rest # <<>> -> "drop"
                 [] cmd[c].action = "fresh" -> "bindings"
                 [] OTHER -> "finished" IN
     /\ Goto(c, pc, rest)
     /\ \/ /\ tables' = tables \ {t}
           /\ columns' = columns \ (CASE t = "push_logs" -> {NewColumn}
                                      [] t = "push_tasks" -> {"push_tasks.provider_msg_id"}
                                      [] OTHER -> {})
           /\ \/ dangling' = dangling
              \/ /\ {"channel_template_bindings", t} \subseteq tables
                 /\ t = "provider_accounts" /\ t \notin dangling
                 /\ dangling' = dangling \cup {t}
           /\ taskId' = [k \in Tasks |-> IF t = "push_tasks" THEN "" ELSE taskId[k]]
           /\ logId' = [k \in Tasks |-> IF t = "push_logs" THEN None ELSE logId[k]]
           /\ admins' = IF t = "admin_users" THEN {} ELSE admins
           /\ UNCHANGED faults
        \/ Fault /\ UNCHANGED <<tables, columns, dangling, taskId, logId, admins>>
  /\ downs' = TRUE
  /\ UNCHANGED <<keys, runs>>

\* The name is unique; that it is taken, or the table missing, is logged.
Seed(c) ==
  /\ At(c, "seed")
  /\ Goto(c, "finished", <<>>)
  /\ admins' = admins \cup (IF "admin_users" \in tables THEN {Seeded} ELSE {})
  /\ UNCHANGED <<schema, downs, runs, faults>>

Finish(c) ==
  /\ At(c, "finished")
  /\ Exit(c)
  /\ UNCHANGED schema /\ OnlySchema

Step(c) ==
  \/ CheckBindings(c) \/ DropBindingColumn(c) \/ DropKeys(c) \/ CleanBindings(c)
  \/ RemoveCode(c) \/ CheckIds(c) \/ CreateLogs(c) \/ AddColumn(c) \/ MoveIds(c)
  \/ DropIds(c) \/ MigrateModel(c) \/ DropTable(c) \/ Seed(c) \/ Finish(c)

Command(c) == \/ \E action \in Actions : Run(c, action)
              \/ Kill(c)
              \/ Step(c)
=============================================================================

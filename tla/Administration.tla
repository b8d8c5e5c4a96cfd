--------------------------- MODULE Administration ---------------------------
(***************************************************************************)
(* What administrators do to the configuration, by requests to /api/admin  *)
(* that run at the same time in all replicas: channels with their bindings *)
(* and signature mappings, provider accounts with their templates and      *)
(* signatures, message templates, users, and the failure rules, which each *)
(* replica keeps in a cache of its own.                                    *)
(*                                                                         *)
(* A request reads a row per check, one statement each, and then writes:   *)
(* none of them is a transaction. Rows are deleted softly; gorm's Save     *)
(* writes every column of the row it was given, deleted_at included.       *)
(***************************************************************************)
EXTENDS Integers, Sequences, FiniteSets

CONSTANTS
  Ids,          \* ids of rows of all tables
  Seed,         \* the rows there are in the beginning
  Types,        \* message types
  SMS,          \* the one whose accounts have signatures
  Names,        \* names and codes that have to be unique
  Replicas,
  Callers,      \* goroutines: one per request, and workers that met a failure
  Home,         \* the replica each runs in
  MaxRequests,  \* bound: requests in one behaviour
  MaxFaults,    \* bound: failed statements in one behaviour
  None

Scenes == {"send_failure", "callback_failure"}

Tables == {"account", "system", "template", "signature", "channel", "binding",
           "mapping", "user", "rule"}

\* What a request does once its checks are done.
Ops == {"insert", "save", "columns", "delete", "delete_channel", "refresh", "evaluate"}

\* up: what the row hangs on, see Hangs; type: a message type, or a rule's scene.
Rows == [table : Tables \cup {None}, live : BOOLEAN, on : BOOLEAN,
         type : Types \cup Scenes \cup {None}, up : Ids \cup {None},
         channel : Ids \cup {None}, provider : Ids \cup {None},
         name : Names \cup {None}]

ASSUME NamesAssumption ==
  /\ SMS \in Types
  /\ \A S \in {Types, Names, Scenes, Tables, Ops, Callers} : None \notin S
  /\ Ids \subseteq Nat /\ None \notin Ids
  /\ Home \in [Callers -> Replicas]

\* What makes two rows of a table the same.
Key(row) == IF row.table = "binding" THEN <<row.channel, row.up>>
            ELSE IF row.table = "mapping" THEN <<row.channel, row.name, row.provider>>
            ELSE <<row.provider, row.name>>

\* The rows there are in the beginning are such as requests leave behind.
ASSUME SeedAssumption ==
  /\ DOMAIN Seed \subseteq Ids
  /\ \A i \in DOMAIN Seed : Seed[i] \in Rows /\ Seed[i].table \in Tables
  /\ \A i \in DOMAIN Seed : Seed[i].table \in {"binding", "mapping"} =>
       /\ {Seed[i].up, Seed[i].channel, Seed[i].provider} \subseteq DOMAIN Seed
       /\ Seed[Seed[i].up].table \in {"template", "signature"}
       /\ Seed[Seed[i].up].provider = Seed[i].provider
       /\ Seed[Seed[i].channel].table = "channel"
       /\ Seed[Seed[i].provider].table = "account"
       /\ Seed[i].table = "binding" =>
            /\ Seed[i].live => Seed[Seed[i].channel].live
            /\ Seed[Seed[i].provider].live =>
                 Seed[Seed[i].provider].type = Seed[Seed[i].channel].type
  /\ \A i, j \in DOMAIN Seed : i # j /\ Seed[i].table = Seed[j].table =>
       /\ Seed[i].table = "user" => Seed[i].name # Seed[j].name
       /\ /\ Seed[i].table \in {"binding", "mapping", "template", "signature"}
          /\ Seed[i].live /\ Seed[j].live
          => Key(Seed[i]) # Key(Seed[j])

ASSUME BoundsAssumption == MaxRequests \in Nat /\ MaxFaults \in Nat

VARIABLES
  db,          \* the rows
  req,         \* what each caller is doing
  cache,       \* ruleCache of each replica: the rules of a scene, and when read
  lock,        \* its mutex: the caller that holds it, or None
  writes,      \* history: writes to the rules so far
  wrote,       \* history: writes when a request of the replica wrote last
  missed,      \* history: replicas that failed to read a list of rules
  overlapped,  \* history: two requests ran at the same time
  requests,
  faults

caches == <<cache, lock, missed>>
vars == <<db, req, caches, writes, wrote, overlapped, requests, faults>>

Blank == [table |-> None, live |-> FALSE, on |-> FALSE, type |-> None, up |-> None,
          channel |-> None, provider |-> None, name |-> None]

\* What an update changes; None: left as it is.
Nothing == [type |-> None, up |-> None, name |-> None, on |-> None]

Idle == [pc |-> "idle", op |-> None, id |-> None, row |-> Blank, change |-> Nothing,
         checks |-> <<>>, scenes |-> <<>>, list |-> {}, read |-> 0]

Init ==
  /\ db = [i \in Ids |-> IF i \in DOMAIN Seed THEN Seed[i] ELSE Blank]
  /\ req = [x \in Callers |-> Idle]
  /\ cache = [h \in Replicas |-> [s \in Scenes |-> [rules |-> {}, at |-> 0]]]
  /\ lock = [h \in Replicas |-> None]
  /\ writes = 0
  /\ wrote = [h \in Replicas |-> 0]
  /\ missed = {}
  /\ overlapped = FALSE
  /\ requests = 0
  /\ faults = 0

Fault == faults < MaxFaults /\ faults' = faults + 1

Live(i) == db[i].live

Of(table) == {i \in Ids : db[i].table = table}

-----------------------------------------------------------------------------
(* Requests begin: op is what is written after the checks                    *)

Start(x, op, id, row, change, checks) ==
  /\ req[x].pc = "idle" /\ requests < MaxRequests
  /\ req' = [req EXCEPT ![x] =
               [Idle EXCEPT !.pc = "check", !.op = op, !.id = id, !.row = row,
                            !.change = change, !.checks = checks]]
  /\ requests' = requests + 1
  /\ overlapped' = (overlapped \/ \E y \in Callers : req[y].op \notin {None, "evaluate"})
  /\ UNCHANGED <<db, caches, writes, wrote, faults>>

\* A status of 0 is the same as none: the default of the column, enabled.
New(table) == [Blank EXCEPT !.table = table, !.live = TRUE, !.on = TRUE]

Create(x, row, checks) == Start(x, "insert", None, row, Nothing, checks)

Update(x, op, id, change, checks) == Start(x, op, id, Blank, change, checks)

Delete(x, id, checks) == Start(x, "delete", id, Blank, Nothing, checks)

CreateChannel(x) ==
  \E s \in Of("system"), type \in Types :
    Create(x, [New("channel") EXCEPT !.type = type, !.up = s], <<"system">>)

UpdateChannel(x) ==
  \E c \in Of("channel"), on \in BOOLEAN :
    Update(x, "columns", c, [Nothing EXCEPT !.on = on], <<>>)

DeleteChannel(x) ==
  \E c \in Of("channel") : Start(x, "delete_channel", c, Blank, Nothing, <<>>)

CreateChannelBinding(x) ==
  \E c \in Of("channel"), t \in Of("template"), a \in Of("account") :
    Create(x, [New("binding") EXCEPT !.channel = c, !.up = t, !.provider = a],
           <<"channel", "template", "duplicate">>)

UpdateChannelBinding(x) ==
  \E b \in Of("binding"), on \in BOOLEAN :
    Update(x, "columns", b, [Nothing EXCEPT !.on = on], <<"itself">>)

DeleteChannelBinding(x) == \E b \in Of("binding") : Delete(x, b, <<"itself">>)

CreateChannelSignatureMapping(x) ==
  \E c \in Of("channel"), s \in Of("signature"), a \in Of("account"), n \in Names :
    Create(x, [New("mapping") EXCEPT !.channel = c, !.up = s, !.provider = a, !.name = n],
           <<"channel", "signature", "duplicate">>)

UpdateChannelSignatureMapping(x) ==
  \E m \in Of("mapping"), s \in Of("signature") \cup {None}, n \in Names \cup {None},
     on \in {FALSE, None} :
    Update(x, "save", m, [Nothing EXCEPT !.up = s, !.name = n, !.on = on], <<"itself">>)

DeleteChannelSignatureMapping(x) == \E m \in Of("mapping") : Delete(x, m, <<"itself">>)

CreateProviderAccount(x) ==
  \E type \in Types : Create(x, [New("account") EXCEPT !.type = type], <<>>)

\* The row is only read when the request has a configuration.
UpdateProviderAccount(x) ==
  \E a \in Of("account"), on \in BOOLEAN, checks \in {<<>>, <<"itself">>} :
    Update(x, "columns", a, [Nothing EXCEPT !.on = on], checks)

\* Nothing that hangs on the account is looked at.
DeleteProviderAccount(x) == \E a \in Of("account") : Delete(x, a, <<>>)

CreateProviderTemplate(x) ==
  \E a \in Of("account"), n \in Names :
    Create(x, [New("template") EXCEPT !.provider = a, !.name = n],
           <<"account", "duplicate">>)

UpdateProviderTemplate(x) ==
  \E t \in Of("template"), on \in BOOLEAN :
    Update(x, "save", t, [Nothing EXCEPT !.on = on], <<"itself">>)

DeleteProviderTemplate(x) == \E t \in Of("template") : Delete(x, t, <<>>)

CreateSignature(x) ==
  \E a \in Of("account"), n \in Names :
    Create(x, [New("signature") EXCEPT !.provider = a, !.name = n],
           <<"sms_account", "duplicate">>)

UpdateSignature(x) ==
  \E s \in Of("signature"), n \in Names, on \in BOOLEAN :
    Update(x, "save", s, [Nothing EXCEPT !.name = n, !.on = on],
           <<"itself", "duplicate">>)

DeleteSignature(x) == \E s \in Of("signature") : Delete(x, s, <<"itself">>)

CreateMessageTemplate(x) ==
  \E type \in Types : Create(x, [New("system") EXCEPT !.type = type], <<>>)

\* The type may change under the channels of the template.
UpdateMessageTemplate(x) ==
  \E s \in Of("system"), type \in Types :
    Update(x, "save", s, [Nothing EXCEPT !.type = type], <<"itself">>)

DeleteMessageTemplate(x) == \E s \in Of("system") : Delete(x, s, <<>>)

CreateUser(x) ==
  \E n \in Names : Create(x, [New("user") EXCEPT !.name = n], <<"duplicate">>)

UpdateUser(x) ==
  \E u \in Of("user"), on \in BOOLEAN :
    Update(x, "save", u, [Nothing EXCEPT !.on = on], <<"itself">>)

DeleteUser(x) == \E u \in Of("user") : Delete(x, u, <<"itself">>)

CreateFailureRule(x) ==
  \E s \in Scenes : Create(x, [New("rule") EXCEPT !.type = s], <<>>)

UpdateFailureRule(x) ==
  \E r \in Of("rule"), s \in Scenes \cup {None}, on \in BOOLEAN \cup {None} :
    Update(x, "save", r, [Nothing EXCEPT !.type = s, !.on = on], <<"itself">>)

DeleteFailureRule(x) == \E r \in Of("rule") : Delete(x, r, <<>>)

RefreshRuleCache(x) == Start(x, "refresh", None, Blank, Nothing, <<>>)

\* A worker whose send failed, or a report that tells of a failure.
Evaluate(x) ==
  \E s \in Scenes : Start(x, "evaluate", None, [Blank EXCEPT !.type = s], Nothing, <<>>)

-----------------------------------------------------------------------------
(* Its checks, in their order                                                *)

Done(x) == req' = [req EXCEPT ![x] = Idle]

Goes(x, fields) == req' = [req EXCEPT ![x] = fields]

\* Mutant of NotTwice: rows that are disabled do not count.
NotTwiceInUse(row, id) ==
  ~ \E i \in Of(row.table) \ {id} : Live(i) /\ db[i].on /\ Key(db[i]) = Key(row)

NotTwice(row, id) ==
  ~ \E i \in Of(row.table) \ {id} : Live(i) /\ Key(db[i]) = Key(row)

SameType(row) == db[row.up].type = row.type

\* Mutant of OfItsProvider: the provider of the request is believed.
AnyProvider(i, row) == TRUE

OfItsProvider(i, row) == db[i].provider = row.provider

\* Mutant of FitsChannel: left out.
FitsAnyChannel(row) == TRUE

\* Skipped when the account is not found any more.
FitsChannel(row) == Live(row.provider) => db[row.provider].type = db[row.channel].type

Wanted(x) == IF req[x].change.up # None THEN req[x].change.up ELSE req[x].row.up

Passes(x, check) ==
  LET row == req[x].row IN
  /\ check = "system" => Live(row.up) /\ SameType(row)
  /\ check = "channel" => Live(row.channel)
  /\ check = "template" =>
       Live(row.up) /\ OfItsProvider(row.up, row) /\ FitsChannel(row)
  /\ check = "signature" => Live(Wanted(x)) /\ OfItsProvider(Wanted(x), row)
  /\ check = "account" => Live(row.provider)
  /\ check = "sms_account" => Live(row.provider) /\ db[row.provider].type = SMS
  /\ check = "duplicate" => NotTwice(row, req[x].id)

Check(x) ==
  LET k == req[x] IN
  /\ k.pc = "check" /\ k.checks # <<>> /\ Head(k.checks) # "itself"
  /\ \/ /\ Passes(x, Head(k.checks))
        /\ Goes(x, [k EXCEPT !.checks = Tail(@)])
        /\ UNCHANGED faults
     \/ ~Passes(x, Head(k.checks)) /\ Done(x) /\ UNCHANGED faults
     \* UsernameExists does not look at the error.
     \/ Fault /\ IF k.row.table = "user" THEN Goes(x, [k EXCEPT !.checks = Tail(@)])
                 ELSE Done(x)
  /\ UNCHANGED <<db, caches, writes, wrote, overlapped, requests>>

Changed(old, new) == IF new = None THEN old ELSE new

\* The row as it was read, with the changes. Save sets the foreign key of a
\* mapping from the signature that was loaded with it: a new signature only
\* comes into the row when the old one was deleted.
Merged(old, change) ==
  [old EXCEPT !.type = Changed(@, change.type),
              !.name = Changed(@, change.name),
              !.on = Changed(@, change.on),
              !.up = IF @ # None /\ Live(@) THEN @ ELSE Changed(@, change.up)]

\* Checks of an update that depend on what it changes.
Further(old, change) ==
  (IF old.table = "mapping" /\ change.name \notin {None, old.name} THEN <<"duplicate">> ELSE <<>>)
  \o (IF change.up \notin {None, old.up} THEN <<"signature">> ELSE <<>>)

ReadItself(x) ==
  LET k == req[x]
      old == db[k.id]
  IN
  /\ k.pc = "check" /\ k.checks # <<>> /\ Head(k.checks) = "itself"
  /\ \/ /\ Live(k.id)
        /\ Goes(x, [k EXCEPT !.row = Merged(old, k.change),
                             !.checks = Tail(@) \o Further(old, k.change)])
        /\ UNCHANGED faults
     \/ ~Live(k.id) /\ Done(x) /\ UNCHANGED faults
     \/ Fault /\ Done(x)
  /\ UNCHANGED <<db, caches, writes, wrote, overlapped, requests>>

-----------------------------------------------------------------------------
(* Its write                                                                 *)

Ready(x, op) == req[x].pc = "check" /\ req[x].checks = <<>> /\ req[x].op = op

\* A write to the rules is followed by RefreshCache, of this replica only.
Wrote(x, table) ==
  IF table = "rule"
  THEN /\ Goes(x, [Idle EXCEPT !.pc = "lock", !.op = req[x].op])
       /\ writes' = writes + 1
       /\ wrote' = [wrote EXCEPT ![Home[x]] = writes + 1]
  ELSE Done(x) /\ UNCHANGED <<writes, wrote>>

Fails(x) == Fault /\ Done(x) /\ UNCHANGED <<db, writes, wrote>>

NewId == CHOOSE i \in Of(None) : \A j \in Of(None) : i <= j

\* uk_username counts the deleted users too.
Taken(row) == row.table = "user" /\ \E u \in Of("user") : db[u].name = row.name

Insert(x) ==
  LET row == req[x].row IN
  /\ Ready(x, "insert") /\ Of(None) # {}
  /\ \/ /\ ~Taken(row)
        /\ db' = [db EXCEPT ![NewId] = row]
        /\ Wrote(x, row.table)
        /\ UNCHANGED faults
     \/ Taken(row) /\ Done(x) /\ UNCHANGED <<db, writes, wrote, faults>>
     \/ Fails(x)
  /\ UNCHANGED <<caches, overlapped, requests>>

\* Every column as it was read: a row deleted meanwhile is not found, and then
\* inserted again over the deleted one.
Save(x) ==
  /\ Ready(x, "save")
  /\ \/ /\ db' = [db EXCEPT ![req[x].id] = req[x].row]
        /\ Wrote(x, req[x].row.table)
        /\ UNCHANGED faults
     \/ Fails(x)
  /\ UNCHANGED <<caches, overlapped, requests>>

\* Mutant of Columns: the row is not looked for.
ColumnsOfAny(i, change) == [db EXCEPT ![i] = [@ EXCEPT !.on = change.on, !.live = TRUE]]

\* Updates(map) WHERE id = ? AND deleted_at IS NULL.
Columns(i, change) ==
  IF Live(i) THEN [db EXCEPT ![i] = [@ EXCEPT !.on = change.on]] ELSE db

UpdateColumns(x) ==
  /\ Ready(x, "columns")
  /\ \/ /\ db' = Columns(req[x].id, req[x].change)
        /\ Done(x)
        /\ UNCHANGED <<writes, wrote, faults>>
     \/ Fails(x)
  /\ UNCHANGED <<caches, overlapped, requests>>

Without(S) == [i \in Ids |-> IF i \in S THEN [db[i] EXCEPT !.live = FALSE] ELSE db[i]]

DeleteRow(x) ==
  /\ Ready(x, "delete")
  /\ \/ /\ db' = Without({req[x].id})
        /\ Wrote(x, db[req[x].id].table)
        /\ UNCHANGED faults
     \/ Fails(x)
  /\ UNCHANGED <<caches, overlapped, requests>>

\* Mutant of BindingsOf: those in use only.
BindingsInUse(c) == {b \in Of("binding") : Live(b) /\ db[b].channel = c /\ db[b].on}

BindingsOf(c) == {b \in Of("binding") : Live(b) /\ db[b].channel = c}

\* DeleteChannel: DeleteByChannelID runs on a connection of its own, outside of
\* the transaction that is open.
DeleteBindings(x) ==
  LET k == req[x] IN
  /\ Ready(x, "delete_channel")
  /\ \/ /\ db' = Without(BindingsOf(k.id))
        /\ Goes(x, [k EXCEPT !.pc = "commit"])
        /\ UNCHANGED <<writes, wrote, faults>>
     \/ Fails(x)
  /\ UNCHANGED <<caches, overlapped, requests>>

\* The transaction: the channel's row, and COMMIT.
CommitChannel(x) ==
  /\ req[x].pc = "commit"
  /\ \/ db' = Without({req[x].id}) /\ Done(x) /\ UNCHANGED <<writes, wrote, faults>>
     \/ Fails(x)
  /\ UNCHANGED <<caches, overlapped, requests>>

-----------------------------------------------------------------------------
(* The cache of the rules                                                    *)

\* Mutant of Free: no mutex.
AlwaysFree(h) == TRUE

Free(h) == lock[h] = None

Empty(h, scene) == cache[h][scene].rules = {}

Refresh(x) ==
  /\ Ready(x, "refresh")
  /\ Goes(x, [req[x] EXCEPT !.pc = "lock"])
  /\ UNCHANGED <<db, caches, writes, wrote, overlapped, requests, faults>>

\* getCachedRules; an empty list is read again from the table first.
Look(x) ==
  /\ Ready(x, "evaluate") /\ Free(Home[x])
  /\ IF Empty(Home[x], req[x].row.type) THEN Goes(x, [req[x] EXCEPT !.pc = "lock"])
     ELSE Done(x)
  /\ UNCHANGED <<db, caches, writes, wrote, overlapped, requests, faults>>

\* The rules of the list that match decide, or the default of the scene.
Decide(x) ==
  /\ req[x].pc = "decide" /\ Free(Home[x])
  /\ Done(x)
  /\ UNCHANGED <<db, caches, writes, wrote, overlapped, requests, faults>>

\* RefreshCache: both lists are read under the mutex.
Lock(x) ==
  LET h == Home[x] IN
  /\ req[x].pc = "lock" /\ Free(h)
  /\ lock' = [lock EXCEPT ![h] = x]
  /\ Goes(x, [req[x] EXCEPT !.pc = "read",
                            !.scenes = <<"send_failure", "callback_failure">>])
  /\ UNCHANGED <<db, cache, missed, writes, wrote, overlapped, requests, faults>>

\* On to the next scene, or out.
Onward(x) ==
  LET k == req[x] IN
  IF Len(k.scenes) = 1
  THEN /\ IF k.op = "evaluate" THEN Goes(x, [k EXCEPT !.pc = "decide", !.scenes = <<>>, !.list = {}])
          ELSE Done(x)
       /\ lock' = [lock EXCEPT ![Home[x]] = None]
  ELSE /\ Goes(x, [k EXCEPT !.pc = "read", !.scenes = Tail(@), !.list = {}])
       /\ UNCHANGED lock

\* GetActiveByScene; an error leaves the old list.
ReadRules(x) ==
  LET k == req[x]
      active == {r \in Of("rule") : Live(r) /\ db[r].on /\ db[r].type = Head(k.scenes)}
  IN
  /\ k.pc = "read"
  /\ \/ /\ Goes(x, [k EXCEPT !.pc = "keep", !.list = active, !.read = writes])
        /\ UNCHANGED <<lock, missed, faults>>
     \/ Fault /\ Onward(x) /\ missed' = missed \cup {Home[x]}
  /\ UNCHANGED <<db, cache, writes, wrote, overlapped, requests>>

KeepRules(x) ==
  LET k == req[x]
      h == Home[x]
  IN
  /\ k.pc = "keep"
  /\ cache' = [cache EXCEPT ![h] = [@ EXCEPT ![Head(k.scenes)] =
                                      [rules |-> k.list, at |-> k.read]]]
  /\ Onward(x)
  /\ UNCHANGED <<db, missed, writes, wrote, overlapped, requests, faults>>

-----------------------------------------------------------------------------
Channels(x) ==
  \/ CreateChannel(x) \/ UpdateChannel(x) \/ DeleteChannel(x)
  \/ CreateChannelBinding(x) \/ UpdateChannelBinding(x) \/ DeleteChannelBinding(x)
  \/ CreateChannelSignatureMapping(x) \/ UpdateChannelSignatureMapping(x)
  \/ DeleteChannelSignatureMapping(x)

Accounts(x) ==
  \/ CreateProviderAccount(x) \/ UpdateProviderAccount(x) \/ DeleteProviderAccount(x)
  \/ CreateProviderTemplate(x) \/ UpdateProviderTemplate(x) \/ DeleteProviderTemplate(x)
  \/ CreateSignature(x) \/ UpdateSignature(x) \/ DeleteSignature(x)

Others(x) ==
  \/ CreateMessageTemplate(x) \/ UpdateMessageTemplate(x) \/ DeleteMessageTemplate(x)
  \/ CreateUser(x) \/ UpdateUser(x) \/ DeleteUser(x)
  \/ CreateFailureRule(x) \/ UpdateFailureRule(x) \/ DeleteFailureRule(x)
  \/ RefreshRuleCache(x) \/ Evaluate(x)

Statement(x) ==
  \/ Check(x) \/ ReadItself(x) \/ Insert(x) \/ Save(x) \/ UpdateColumns(x)
  \/ DeleteRow(x) \/ DeleteBindings(x) \/ CommitChannel(x)
  \/ Refresh(x) \/ Look(x) \/ Decide(x) \/ Lock(x) \/ ReadRules(x) \/ KeepRules(x)

Next == \E x \in Callers : Channels(x) \/ Accounts(x) \/ Others(x) \/ Statement(x)

Spec == Init /\ [][Next]_vars

-----------------------------------------------------------------------------
TypeOK ==
  /\ db \in [Ids -> Rows]
  /\ \A x \in Callers :
       /\ req[x].pc \in {"idle", "check", "commit", "lock", "read", "keep", "decide"}
       /\ req[x].id \in Ids \cup {None}
       /\ req[x].row \in Rows
       /\ req[x].list \subseteq Ids /\ req[x].read \in Nat
  /\ \A h \in Replicas : \A s \in Scenes :
       cache[h][s].rules \subseteq Ids /\ cache[h][s].at \in Nat
  /\ lock \in [Replicas -> Callers \cup {None}]
  /\ writes \in Nat /\ wrote \in [Replicas -> Nat] /\ missed \subseteq Replicas
  /\ overlapped \in BOOLEAN /\ requests \in Nat /\ faults \in Nat

\* The provider written into a binding or a mapping beside its template or its
\* signature is the one that has the template or the signature, whatever
\* requests change and delete between the check, the write and later saves: the
\* selector takes the account from the one and the code to send from the other.
ProviderAgrees ==
  \A i \in Of("binding") \cup Of("mapping") : db[db[i].up].provider = db[i].provider

\* A binding whose account is still there has the type of its channel, even
\* when it was created while the account was away: no request brings an account
\* back. (The types of the variables are part of it.)
TypesAgree ==
  /\ TypeOK
  /\ \A b \in Of("binding") :
       Live(db[b].provider) => db[db[b].provider].type = db[db[b].channel].type

\* As long as one request runs at a time no binding, mapping, template or
\* signature is there twice; two users have never had one name.
NoDuplicates ==
  \A i \in Ids : \A j \in Ids \ {i} :
    /\ db[i].table = "user" /\ db[j].table = "user" => db[i].name # db[j].name
    /\ /\ db[i].table \in {"binding", "mapping", "template", "signature"}
       /\ db[j].table = db[i].table /\ Live(i) /\ Live(j) /\ ~overlapped
       => Key(db[i]) # Key(db[j])

\* As long as one request runs at a time no binding in the table is of a channel
\* that is deleted; one created while the channel is being deleted stays.
NoOrphans ==
  overlapped \/ \A b \in Of("binding") : Live(b) => Live(db[b].channel)

\* As long as one request runs at a time what is deleted stays deleted; a Save
\* that read the row before brings it back.
DeletedForGood ==
  [][overlapped' \/ \A i \in Ids : db[i].table # None /\ ~Live(i) => ~db'[i].live]_vars

\* Once a request that changed the rules is through, no refresh that read them
\* earlier puts an older list into the cache of its replica.
OwnChangesApply ==
  \A h \in Replicas : \A s \in Scenes :
    \/ cache[h][s].at >= wrote[h]
    \/ h \in missed
    \/ \E x \in Callers : Home[x] = h /\ req[x].pc \in {"lock", "read", "keep"}
=============================================================================

------------------------ MODULE AdministrationProofs ------------------------
(***************************************************************************)
(* Proofs about Administration, for any configuration, any number of       *)
(* administrators and replicas, of requests and of failed statements.      *)
(***************************************************************************)
EXTENDS Administration, WellFoundedInduction, TLAPS

Checks == {"system", "channel", "template", "signature", "account", "sms_account",
           "duplicate", "itself"}

Changes == [type : Types \cup Scenes \cup {None}, up : Ids \cup {None},
            name : Names \cup {None}, on : BOOLEAN \cup {None}]

Requests == [pc : {"idle", "check", "commit", "lock", "read", "keep", "decide"},
             op : Ops \cup {None}, id : Ids \cup {None}, row : Rows, change : Changes,
             checks : Seq(Checks), scenes : Seq(Scenes), list : SUBSET Ids, read : Nat]

\* A check is still to come.
Due(checks, c) == \E n \in 1 .. Len(checks) : checks[n] = c

\* A request that has yet to read the row it changes.
Unread(checks) == checks # <<>> /\ Head(checks) = "itself"

\* What hangs on a template or a signature, and what of it that is.
Hung(row) == row.up \in Ids /\ db[row.up].table \in {"template", "signature"}

Upper(row) == IF row.table = "binding" THEN "template" ELSE "signature"

\* Rows that must not be there twice.
Single == {"binding", "mapping", "template", "signature"}

\* Rows that can be saved as a whole: what has an update by gorm's Save.
Saved == {"mapping", "template", "signature", "system", "user", "rule"}

\* What a request is about when it begins.
Begun(op, id, row, change, checks) ==
  /\ op \in Ops /\ id \in Ids \cup {None} /\ row \in Rows /\ change \in Changes
  /\ checks \in Seq(Checks)
  /\ Due(checks, "itself") => op \in {"save", "columns", "delete"}
  /\ op = "insert" =>
       /\ id = None /\ change = Nothing /\ row.table \in Tables
       /\ row.table \in {"binding", "mapping"} => Hung(row) /\ Due(checks, Upper(row))
       /\ row.table = "binding" =>
            /\ row.provider \in Of("account") /\ row.channel \in Of("channel")
            /\ Due(checks, "channel")
       /\ row.table \in Single => Due(checks, "duplicate")
  /\ op = "save" =>
       /\ id \in Ids /\ db[id].table \in Saved
       /\ Unread(checks) /\ ~Due(Tail(checks), "itself")
       /\ change.up # None => db[id].table = "mapping" /\ change.up \in Of("signature")
       /\ db[id].table \in {"user", "template"} => change.name = None
       /\ db[id].table = "signature" => Due(checks, "duplicate")
  /\ op = "columns" => id \in Ids /\ db[id].table # None /\ change.on \in BOOLEAN
  /\ op = "delete" => id \in Ids /\ db[id].table \notin {None, "channel"}
  /\ op = "delete_channel" => id \in Of("channel")

-----------------------------------------------------------------------------
(* The inductive invariant: types, what the rows say of each other, what the *)
(* checks of a request that are done have shown, and what else holds as long *)
(* as one request runs at a time.                                            *)

\* Both scenes are read, then only the second is left.
Working(k) ==
  k.pc \in {"read", "keep"} =>
    k.scenes \in {<<"send_failure", "callback_failure">>, <<"callback_failure">>}

TypeInv ==
  /\ db \in [Ids -> Rows] /\ req \in [Callers -> Requests]
  /\ cache \in [Replicas -> [Scenes -> [rules : SUBSET Ids, at : Nat]]]
  /\ lock \in [Replicas -> Callers \cup {None}]
  /\ writes \in Nat /\ wrote \in [Replicas -> Nat] /\ missed \subseteq Replicas
  /\ overlapped \in BOOLEAN /\ requests \in Nat /\ faults \in Nat
  /\ \A x \in Callers : Working(req[x])

Agree(row) == Hung(row) /\ db[row.up].provider = row.provider

Bound(row) == row.provider \in Of("account") /\ row.channel \in Of("channel")

RowOK(row) ==
  /\ row.table \in {"binding", "mapping"} => Agree(row)
  /\ row.table = "binding" => Bound(row) /\ FitsChannel(row)

RowsOK == \A i \in Ids : RowOK(db[i])

\* The user names are unique, those of deleted users included.
UsersOK ==
  \A i \in Ids : \A j \in Ids \ {i} :
    db[i].table = "user" /\ db[j].table = "user" => db[i].name # db[j].name

\* A row to insert: what is not known of it yet is still to be checked.
InsertOK(k) ==
  k.op = "insert" =>
    /\ k.id = None /\ k.change = Nothing /\ k.row.table \in Tables
    /\ k.row.table \in {"binding", "mapping"} =>
         Hung(k.row) /\ (Agree(k.row) \/ Due(k.checks, Upper(k.row)))
    /\ k.row.table = "binding" =>
         Bound(k.row) /\ (FitsChannel(k.row) \/ Due(k.checks, "template"))

\* A row to save, once it was read: it keeps its place, and what it hangs on now
\* is the old or is still to be checked.
ReadOK(k) ==
  /\ k.row.table = db[k.id].table /\ k.row.provider = db[k.id].provider
  /\ k.row.channel = db[k.id].channel
  /\ k.row.table = "user" => k.row.name = db[k.id].name
  /\ k.row.table = "mapping" =>
       \/ Agree(k.row)
       \/ Hung(k.row) /\ Due(k.checks, "signature") /\ k.row.up = k.change.up

SaveOK(k) ==
  k.op = "save" =>
    /\ k.id \in Ids /\ db[k.id].table \in Saved
    /\ k.change.up # None => db[k.id].table = "mapping" /\ k.change.up \in Of("signature")
    /\ db[k.id].table \in {"user", "template"} => k.change.name = None
    /\ Unread(k.checks) \/ ReadOK(k)

\* A row to change otherwise.
TouchOK(k) ==
  /\ k.op = "columns" => k.id \in Ids /\ db[k.id].table # None /\ k.change.on \in BOOLEAN
  /\ k.op = "delete" => k.id \in Ids /\ db[k.id].table \notin {None, "channel"}
  /\ k.op = "delete_channel" => k.id \in Of("channel")

RequestOK(k) ==
  /\ k.pc = "check" =>
       /\ InsertOK(k) /\ SaveOK(k)
       /\ Due(k.checks, "itself") => k.op \in {"save", "columns", "delete"}
  /\ k.pc \in {"check", "commit"} => TouchOK(k)
  /\ k.pc = "commit" => k.op = "delete_channel"

RequestsOK == \A x \in Callers : RequestOK(req[x])

Active(x) == req[x].op \notin {None, "evaluate"}

\* No row is there twice, no binding is of a deleted channel.
TidyOK ==
  /\ \A i \in Ids : \A j \in Ids \ {i} :
       /\ db[i].table \in Single /\ db[j].table = db[i].table /\ Live(i) /\ Live(j)
       => Key(db[i]) # Key(db[j])
  /\ \A b \in Of("binding") : Live(b) => Live(db[b].channel)

\* What the checks of the only request have shown is still so.
StillOK(k) ==
  /\ k.pc = "check" /\ k.op = "insert" =>
       /\ k.row.table = "binding" => Live(k.row.channel) \/ Due(k.checks, "channel")
       /\ k.row.table \in Single => NotTwice(k.row, None) \/ Due(k.checks, "duplicate")
  /\ k.pc = "check" /\ k.op = "save" =>
       \/ /\ Unread(k.checks) /\ ~Due(Tail(k.checks), "itself")
          /\ db[k.id].table = "signature" => Due(k.checks, "duplicate")
       \/ /\ ~Due(k.checks, "itself") /\ Live(k.id)
          /\ k.row.table \in Single =>
               \/ Key(k.row) = Key(db[k.id])
               \/ NotTwice(k.row, k.id)
               \/ Due(k.checks, "duplicate")
  /\ k.pc = "commit" => BindingsOf(k.id) = {}

AloneOK ==
  ~overlapped =>
    /\ \A x, y \in Callers : Active(x) /\ Active(y) => x = y
    /\ TidyOK
    /\ \A x \in Callers : StillOK(req[x])

\* The mutex is held by who refreshes. A list of the cache is older than the last
\* change its replica made to the rules only while somebody is going to read it.
LockOK ==
  \A x \in Callers : req[x].pc \in {"read", "keep"} <=> lock[Home[x]] = x

Refreshes(x, s) ==
  \/ req[x].pc = "lock"
  \/ /\ req[x].pc \in {"read", "keep"}
     /\ \E n \in 1 .. Len(req[x].scenes) : req[x].scenes[n] = s

FreshOK ==
  /\ \A h \in Replicas : wrote[h] <= writes
  /\ \A h \in Replicas : \A s \in Scenes :
       \/ cache[h][s].at >= wrote[h]
       \/ h \in missed
       \/ \E x \in Callers : Home[x] = h /\ Refreshes(x, s)
  /\ \A y \in Callers : req[y].pc = "keep" =>
       \/ req[y].read >= wrote[Home[y]]
       \/ \E x \in Callers : Home[x] = Home[y] /\ req[x].pc = "lock"

DataInv == TypeInv /\ RowsOK /\ UsersOK /\ RequestsOK

-----------------------------------------------------------------------------
(* How requests begin                                                        *)

\* A new row of a table.
LEMMA NewRow ==
  ASSUME NEW table \in Tables
  PROVE  /\ New(table) \in Rows /\ New(table).table = table
         /\ New(table).live /\ New(table).on
         /\ New(table).up = None /\ New(table).name = None
<1>1. Blank \in Rows /\ Blank.up = None /\ Blank.name = None
  BY DEF Blank, Rows
<1> HIDE DEF Blank
<1> QED BY <1>1 DEF New, Rows

\* An update that changes nothing is one of the changes, and so are the others.
LEMMA ChangesAre ==
  /\ Nothing \in Changes
  /\ \A on \in BOOLEAN : [Nothing EXCEPT !.on = on] \in Changes
  /\ \A on \in BOOLEAN : [Nothing EXCEPT !.on = on].on = on
  /\ \A on \in BOOLEAN : [Nothing EXCEPT !.on = on].up = None
  /\ \A on \in BOOLEAN : [Nothing EXCEPT !.on = on].name = None
BY DEF Nothing, Changes

\* A request that creates a row of a table on which nothing depends.
LEMMA BegunPlain ==
  ASSUME NEW row \in Rows, NEW checks \in Seq(Checks),
         row.table \in {"account", "system", "channel", "user", "rule"},
         ~Due(checks, "itself")
  PROVE  Begun("insert", None, row, Nothing, checks)
BY ChangesAre DEF Begun, Ops, Tables, Single

\* The lists of checks.
LEMMA ChecksAre ==
  /\ <<>> \in Seq(Checks) /\ <<"system">> \in Seq(Checks)
  /\ <<"itself">> \in Seq(Checks) /\ Unread(<<"itself">>)
  /\ ~Due(Tail(<<"itself">>), "itself")
  /\ <<"duplicate">> \in Seq(Checks)
  /\ ~Due(<<>>, "itself") /\ ~Due(<<"system">>, "itself") /\ ~Due(<<"duplicate">>, "itself")
  /\ <<"account", "duplicate">> \in Seq(Checks)
  /\ <<"sms_account", "duplicate">> \in Seq(Checks)
  /\ Due(<<"account", "duplicate">>, "duplicate")
  /\ ~Due(<<"account", "duplicate">>, "itself")
  /\ Due(<<"sms_account", "duplicate">>, "duplicate")
  /\ ~Due(<<"sms_account", "duplicate">>, "itself")
<1>1. /\ <<>> \in Seq(Checks) /\ <<"system">> \in Seq(Checks)
      /\ <<"itself">> \in Seq(Checks) /\ Unread(<<"itself">>)
      /\ <<"duplicate">> \in Seq(Checks)
  BY DEF Unread, Checks
<1>2. ~Due(<<>>, "itself") /\ Tail(<<"itself">>) = <<>>
  BY DEF Due
<1>3. \A s : s = <<"system">> \/ s = <<"duplicate">> => ~Due(s, "itself")
  BY DEF Due
<1>4. \A s : s = <<"account", "duplicate">> =>
        s \in Seq(Checks) /\ Due(s, "duplicate") /\ ~Due(s, "itself")
  BY DEF Due, Checks
<1>5. \A s : s = <<"sms_account", "duplicate">> =>
        s \in Seq(Checks) /\ Due(s, "duplicate") /\ ~Due(s, "itself")
  BY DEF Due, Checks
<1> QED BY <1>1, <1>2, <1>3, <1>4, <1>5

\* Requests that create something.
LEMMA BeginsCreate ==
  ASSUME NEW x \in Callers, db \in [Ids -> Rows],
         \/ CreateChannel(x) \/ CreateChannelBinding(x) \/ CreateChannelSignatureMapping(x)
         \/ CreateProviderAccount(x) \/ CreateProviderTemplate(x) \/ CreateSignature(x)
         \/ CreateMessageTemplate(x) \/ CreateUser(x) \/ CreateFailureRule(x)
  PROVE  \E op, id, row, change, checks :
           Start(x, op, id, row, change, checks) /\ Begun(op, id, row, change, checks)
<1>1. \A table \in Tables : \A i \in Of(table) : i \in Ids /\ db[i].table = table
  BY DEF Of
<1>2. CASE CreateChannel(x)
  <2>1. PICK s \in Of("system"), type \in Types :
          Start(x, "insert", None, [New("channel") EXCEPT !.type = type, !.up = s], Nothing,
                <<"system">>)
    BY <1>2 DEF CreateChannel, Create
  <2>2. PICK r \in Rows : r = New("channel") /\ r.table = "channel"
    BY NewRow DEF Tables
  <2>3. s \in Ids
    BY <1>1, NewRow DEF Tables
  <2>4. PICK row : row = [r EXCEPT !.type = type, !.up = s]
    OBVIOUS
  <2>5. row \in Rows /\ row.table = "channel"
    BY <2>2, <2>3, <2>4 DEF Rows
  <2> QED BY <2>1, <2>2, <2>4, <2>5, BegunPlain, ChecksAre
<1>3. CASE CreateProviderAccount(x) \/ CreateMessageTemplate(x) \/ CreateFailureRule(x)
  <2>1. PICK table \in {"account", "system", "rule"}, t \in Types \cup Scenes :
          Start(x, "insert", None, [New(table) EXCEPT !.type = t], Nothing, <<>>)
    BY <1>3 DEF CreateProviderAccount, CreateMessageTemplate, CreateFailureRule, Create
  <2>2. PICK r \in Rows : r = New(table) /\ r.table = table
    BY NewRow DEF Tables
  <2>3. PICK row : row = [r EXCEPT !.type = t]
    OBVIOUS
  <2>4. row \in Rows /\ row.table = table
    BY <2>2, <2>3 DEF Rows
  <2> QED BY <2>1, <2>2, <2>3, <2>4, BegunPlain, ChecksAre
<1>4. CASE CreateUser(x)
  <2>1. PICK n \in Names :
          Start(x, "insert", None, [New("user") EXCEPT !.name = n], Nothing, <<"duplicate">>)
    BY <1>4 DEF CreateUser, Create
  <2>2. PICK r \in Rows : r = New("user") /\ r.table = "user"
    BY NewRow DEF Tables
  <2>3. PICK row : row = [r EXCEPT !.name = n]
    OBVIOUS
  <2>4. row \in Rows /\ row.table = "user"
    BY <2>2, <2>3 DEF Rows
  <2> QED BY <2>1, <2>2, <2>3, <2>4, BegunPlain, ChecksAre
<1>5. CASE CreateProviderTemplate(x) \/ CreateSignature(x)
  <2>1. PICK table \in {"template", "signature"}, a \in Of("account"), n \in Names,
             checks \in {<<"account", "duplicate">>, <<"sms_account", "duplicate">>} :
          Start(x, "insert", None, [New(table) EXCEPT !.provider = a, !.name = n], Nothing,
                checks)
    BY <1>5 DEF CreateProviderTemplate, CreateSignature, Create
  <2>2. PICK r \in Rows : r = New(table) /\ r.table = table
    BY NewRow DEF Tables
  <2>3. a \in Ids
    BY <1>1, NewRow DEF Tables
  <2>4. PICK row : row = [r EXCEPT !.provider = a, !.name = n]
    OBVIOUS
  <2>5. row \in Rows /\ row.table = table
    BY <2>2, <2>3, <2>4 DEF Rows
  <2>6. checks \in Seq(Checks) /\ Due(checks, "duplicate") /\ ~Due(checks, "itself")
    BY ChecksAre, <2>1
  <2>7. Begun("insert", None, row, Nothing, checks)
    BY <2>5, <2>6, ChangesAre DEF Begun, Ops, Tables
  <2> QED BY <2>1, <2>2, <2>4, <2>7
<1>6. CASE CreateChannelBinding(x)
  <2>1. PICK c \in Of("channel"), t \in Of("template"), a \in Of("account") :
          Start(x, "insert", None,
                [New("binding") EXCEPT !.channel = c, !.up = t, !.provider = a], Nothing,
                <<"channel", "template", "duplicate">>)
    BY <1>6 DEF CreateChannelBinding, Create
  <2>2. PICK r \in Rows : r = New("binding") /\ r.table = "binding"
    BY NewRow DEF Tables
  <2>3. c \in Ids /\ t \in Ids /\ a \in Ids /\ db[t].table = "template"
    BY <1>1, NewRow DEF Tables
  <2>4. PICK row : row = [r EXCEPT !.channel = c, !.up = t, !.provider = a]
    OBVIOUS
  <2>5. /\ row \in Rows /\ row.table = "binding"
        /\ row.channel = c /\ row.up = t /\ row.provider = a
    BY <2>2, <2>3, <2>4 DEF Rows
  <2>6. PICK checks : checks = <<"channel", "template", "duplicate">>
    OBVIOUS
  <2>7. /\ checks \in Seq(Checks) /\ Due(checks, "channel") /\ Due(checks, "template")
        /\ Due(checks, "duplicate") /\ ~Due(checks, "itself")
    BY <2>6 DEF Due, Checks
  <2>8. Begun("insert", None, row, Nothing, checks)
    BY <2>3, <2>5, <2>7, ChangesAre DEF Begun, Ops, Tables, Hung, Upper
  <2> QED BY <2>1, <2>2, <2>4, <2>6, <2>8
<1>7. CASE CreateChannelSignatureMapping(x)
  <2>1. PICK c \in Of("channel"), s \in Of("signature"), a \in Of("account"), n \in Names :
          Start(x, "insert", None,
                [New("mapping") EXCEPT !.channel = c, !.up = s, !.provider = a, !.name = n],
                Nothing, <<"channel", "signature", "duplicate">>)
    BY <1>7 DEF CreateChannelSignatureMapping, Create
  <2>2. PICK r \in Rows : r = New("mapping") /\ r.table = "mapping"
    BY NewRow DEF Tables
  <2>3. c \in Ids /\ s \in Ids /\ a \in Ids /\ db[s].table = "signature"
    BY <1>1, NewRow DEF Tables
  <2>4. PICK row : row = [r EXCEPT !.channel = c, !.up = s, !.provider = a, !.name = n]
    OBVIOUS
  <2>5. /\ row \in Rows /\ row.table = "mapping"
        /\ row.channel = c /\ row.up = s /\ row.provider = a
    BY <2>2, <2>3, <2>4 DEF Rows
  <2>6. PICK checks : checks = <<"channel", "signature", "duplicate">>
    OBVIOUS
  <2>7. /\ checks \in Seq(Checks) /\ Due(checks, "signature") /\ Due(checks, "duplicate")
        /\ ~Due(checks, "itself")
    BY <2>6 DEF Due, Checks
  <2>8. Begun("insert", None, row, Nothing, checks)
    BY <2>3, <2>5, <2>7, ChangesAre DEF Begun, Ops, Tables, Hung, Upper
  <2> QED BY <2>1, <2>2, <2>4, <2>6, <2>8
<1> QED BY <1>2, <1>3, <1>4, <1>5, <1>6, <1>7

\* Requests that change something.
LEMMA BeginsUpdate ==
  ASSUME NEW x \in Callers, db \in [Ids -> Rows],
         \/ UpdateChannel(x) \/ UpdateChannelBinding(x) \/ UpdateChannelSignatureMapping(x)
         \/ UpdateProviderAccount(x) \/ UpdateProviderTemplate(x) \/ UpdateSignature(x)
         \/ UpdateMessageTemplate(x) \/ UpdateUser(x) \/ UpdateFailureRule(x)
  PROVE  \E op, id, row, change, checks :
           Start(x, op, id, row, change, checks) /\ Begun(op, id, row, change, checks)
<1>1. /\ \A table \in Tables : \A i \in Of(table) : i \in Ids /\ db[i].table = table
      /\ Blank \in Rows /\ None \notin Tables
  BY NamesAssumption DEF Of, Blank, Rows
<1>2. CASE UpdateChannel(x) \/ UpdateChannelBinding(x) \/ UpdateProviderAccount(x)
  <2>1. PICK table \in {"channel", "binding", "account"}, checks \in {<<>>, <<"itself">>} :
          \E id \in Of(table), on \in BOOLEAN :
            Start(x, "columns", id, Blank, [Nothing EXCEPT !.on = on], checks)
    BY <1>2 DEF UpdateChannel, UpdateChannelBinding, UpdateProviderAccount, Update
  <2>2. PICK id \in Of(table), on \in BOOLEAN :
          Start(x, "columns", id, Blank, [Nothing EXCEPT !.on = on], checks)
    BY <2>1
  <2>3. PICK change \in Changes : change = [Nothing EXCEPT !.on = on] /\ change.on = on
    BY ChangesAre
  <2>4. Begun("columns", id, Blank, change, checks)
    BY <1>1, <2>3, ChecksAre DEF Begun, Ops, Tables
  <2> QED BY <2>2, <2>3, <2>4
<1>3. CASE UpdateProviderTemplate(x) \/ UpdateUser(x)
  <2>1. PICK table \in {"template", "user"} :
          \E id \in Of(table), on \in BOOLEAN :
            Start(x, "save", id, Blank, [Nothing EXCEPT !.on = on], <<"itself">>)
    BY <1>3 DEF UpdateProviderTemplate, UpdateUser, Update
  <2>2. PICK id \in Of(table), on \in BOOLEAN :
          Start(x, "save", id, Blank, [Nothing EXCEPT !.on = on], <<"itself">>)
    BY <2>1
  <2>3. PICK change \in Changes : /\ change = [Nothing EXCEPT !.on = on]
                                  /\ change.up = None /\ change.name = None
    BY ChangesAre
  <2>4. Begun("save", id, Blank, change, <<"itself">>)
    BY <1>1, <2>3, ChecksAre DEF Begun, Ops, Tables, Saved
  <2> QED BY <2>2, <2>3, <2>4
<1>4. CASE UpdateMessageTemplate(x) \/ UpdateFailureRule(x)
  <2>1. PICK table \in {"system", "rule"} : \E id \in Of(table) : \E change \in Changes :
          /\ Start(x, "save", id, Blank, change, <<"itself">>)
          /\ change.up = None /\ change.name = None
    <3>1. Nothing \in Changes /\ Nothing.up = None /\ Nothing.name = None
      BY ChangesAre DEF Nothing
    <3>2. \A type \in Types : /\ [Nothing EXCEPT !.type = type] \in Changes
                              /\ [Nothing EXCEPT !.type = type].up = None
                              /\ [Nothing EXCEPT !.type = type].name = None
      BY <3>1 DEF Changes
    <3>3. \A s \in Scenes \cup {None}, on \in BOOLEAN \cup {None} :
            /\ [Nothing EXCEPT !.type = s, !.on = on] \in Changes
            /\ [Nothing EXCEPT !.type = s, !.on = on].up = None
            /\ [Nothing EXCEPT !.type = s, !.on = on].name = None
      BY <3>1 DEF Changes
    <3>4. CASE UpdateMessageTemplate(x)
      BY <3>2, <3>4 DEF UpdateMessageTemplate, Update
    <3>5. CASE UpdateFailureRule(x)
      BY <3>3, <3>5 DEF UpdateFailureRule, Update
    <3> QED BY <1>4, <3>4, <3>5
  <2>2. PICK id \in Of(table), change \in Changes :
          /\ Start(x, "save", id, Blank, change, <<"itself">>)
          /\ change.up = None /\ change.name = None
    BY <2>1
  <2>3. Begun("save", id, Blank, change, <<"itself">>)
    BY <1>1, <2>2, ChecksAre DEF Begun, Ops, Tables, Saved
  <2> QED BY <2>2, <2>3
<1>5. CASE UpdateSignature(x)
  <2>1. PICK id \in Of("signature"), n \in Names, on \in BOOLEAN :
          Start(x, "save", id, Blank, [Nothing EXCEPT !.name = n, !.on = on],
                <<"itself", "duplicate">>)
    BY <1>5 DEF UpdateSignature, Update
  <2>2. Nothing \in Changes /\ Nothing.up = None
    BY ChangesAre DEF Nothing
  <2>3. PICK change, checks : /\ change = [Nothing EXCEPT !.name = n, !.on = on]
                              /\ checks = <<"itself", "duplicate">>
    OBVIOUS
  <2>4. change \in Changes /\ change.up = None
    BY <2>2, <2>3 DEF Changes
  <2>5. /\ checks \in Seq(Checks) /\ Unread(checks) /\ Due(checks, "duplicate")
        /\ ~Due(Tail(checks), "itself")
    BY <2>3 DEF Due, Unread, Checks
  <2>6. Begun("save", id, Blank, change, checks)
    BY <1>1, <2>4, <2>5 DEF Begun, Ops, Tables, Saved
  <2> QED BY <2>1, <2>3, <2>6
<1>6. CASE UpdateChannelSignatureMapping(x)
  <2>1. PICK id \in Of("mapping"), s \in Of("signature") \cup {None}, n \in Names \cup {None},
             on \in {FALSE, None} :
          Start(x, "save", id, Blank, [Nothing EXCEPT !.up = s, !.name = n, !.on = on],
                <<"itself">>)
    BY <1>6 DEF UpdateChannelSignatureMapping, Update
  <2>2. Nothing \in Changes /\ s \in Ids \cup {None}
    BY ChangesAre DEF Of
  <2>3. PICK change : change = [Nothing EXCEPT !.up = s, !.name = n, !.on = on]
    OBVIOUS
  <2>4. change \in Changes /\ change.up = s
    BY <2>2, <2>3 DEF Changes
  <2>5. Begun("save", id, Blank, change, <<"itself">>)
    BY <1>1, <2>4, ChecksAre DEF Begun, Ops, Tables, Saved
  <2> QED BY <2>1, <2>3, <2>5
<1> QED BY <1>2, <1>3, <1>4, <1>5, <1>6

\* Any request.
LEMMA Begins ==
  ASSUME NEW x \in Callers, db \in [Ids -> Rows], Channels(x) \/ Accounts(x) \/ Others(x)
  PROVE  \E op, id, row, change, checks :
           Start(x, op, id, row, change, checks) /\ Begun(op, id, row, change, checks)
<1>1. /\ \A table \in Tables : \A i \in Of(table) : i \in Ids /\ db[i].table = table
      /\ Blank \in Rows /\ None \notin Tables
  BY NamesAssumption DEF Of, Blank, Rows
<1>2. ASSUME \/ DeleteChannelBinding(x) \/ DeleteChannelSignatureMapping(x)
             \/ DeleteProviderAccount(x) \/ DeleteProviderTemplate(x) \/ DeleteSignature(x)
             \/ DeleteMessageTemplate(x) \/ DeleteUser(x) \/ DeleteFailureRule(x)
      PROVE  \E op, id, row, change, checks :
               Start(x, op, id, row, change, checks) /\ Begun(op, id, row, change, checks)
  <2>1. PICK table \in Tables \ {"channel"}, checks \in {<<>>, <<"itself">>} :
          \E id \in Of(table) : Start(x, "delete", id, Blank, Nothing, checks)
    BY <1>2 DEF DeleteChannelBinding, DeleteChannelSignatureMapping, DeleteProviderAccount,
       DeleteProviderTemplate, DeleteSignature, DeleteMessageTemplate, DeleteUser,
       DeleteFailureRule, Delete, Tables
  <2>2. PICK id \in Of(table) : Start(x, "delete", id, Blank, Nothing, checks)
    BY <2>1
  <2>3. id \in Ids /\ db[id].table \notin {None, "channel"} /\ checks \in Seq(Checks)
    BY <1>1, ChecksAre
  <2>4. Begun("delete", id, Blank, Nothing, checks)
    BY <1>1, <2>3, ChangesAre DEF Begun, Ops
  <2> QED BY <2>2, <2>4
<1>3. ASSUME DeleteChannel(x)
      PROVE  \E op, id, row, change, checks :
               Start(x, op, id, row, change, checks) /\ Begun(op, id, row, change, checks)
  <2>1. PICK id \in Of("channel") : Start(x, "delete_channel", id, Blank, Nothing, <<>>)
    BY <1>3 DEF DeleteChannel
  <2>2. Begun("delete_channel", id, Blank, Nothing, <<>>)
    BY <1>1, ChecksAre, ChangesAre DEF Begun, Ops, Tables
  <2> QED BY <2>1, <2>2
<1>4. ASSUME RefreshRuleCache(x)
      PROVE  \E op, id, row, change, checks :
               Start(x, op, id, row, change, checks) /\ Begun(op, id, row, change, checks)
  <2>1. Begun("refresh", None, Blank, Nothing, <<>>)
    BY <1>1, ChecksAre, ChangesAre DEF Begun, Ops
  <2> QED BY <1>4, <2>1 DEF RefreshRuleCache
<1>5. ASSUME Evaluate(x)
      PROVE  \E op, id, row, change, checks :
               Start(x, op, id, row, change, checks) /\ Begun(op, id, row, change, checks)
  <2>1. PICK s \in Scenes :
          Start(x, "evaluate", None, [Blank EXCEPT !.type = s], Nothing, <<>>)
    BY <1>5 DEF Evaluate
  <2>2. PICK row : row = [Blank EXCEPT !.type = s]
    OBVIOUS
  <2>3. row \in Rows
    <3> HIDE DEF Blank
    <3> QED BY <1>1, <2>2 DEF Rows
  <2>4. Begun("evaluate", None, row, Nothing, <<>>)
    BY <2>3, ChecksAre, ChangesAre DEF Begun, Ops
  <2> QED BY <2>1, <2>2, <2>4
<1> QED BY <1>2, <1>3, <1>4, <1>5, BeginsCreate, BeginsUpdate DEF Channels, Accounts, Others

-----------------------------------------------------------------------------
(* The types                                                                 *)

\* What is left of a list of checks.
LEMMA Rest ==
  ASSUME NEW checks \in Seq(Checks), checks # <<>>
  PROVE  /\ Head(checks) \in Checks /\ Tail(checks) \in Seq(Checks)
         /\ \A c \in Checks : Due(checks, c) /\ Head(checks) # c => Due(Tail(checks), c)
         /\ \A c \in Checks : Due(Tail(checks), c) => Due(checks, c)
         /\ Due(checks, Head(checks))
<1>1. Head(checks) \in Checks /\ Tail(checks) \in Seq(Checks)
  OBVIOUS
<1>2. ASSUME NEW c \in Checks, Due(checks, c), Head(checks) # c
      PROVE  Due(Tail(checks), c)
  <2>1. PICK n \in 1 .. Len(checks) : checks[n] = c
    BY <1>2 DEF Due
  <2>2. n # 1
    BY <1>2, <2>1
  <2>3. n - 1 \in 1 .. Len(Tail(checks)) /\ Tail(checks)[n - 1] = c
    BY <2>1, <2>2
  <2> QED BY <2>3 DEF Due
<1>3. ASSUME NEW c \in Checks, Due(Tail(checks), c)
      PROVE  Due(checks, c)
  <2>1. PICK n \in 1 .. Len(Tail(checks)) : Tail(checks)[n] = c
    BY <1>3 DEF Due
  <2>2. n + 1 \in 1 .. Len(checks) /\ checks[n + 1] = c
    BY <2>1
  <2> QED BY <2>2 DEF Due
<1>4. Due(checks, Head(checks))
  <2>1. 1 \in 1 .. Len(checks) /\ checks[1] = Head(checks)
    OBVIOUS
  <2> QED BY <2>1 DEF Due
<1> QED BY <1>1, <1>2, <1>3, <1>4

\* What is put behind what is left.
LEMMA Behind ==
  ASSUME NEW s \in Seq(Checks), NEW t \in Seq(Checks)
  PROVE  /\ s \o t \in Seq(Checks)
         /\ \A c \in Checks : Due(s, c) \/ Due(t, c) <=> Due(s \o t, c)
<1>1. s \o t \in Seq(Checks) /\ Len(s \o t) = Len(s) + Len(t)
  OBVIOUS
<1>2. ASSUME NEW c \in Checks, Due(s, c)
      PROVE  Due(s \o t, c)
  <2>1. PICK n \in 1 .. Len(s) : s[n] = c
    BY <1>2 DEF Due
  <2>2. n \in 1 .. Len(s \o t) /\ (s \o t)[n] = c
    BY <1>1, <2>1
  <2> QED BY <2>2 DEF Due
<1>3. ASSUME NEW c \in Checks, Due(t, c)
      PROVE  Due(s \o t, c)
  <2>1. PICK n \in 1 .. Len(t) : t[n] = c
    BY <1>3 DEF Due
  <2>2. n + Len(s) \in 1 .. Len(s \o t) /\ (s \o t)[n + Len(s)] = c
    BY <1>1, <2>1
  <2> QED BY <2>2 DEF Due
<1>4. ASSUME NEW c \in Checks, Due(s \o t, c)
      PROVE  Due(s, c) \/ Due(t, c)
  <2>1. PICK n \in 1 .. Len(s \o t) : (s \o t)[n] = c
    BY <1>4 DEF Due
  <2>2. CASE n <= Len(s)
    <3>1. n \in 1 .. Len(s) /\ s[n] = c
      BY <2>1, <2>2
    <3> QED BY <3>1 DEF Due
  <2>3. CASE n > Len(s)
    <3>1. n - Len(s) \in 1 .. Len(t) /\ t[n - Len(s)] = c
      BY <1>1, <2>1, <2>3
    <3> QED BY <3>1 DEF Due
  <2> QED BY <2>1, <2>2, <2>3
<1> QED BY <1>1, <1>2, <1>3, <1>4

\* The row a save writes: what the change names, the rest as it was read.
LEMMA MergedIs ==
  ASSUME NEW old \in Rows, NEW change \in Changes, db \in [Ids -> Rows]
  PROVE  \E row \in Rows :
           /\ row = Merged(old, change)
           /\ row.table = old.table /\ row.live = old.live /\ row.channel = old.channel
           /\ row.provider = old.provider
           /\ row.name = Changed(old.name, change.name)
           /\ row.up \in {old.up, change.up}
           /\ change.up = None => row.up = old.up
<1>1. PICK t, n, o, u :
        /\ t = Changed(old.type, change.type) /\ n = Changed(old.name, change.name)
        /\ o = Changed(old.on, change.on)
        /\ u = IF old.up # None /\ Live(old.up) THEN old.up ELSE Changed(old.up, change.up)
  OBVIOUS
<1>2. /\ t \in Types \cup Scenes \cup {None} /\ n \in Names \cup {None} /\ o \in BOOLEAN
      /\ u \in Ids \cup {None} /\ u \in {old.up, change.up}
      /\ change.up = None => u = old.up
  <2>1. old.on \in BOOLEAN /\ change.on \in BOOLEAN \cup {None}
    BY DEF Rows, Changes
  <2>2. o \in BOOLEAN
    BY <1>1, <2>1 DEF Changed
  <2> QED BY <1>1, <2>2 DEF Changed, Rows, Changes
<1>3. PICK row : row = [old EXCEPT !.type = t, !.name = n, !.on = o, !.up = u]
  OBVIOUS
<1>4. row = Merged(old, change)
  BY <1>1, <1>3 DEF Merged, Rows
<1>5. row \in Rows
  BY <1>2, <1>3 DEF Rows
<1>6. /\ row.table = old.table /\ row.live = old.live /\ row.channel = old.channel
      /\ row.provider = old.provider /\ row.name = n /\ row.up = u
  BY <1>3 DEF Rows
<1> QED BY <1>1, <1>2, <1>4, <1>5, <1>6

\* The further checks of an update.
LEMMA FurtherIs ==
  ASSUME NEW old, NEW change
  PROVE  /\ Further(old, change) \in Seq(Checks)
         /\ old.table = "mapping" /\ change.name \notin {None, old.name} =>
              Due(Further(old, change), "duplicate")
         /\ change.up \notin {None, old.up} => Due(Further(old, change), "signature")
         /\ ~Due(Further(old, change), "itself")
<1>1. PICK s, t :
        /\ s = IF old.table = "mapping" /\ change.name \notin {None, old.name}
               THEN <<"duplicate">> ELSE <<>>
        /\ t = IF change.up \notin {None, old.up} THEN <<"signature">> ELSE <<>>
  OBVIOUS
<1>2. Further(old, change) = s \o t
  BY <1>1 DEF Further
<1>3. \A q : q = <<"duplicate">> =>
        q \in Seq(Checks) /\ Due(q, "duplicate") /\ ~Due(q, "itself")
  BY DEF Due, Checks
<1>4. \A q : q = <<"signature">> =>
        q \in Seq(Checks) /\ Due(q, "signature") /\ ~Due(q, "itself")
  BY DEF Due, Checks
<1>5. s \in Seq(Checks) /\ t \in Seq(Checks) /\ ~Due(s, "itself") /\ ~Due(t, "itself")
  BY <1>1, <1>3, <1>4, ChecksAre
<1>6. /\ s \o t \in Seq(Checks)
      /\ Due(s, "duplicate") => Due(s \o t, "duplicate")
      /\ Due(t, "signature") => Due(s \o t, "signature")
      /\ ~Due(s \o t, "itself")
  BY <1>5, Behind DEF Checks
<1> QED BY <1>1, <1>2, <1>3, <1>4, <1>6

LEMMA IdleOK == Idle \in Requests /\ Idle.pc = "idle" /\ Idle.op = None
<1>1. Blank \in Rows /\ Nothing \in Changes
  BY ChangesAre DEF Blank, Rows
<1> HIDE DEF Blank, Nothing
<1> QED BY <1>1 DEF Idle, Requests

LEMMA InitTypes == Init => TypeInv
<1> SUFFICES ASSUME Init PROVE TypeInv
  OBVIOUS
<1>1. Blank \in Rows
  BY DEF Blank, Rows
<1>2. db \in [Ids -> Rows]
  BY <1>1, SeedAssumption DEF Init
<1>3. req \in [Callers -> Requests] /\ \A x \in Callers : Working(req[x])
  BY IdleOK DEF Init, Working
<1>4. cache \in [Replicas -> [Scenes -> [rules : SUBSET Ids, at : Nat]]]
  BY DEF Init
<1>5. lock \in [Replicas -> Callers \cup {None}] /\ wrote \in [Replicas -> Nat]
  BY DEF Init
<1> QED BY <1>2, <1>3, <1>4, <1>5 DEF Init, TypeInv

-----------------------------------------------------------------------------
(* What a step does to the rows                                              *)

\* Rows change in place; none comes back.
Slight ==
  /\ db' \in [Ids -> Rows]
  /\ \A i \in Ids :
       /\ db'[i].table = db[i].table /\ db'[i].type = db[i].type /\ db'[i].up = db[i].up
       /\ db'[i].channel = db[i].channel /\ db'[i].provider = db[i].provider
       /\ db'[i].name = db[i].name
       /\ db'[i].live => db[i].live

\* Or one row is written: a new one, or one that was read before.
Written(x, i) ==
  /\ db' = [db EXCEPT ![i] = req[x].row]
  /\ \/ Ready(x, "insert") /\ db[i].table = None /\ ~Taken(req[x].row)
     \/ Ready(x, "save") /\ i = req[x].id

\* A row keeps its table and its place in it, a user the name, an account and a
\* channel the type, and neither comes back.
Kept ==
  \A i \in Ids : db[i].table # None =>
    /\ db'[i].table = db[i].table /\ db'[i].provider = db[i].provider
    /\ db'[i].channel = db[i].channel
    /\ db[i].table = "user" => db'[i].name = db[i].name
    /\ db[i].table \in {"account", "channel"} =>
         db'[i].type = db[i].type /\ (db'[i].live => db[i].live)

\* A row that is not used yet is found.
LEMMA NewIdIs ==
  ASSUME Of(None) # {}
  PROVE  NewId \in Ids /\ db[NewId].table = None
<1> DEFINE R == {p \in Nat \X Nat : p[1] < p[2]}
<1>1. Of(None) \subseteq Nat
  BY NamesAssumption DEF Of
<1>2. IsWellFoundedOn(R, Nat)
  BY NatLessThanWellFounded DEF OpToRel
<1>3. PICK i \in Of(None) : \A j \in Of(None) : ~(<<j, i>> \in R)
  <2> HIDE DEF R
  <2> QED BY <1>1, <1>2, WFMin
<1>4. ASSUME NEW j \in Of(None)
      PROVE  i <= j
  <2>1. i \in Nat /\ j \in Nat
    BY <1>1
  <2>2. ~(j < i)
    BY <1>3, <2>1
  <2> QED BY <2>1, <2>2
<1>5. NewId \in Of(None)
  BY <1>4 DEF NewId
<1> QED BY <1>5 DEF Of

\* The rows of a set are deleted.
LEMMA WithoutIsSlight ==
  ASSUME db \in [Ids -> Rows], NEW S, db' = Without(S)
  PROVE  Slight
<1>1. \A r \in Rows : /\ [r EXCEPT !.live = FALSE] \in Rows
                      /\ [r EXCEPT !.live = FALSE].table = r.table
                      /\ [r EXCEPT !.live = FALSE].type = r.type
                      /\ [r EXCEPT !.live = FALSE].up = r.up
                      /\ [r EXCEPT !.live = FALSE].channel = r.channel
                      /\ [r EXCEPT !.live = FALSE].provider = r.provider
                      /\ [r EXCEPT !.live = FALSE].name = r.name
                      /\ ~[r EXCEPT !.live = FALSE].live
  BY DEF Rows
<1>2. \A i \in Ids : db'[i] = IF i \in S THEN [db[i] EXCEPT !.live = FALSE] ELSE db[i]
  BY DEF Without
<1>3. db' \in [Ids -> Rows]
  <2>1. db' = [i \in Ids |-> IF i \in S THEN [db[i] EXCEPT !.live = FALSE] ELSE db[i]]
    BY DEF Without
  <2>2. \A i \in Ids : (IF i \in S THEN [db[i] EXCEPT !.live = FALSE] ELSE db[i]) \in Rows
    BY <1>1
  <2> QED BY <2>1, <2>2
<1>4. ASSUME NEW i \in Ids
      PROVE  /\ db'[i].table = db[i].table /\ db'[i].type = db[i].type
             /\ db'[i].up = db[i].up /\ db'[i].channel = db[i].channel
             /\ db'[i].provider = db[i].provider /\ db'[i].name = db[i].name
             /\ db'[i].live => db[i].live
  <2>1. db[i] \in Rows
    BY <1>4
  <2>2. CASE i \in S
    BY <1>1, <1>2, <2>1, <2>2
  <2>3. CASE i \notin S
    BY <1>2, <2>3
  <2> QED BY <2>2, <2>3
<1> QED BY <1>3, <1>4 DEF Slight

\* The state of a row is changed.
LEMMA ColumnsAreSlight ==
  ASSUME db \in [Ids -> Rows], NEW c \in Ids, NEW change, change.on \in BOOLEAN,
         db' = Columns(c, change)
  PROVE  Slight
<1>1. PICK row : row = [db[c] EXCEPT !.on = change.on]
  OBVIOUS
<1>2. /\ row \in Rows /\ row.table = db[c].table /\ row.type = db[c].type
      /\ row.up = db[c].up /\ row.channel = db[c].channel /\ row.provider = db[c].provider
      /\ row.name = db[c].name /\ row.live = db[c].live
  <2>1. db[c] \in Rows
    OBVIOUS
  <2> QED BY <1>1, <2>1 DEF Rows
<1>3. CASE Live(c)
  <2>1. db' = [db EXCEPT ![c] = row]
    BY <1>1, <1>3 DEF Columns
  <2> QED BY <1>2, <2>1 DEF Slight
<1>4. CASE ~Live(c)
  <2>1. db' = db
    BY <1>4 DEF Columns
  <2> QED BY <2>1 DEF Slight
<1> QED BY <1>3, <1>4

LEMMA SameIsSlight ==
  ASSUME db \in [Ids -> Rows], db' = db
  PROVE  Slight
BY DEF Slight

\* A step changes rows in place, or writes one.
LEMMA RowSteps ==
  ASSUME TypeInv, RequestsOK, [Next]_vars
  PROVE  Slight \/ \E x \in Callers, i \in Ids : Written(x, i)
<1>1. db \in [Ids -> Rows] /\ req \in [Callers -> Requests]
  BY DEF TypeInv
<1>2. CASE UNCHANGED vars
  BY <1>1, <1>2, SameIsSlight DEF vars
<1>3. ASSUME NEW x \in Callers, Channels(x) \/ Accounts(x) \/ Others(x)
      PROVE  Slight
  BY <1>1, <1>3, Begins, SameIsSlight DEF Start
<1>4. ASSUME NEW x \in Callers, Statement(x)
      PROVE  Slight \/ \E i \in Ids : Written(x, i)
  <2>1. CASE \/ Check(x) \/ ReadItself(x) \/ Refresh(x) \/ Look(x) \/ Decide(x) \/ Lock(x)
             \/ ReadRules(x) \/ KeepRules(x)
    BY <1>1, <2>1, SameIsSlight
       DEF Check, ReadItself, Refresh, Look, Decide, Lock, ReadRules, KeepRules
  <2>2. CASE Insert(x)
    <3>1. CASE db' = db
      BY <1>1, <3>1, SameIsSlight
    <3>2. CASE db' # db
      <4>1. /\ Ready(x, "insert") /\ Of(None) # {} /\ ~Taken(req[x].row)
            /\ db' = [db EXCEPT ![NewId] = req[x].row]
        BY <2>2, <3>2 DEF Insert, Fails
      <4> QED BY <4>1, NewIdIs DEF Written
    <3> QED BY <3>1, <3>2
  <2>3. CASE Save(x)
    <3>1. CASE db' = db
      BY <1>1, <3>1, SameIsSlight
    <3>2. CASE db' # db
      <4>1. Ready(x, "save") /\ db' = [db EXCEPT ![req[x].id] = req[x].row]
        BY <2>3, <3>2 DEF Save, Fails
      <4>2. req[x].id \in Ids
        BY <4>1 DEF RequestsOK, RequestOK, SaveOK, Ready
      <4> QED BY <4>1, <4>2 DEF Written
    <3> QED BY <3>1, <3>2
  <2>4. CASE UpdateColumns(x)
    <3>1. CASE db' = db
      BY <1>1, <3>1, SameIsSlight
    <3>2. CASE db' # db
      <4>1. Ready(x, "columns") /\ db' = Columns(req[x].id, req[x].change)
        BY <2>4, <3>2 DEF UpdateColumns, Fails
      <4>2. req[x].id \in Ids /\ req[x].change.on \in BOOLEAN
        BY <4>1 DEF RequestsOK, RequestOK, TouchOK, Ready
      <4> QED BY <1>1, <4>1, <4>2, ColumnsAreSlight
    <3> QED BY <3>1, <3>2
  <2>5. CASE DeleteRow(x) \/ DeleteBindings(x) \/ CommitChannel(x)
    <3>1. db' = db \/ \E S : db' = Without(S)
      BY <2>5 DEF DeleteRow, DeleteBindings, CommitChannel, Fails
    <3> QED BY <1>1, <3>1, SameIsSlight, WithoutIsSlight
  <2> QED BY <1>4, <2>1, <2>2, <2>3, <2>4, <2>5 DEF Statement
<1> QED BY <1>2, <1>3, <1>4 DEF Next

\* What a request is going to write keeps what the row has.
LEMMA StepsKeep ==
  ASSUME TypeInv, RequestsOK, [Next]_vars
  PROVE  db' \in [Ids -> Rows] /\ Kept
<1>1. CASE Slight
  BY <1>1 DEF Slight, Kept
<1>2. ASSUME NEW x \in Callers, NEW i \in Ids, Written(x, i)
      PROVE  db' \in [Ids -> Rows] /\ Kept
  <2>1. /\ db \in [Ids -> Rows] /\ req[x] \in Requests /\ req[x].row \in Rows
        /\ RequestOK(req[x])
    BY DEF TypeInv, RequestsOK, Requests
  <2>2. db' \in [Ids -> Rows] /\ db' = [db EXCEPT ![i] = req[x].row]
    BY <1>2, <2>1 DEF Written
  <2>3. CASE db[i].table = None
    BY <2>1, <2>2, <2>3 DEF Kept
  <2>4. CASE Ready(x, "save") /\ i = req[x].id
    <3>1. db[i].table \in Saved /\ ReadOK(req[x])
      BY <2>1, <2>4 DEF RequestOK, SaveOK, Ready, Unread
    <3>2. /\ req[x].row.table = db[i].table /\ req[x].row.provider = db[i].provider
          /\ req[x].row.channel = db[i].channel
          /\ db[i].table = "user" => req[x].row.name = db[i].name
          /\ db[i].table \notin {"account", "channel"}
      BY <2>4, <3>1 DEF ReadOK, Saved
    <3> QED BY <2>1, <2>2, <3>2 DEF Kept
  <2> QED BY <1>2, <2>3, <2>4 DEF Written
<1> QED BY <1>1, <1>2, RowSteps

\* What a request knows of rows that stay is not forgotten.
LEMMA RequestStays ==
  ASSUME db \in [Ids -> Rows], db' \in [Ids -> Rows], Kept,
         NEW k \in Requests, RequestOK(k)
  PROVE  RequestOK(k)'
<1>1. /\ k.row \in Rows /\ k.change \in Changes /\ k.row.up \in Ids \cup {None}
      /\ None \notin Ids /\ None \notin Tables
  BY NamesAssumption DEF Requests, Rows
<1>2. \A i \in Ids : db[i].table # None =>
        /\ db'[i].table = db[i].table /\ db'[i].provider = db[i].provider
        /\ db'[i].channel = db[i].channel
        /\ db[i].table = "user" => db'[i].name = db[i].name
        /\ db[i].table \in {"account", "channel"} =>
             db'[i].type = db[i].type /\ (db'[i].live => db[i].live)
  BY DEF Kept
<1>3. \A table \in Tables : \A i \in Of(table) : i \in Of(table)'
  BY <1>1, <1>2 DEF Of
<1>4. Hung(k.row) => Hung(k.row)'
  BY <1>1, <1>2 DEF Hung, Tables
<1>5. Agree(k.row) => Agree(k.row)'
  BY <1>1, <1>2, <1>4 DEF Agree, Hung, Tables
<1>6. Bound(k.row) => Bound(k.row)'
  BY <1>3 DEF Bound, Tables
<1>7. Bound(k.row) /\ FitsChannel(k.row) => FitsChannel(k.row)'
  BY <1>1, <1>2 DEF Bound, Of, FitsChannel, Live, Tables
<1>8. InsertOK(k) => InsertOK(k)'
  <2>1. Due(k.checks, Upper(k.row)) => Due(k.checks, Upper(k.row))'
    BY DEF Due, Upper
  <2> QED BY <1>4, <1>5, <1>6, <1>7, <2>1 DEF InsertOK, Due
<1>9. SaveOK(k) => SaveOK(k)'
  <2>1. k.id \in Ids /\ db[k.id].table \in Saved => db'[k.id].table = db[k.id].table
    BY <1>1, <1>2 DEF Saved, Tables
  <2>2. k.id \in Ids /\ db[k.id].table \in Saved /\ ReadOK(k) => ReadOK(k)'
    BY <1>1, <1>2, <1>4, <1>5 DEF ReadOK, Saved, Tables, Due
  <2> QED BY <1>3, <2>1, <2>2 DEF SaveOK, Tables, Unread
<1>10. TouchOK(k) => TouchOK(k)'
  BY <1>1, <1>2, <1>3 DEF TouchOK, Tables
<1> QED BY <1>8, <1>9, <1>10 DEF RequestOK, Due

-----------------------------------------------------------------------------
(* What a step does to a request                                             *)

LEMMA StartIs ==
  ASSUME TypeInv, NEW x \in Callers, Channels(x) \/ Accounts(x) \/ Others(x)
  PROVE  \E k \in Requests :
           /\ Goes(x, k) /\ k.pc = "check"
           /\ k.op \in Ops /\ Begun(k.op, k.id, k.row, k.change, k.checks)
           /\ req[x].pc = "idle" /\ db' = db
           /\ overlapped' = (overlapped \/ \E y \in Callers : Active(y))
           /\ UNCHANGED <<caches, writes, wrote, faults>> /\ requests' = requests + 1
<1>1. PICK op, id, row, change, checks :
        Start(x, op, id, row, change, checks) /\ Begun(op, id, row, change, checks)
  BY Begins DEF TypeInv
<1>2. PICK k : k = [Idle EXCEPT !.pc = "check", !.op = op, !.id = id, !.row = row,
                                !.change = change, !.checks = checks]
  OBVIOUS
<1>3. /\ op \in Ops /\ id \in Ids \cup {None} /\ row \in Rows /\ change \in Changes
      /\ checks \in Seq(Checks)
  BY <1>1 DEF Begun
<1>4. /\ k \in Requests /\ k.pc = "check" /\ k.op = op /\ k.id = id /\ k.row = row
      /\ k.change = change /\ k.checks = checks
  <2> HIDE DEF Idle
  <2> QED BY <1>2, <1>3, IdleOK DEF Requests
<1>5. /\ Goes(x, k) /\ req[x].pc = "idle" /\ UNCHANGED <<db, caches, writes, wrote, faults>>
      /\ overlapped' = (overlapped \/ \E y \in Callers : Active(y))
      /\ requests' = requests + 1
  BY <1>1, <1>2 DEF Start, Goes, Active
<1> QED BY <1>1, <1>3, <1>4, <1>5

\* A request that begins is in order.
LEMMA BegunOK ==
  ASSUME NEW k \in Requests, k.pc = "check",
         Begun(k.op, k.id, k.row, k.change, k.checks)
  PROVE  RequestOK(k)
<1>1. InsertOK(k)
  BY DEF Begun, InsertOK, Bound, Upper
<1>2. SaveOK(k)
  BY DEF Begun, SaveOK
<1>3. TouchOK(k)
  BY DEF Begun, TouchOK
<1>4. Due(k.checks, "itself") => k.op \in {"save", "columns", "delete"}
  BY DEF Begun
<1> QED BY <1>1, <1>2, <1>3, <1>4 DEF RequestOK

\* A check that is passed shows what was still to be shown.
LEMMA CheckIs ==
  ASSUME TypeInv, RequestsOK, NEW x \in Callers, Check(x)
  PROVE  \E k \in Requests :
           /\ Goes(x, k) /\ RequestOK(k) /\ k.pc \in {"idle", "check"}
           /\ k.op \in {None, req[x].op}
           /\ k.pc = "check" =>
                k = [req[x] EXCEPT !.checks = Tail(@)]
<1>1. /\ req[x] \in Requests /\ req[x].pc = "check" /\ RequestOK(req[x])
      /\ req[x].checks \in Seq(Checks) /\ req[x].checks # <<>>
      /\ Head(req[x].checks) # "itself" /\ req[x].row \in Rows
  BY DEF TypeInv, Requests, RequestsOK, Check
<1>2. PICK k : k = [req[x] EXCEPT !.checks = Tail(@)]
  OBVIOUS
<1>3. /\ k \in Requests /\ k.pc = "check" /\ k.op = req[x].op /\ k.id = req[x].id
      /\ k.row = req[x].row /\ k.change = req[x].change /\ k.checks = Tail(req[x].checks)
  <2>1. Tail(req[x].checks) \in Seq(Checks)
    BY <1>1, Rest
  <2> QED BY <1>1, <1>2, <2>1 DEF Requests
<1>4. CASE Done(x)
  BY <1>4, IdleOK DEF Done, Goes, RequestOK
<1>5. ASSUME Goes(x, k), Passes(x, Head(req[x].checks)) \/ req[x].row.table = "user"
      PROVE  RequestOK(k)
  <2>1. /\ \A c \in Checks : Due(req[x].checks, c) /\ Head(req[x].checks) # c => Due(k.checks, c)
        /\ \A c \in Checks : Due(k.checks, c) => Due(req[x].checks, c)
    BY <1>1, <1>3, Rest
  <2>2. Due(k.checks, "itself") => k.op \in {"save", "columns", "delete"}
    BY <1>1, <1>3, <2>1 DEF RequestOK, Checks
  <2>3. ASSUME k.op = "insert"
        PROVE  InsertOK(k)
    <3>1. /\ k.id = None /\ k.change = Nothing /\ k.row.table \in Tables
          /\ k.row.table \in {"binding", "mapping"} =>
               Hung(k.row) /\ (Agree(k.row) \/ Due(req[x].checks, Upper(k.row)))
          /\ k.row.table = "binding" =>
               Bound(k.row) /\ (FitsChannel(k.row) \/ Due(req[x].checks, "template"))
      BY <1>1, <1>3, <2>3 DEF RequestOK, InsertOK
    <3>2. ASSUME k.row.table \in {"binding", "mapping"},
                 Head(req[x].checks) = Upper(k.row)
          PROVE  Agree(k.row)
      <4>1. OfItsProvider(k.row.up, k.row)
        <5>1. Wanted(x) = k.row.up
          BY <1>3, <3>1 DEF Wanted, Nothing
        <5> QED BY <1>3, <1>5, <3>2, <5>1 DEF Passes, Upper
      <4> QED BY <3>1, <3>2, <4>1 DEF OfItsProvider, Agree
    <3>3. k.row.table = "binding" /\ Head(req[x].checks) = "template" => FitsChannel(k.row)
      BY <1>3, <1>5 DEF Passes
    <3>4. Upper(k.row) \in Checks /\ "template" \in Checks
      BY DEF Upper, Checks
    <3> QED BY <2>1, <3>1, <3>2, <3>3, <3>4 DEF InsertOK
  <2>4. ASSUME k.op = "save"
        PROVE  SaveOK(k)
    <3>1. /\ k.id \in Ids /\ db[k.id].table \in Saved
          /\ k.change.up # None => db[k.id].table = "mapping" /\ k.change.up \in Of("signature")
          /\ db[k.id].table \in {"user", "template"} => k.change.name = None
          /\ ReadOK(req[x])
      BY <1>1, <1>3, <2>4 DEF RequestOK, SaveOK, Unread
    <3>2. ASSUME k.row.table = "mapping", Hung(k.row), Head(req[x].checks) = "signature",
                 k.row.up = k.change.up
          PROVE  Agree(k.row)
      <4>1. Wanted(x) = k.row.up
        BY <1>3, <3>2 DEF Wanted
      <4> QED BY <1>3, <1>5, <3>2, <4>1 DEF Passes, Agree, OfItsProvider
    <3>3. ReadOK(k)
      BY <1>3, <2>1, <3>1, <3>2 DEF ReadOK, Checks
    <3> QED BY <3>1, <3>3 DEF SaveOK
  <2>5. TouchOK(k)
    BY <1>1, <1>3 DEF RequestOK, TouchOK
  <2>6. InsertOK(k) /\ SaveOK(k)
    BY <2>3, <2>4 DEF InsertOK, SaveOK
  <2> QED BY <1>3, <2>2, <2>5, <2>6 DEF RequestOK
<1>6. \/ Done(x)
      \/ Goes(x, k) /\ (Passes(x, Head(req[x].checks)) \/ req[x].row.table = "user")
  BY <1>2 DEF Check
<1> QED BY <1>2, <1>3, <1>4, <1>5, <1>6, IdleOK DEF Done, Goes, RequestOK

\* The row is read: the request now holds it, with its changes.
LEMMA ReadIs ==
  ASSUME TypeInv, RowsOK, RequestsOK, NEW x \in Callers, ReadItself(x)
  PROVE  \E k \in Requests :
           /\ Goes(x, k) /\ RequestOK(k) /\ k.pc \in {"idle", "check"}
           /\ k.op \in {None, req[x].op}
           /\ k.pc = "check" =>
                /\ Live(req[x].id) /\ req[x].id \in Ids /\ k.id = req[x].id
                /\ k.row = Merged(db[k.id], req[x].change) /\ k.change = req[x].change
                /\ k.checks = Tail(req[x].checks) \o Further(db[k.id], req[x].change)
                /\ k.op # "insert"
<1>1. /\ req[x] \in Requests /\ req[x].pc = "check" /\ RequestOK(req[x])
      /\ req[x].checks \in Seq(Checks) /\ req[x].checks # <<>>
      /\ Head(req[x].checks) = "itself" /\ req[x].change \in Changes
      /\ db \in [Ids -> Rows]
  BY DEF TypeInv, Requests, RequestsOK, ReadItself
<1>2. Due(req[x].checks, "itself")
  BY <1>1, Rest
<1>3. req[x].op \in {"save", "columns", "delete"}
  BY <1>1, <1>2 DEF RequestOK
<1>4. req[x].id \in Ids
  BY <1>1, <1>3 DEF RequestOK, SaveOK, TouchOK
<1>5. PICK old \in Rows : old = db[req[x].id]
  BY <1>1, <1>4
<1>6. PICK row \in Rows :
        /\ row = Merged(old, req[x].change)
        /\ row.table = old.table /\ row.live = old.live /\ row.channel = old.channel
        /\ row.provider = old.provider
        /\ row.name = Changed(old.name, req[x].change.name)
        /\ row.up \in {old.up, req[x].change.up}
        /\ req[x].change.up = None => row.up = old.up
  BY <1>1, MergedIs
<1>7. PICK checks \in Seq(Checks) :
        /\ checks = Tail(req[x].checks) \o Further(old, req[x].change)
        /\ req[x].change.up \notin {None, old.up} => Due(checks, "signature")
  <2>1. Tail(req[x].checks) \in Seq(Checks)
    BY <1>1, Rest
  <2>2. PICK t \in Seq(Checks) :
          /\ t = Further(old, req[x].change)
          /\ req[x].change.up \notin {None, old.up} => Due(t, "signature")
    BY FurtherIs
  <2>3. /\ Tail(req[x].checks) \o t \in Seq(Checks)
        /\ Due(t, "signature") => Due(Tail(req[x].checks) \o t, "signature")
    BY <2>1, <2>2, Behind DEF Checks
  <2> QED BY <2>2, <2>3
<1>8. PICK k : k = [req[x] EXCEPT !.row = row, !.checks = checks]
  OBVIOUS
<1>9. /\ k \in Requests /\ k.pc = "check" /\ k.op = req[x].op /\ k.id = req[x].id
      /\ k.row = row /\ k.change = req[x].change /\ k.checks = checks
  BY <1>1, <1>8 DEF Requests
<1>10. CASE Done(x)
  BY <1>10, IdleOK DEF Done, Goes, RequestOK
<1>11. CASE ~Done(x)
  <2>1. Live(req[x].id) /\ Goes(x, k)
    BY <1>5, <1>6, <1>7, <1>8, <1>11 DEF ReadItself
  <2>2. ASSUME k.op = "save"
        PROVE  SaveOK(k)
    <3>1. /\ db[k.id] = old /\ old.table \in Saved
          /\ k.change.up # None => old.table = "mapping" /\ k.change.up \in Of("signature")
          /\ old.table \in {"user", "template"} => k.change.name = None
      BY <1>1, <1>5, <1>9, <2>2 DEF RequestOK, SaveOK
    <3>2. row.table = "user" => row.name = old.name
      BY <1>6, <1>9, <3>1 DEF Changed
    <3>3. ASSUME row.table = "mapping"
          PROVE  \/ Agree(row)
                 \/ Hung(row) /\ Due(checks, "signature") /\ row.up = k.change.up
      <4>1. Agree(old)
        BY <1>4, <1>5, <1>6, <3>3 DEF RowsOK, RowOK
      <4>2. CASE row.up = old.up
        BY <1>6, <4>1, <4>2 DEF Agree, Hung
      <4>3. CASE row.up # old.up
        <5>1. row.up = k.change.up /\ k.change.up # None
          BY <1>6, <1>9, <4>3
        <5>2. Hung(row)
          BY <3>1, <5>1 DEF Hung, Of
        <5> QED BY <1>7, <1>9, <4>3, <5>1, <5>2
      <4> QED BY <4>2, <4>3
    <3>4. ReadOK(k)
      BY <1>6, <1>9, <3>1, <3>2, <3>3 DEF ReadOK
    <3> QED BY <1>4, <1>9, <3>1, <3>4 DEF SaveOK
  <2>3. TouchOK(k)
    BY <1>1, <1>9 DEF RequestOK, TouchOK
  <2>4. RequestOK(k)
    BY <1>3, <1>9, <2>2, <2>3 DEF RequestOK, InsertOK, SaveOK
  <2> QED BY <1>3, <1>4, <1>5, <1>6, <1>7, <1>9, <2>1, <2>4
<1> QED BY <1>10, <1>11

\* After its write a request is through, or refreshes the cache.
LEMMA WroteIs ==
  ASSUME TypeInv, NEW x \in Callers, NEW table, Wrote(x, table)
  PROVE  \E k \in Requests :
           /\ Goes(x, k) /\ k.pc \in {"idle", "lock"} /\ k.op \in {None, req[x].op}
           /\ \/ UNCHANGED <<writes, wrote>>
              \/ /\ k.pc = "lock" /\ writes' = writes + 1
                 /\ wrote' = [wrote EXCEPT ![Home[x]] = writes + 1]
<1>1. CASE Done(x) /\ UNCHANGED <<writes, wrote>>
  BY <1>1, IdleOK DEF Done, Goes
<1>2. CASE /\ Goes(x, [Idle EXCEPT !.pc = "lock", !.op = req[x].op])
           /\ writes' = writes + 1 /\ wrote' = [wrote EXCEPT ![Home[x]] = writes + 1]
  <2>1. PICK k : k = [Idle EXCEPT !.pc = "lock", !.op = req[x].op]
    OBVIOUS
  <2>2. k \in Requests /\ k.pc = "lock" /\ k.op = req[x].op
    <3>1. req[x].op \in Ops \cup {None}
      BY DEF TypeInv, Requests
    <3> HIDE DEF Idle
    <3> QED BY <2>1, <3>1, IdleOK DEF Requests
  <2> QED BY <1>2, <2>1, <2>2
<1> QED BY <1>1, <1>2 DEF Wrote

\* A statement that writes.
LEMMA WriteIs ==
  ASSUME TypeInv, RequestsOK, NEW x \in Callers,
         \/ Insert(x) \/ Save(x) \/ UpdateColumns(x) \/ DeleteRow(x) \/ DeleteBindings(x)
         \/ CommitChannel(x)
  PROVE  \E k \in Requests :
           /\ Goes(x, k) /\ RequestOK(k) /\ k.pc \in {"idle", "lock", "commit"}
           /\ k.op \in {None, req[x].op} /\ Active(x)
           /\ \/ UNCHANGED <<writes, wrote>>
              \/ /\ k.pc = "lock" /\ writes' = writes + 1
                 /\ wrote' = [wrote EXCEPT ![Home[x]] = writes + 1]
           /\ k.pc = "commit" =>
                /\ k.id = req[x].id /\ k.id \in Of("channel")
                /\ db' = Without(BindingsOf(k.id))
<1>1. /\ req[x] \in Requests /\ RequestOK(req[x])
      /\ None \notin Ops
  BY NamesAssumption DEF TypeInv, RequestsOK
<1>2. \A op \in Ops \ {"evaluate"} : Ready(x, op) => Active(x)
  BY <1>1 DEF Ready, Active
<1>3. ASSUME Done(x)
      PROVE  \E k \in Requests : Goes(x, k) /\ RequestOK(k) /\ k.pc = "idle" /\ k.op = None
  BY <1>3, IdleOK DEF Done, Goes, RequestOK
<1>4. ASSUME NEW k \in Requests, k.pc \in {"idle", "lock"}
      PROVE  RequestOK(k)
  BY <1>4 DEF RequestOK
<1>5. CASE Fails(x)
  <2>1. Active(x)
    BY <1>1, <1>2 DEF Insert, Save, UpdateColumns, DeleteRow, DeleteBindings, CommitChannel,
       Ops, RequestOK, Active
  <2> QED BY <1>3, <1>5, <2>1 DEF Fails
<1>6. CASE (Insert(x) \/ Save(x) \/ DeleteRow(x)) /\ ~Fails(x)
  <2>1. Active(x)
    BY <1>2, <1>6 DEF Insert, Save, DeleteRow, Ops
  <2>2. \/ \E table : Wrote(x, table)
        \/ Done(x) /\ UNCHANGED <<writes, wrote>>
    BY <1>6 DEF Insert, Save, DeleteRow
  <2> QED BY <1>3, <1>4, <2>1, <2>2, WroteIs
<1>7. CASE UpdateColumns(x) /\ ~Fails(x)
  <2>1. Active(x)
    BY <1>2, <1>7 DEF UpdateColumns, Ops
  <2>2. Done(x) /\ UNCHANGED <<writes, wrote>>
    BY <1>7 DEF UpdateColumns
  <2> QED BY <1>3, <2>1, <2>2
<1>8. CASE DeleteBindings(x) /\ ~Fails(x)
  <2>1. Active(x)
    BY <1>2, <1>8 DEF DeleteBindings, Ops
  <2>2. /\ db' = Without(BindingsOf(req[x].id)) /\ Goes(x, [req[x] EXCEPT !.pc = "commit"])
        /\ Ready(x, "delete_channel") /\ UNCHANGED <<writes, wrote>>
    BY <1>8 DEF DeleteBindings
  <2>3. PICK k : k = [req[x] EXCEPT !.pc = "commit"]
    OBVIOUS
  <2>4. k \in Requests /\ k.pc = "commit" /\ k.op = req[x].op /\ k.id = req[x].id
    BY <1>1, <2>3 DEF Requests
  <2>5. k.op = "delete_channel" /\ TouchOK(req[x])
    BY <1>1, <2>2, <2>4 DEF RequestOK, Ready
  <2>6. RequestOK(k) /\ k.id \in Of("channel")
    BY <2>4, <2>5 DEF RequestOK, TouchOK
  <2> QED BY <2>1, <2>2, <2>3, <2>4, <2>6
<1>9. CASE CommitChannel(x) /\ ~Fails(x)
  <2>1. Active(x)
    BY <1>1, <1>9 DEF CommitChannel, RequestOK, Active, Ops
  <2>2. Done(x) /\ UNCHANGED <<writes, wrote>>
    BY <1>9 DEF CommitChannel
  <2> QED BY <1>3, <2>1, <2>2
<1> QED BY <1>5, <1>6, <1>7, <1>8, <1>9

\* From one scene to the next, or out of the mutex.
LEMMA OnwardIs ==
  ASSUME TypeInv, NEW x \in Callers, req[x].pc \in {"read", "keep"}, Onward(x)
  PROVE  \E k \in Requests :
           /\ Goes(x, k) /\ Working(k) /\ k.op \in {None, req[x].op}
           /\ \/ /\ req[x].scenes = <<"callback_failure">> /\ k.pc \in {"decide", "idle"}
                 /\ lock' = [lock EXCEPT ![Home[x]] = None]
              \/ /\ req[x].scenes = <<"send_failure", "callback_failure">> /\ k.pc = "read"
                 /\ k.scenes = <<"callback_failure">> /\ lock' = lock
<1>1. /\ req[x] \in Requests /\ req[x].op \in Ops \cup {None}
      /\ req[x].scenes \in {<<"send_failure", "callback_failure">>, <<"callback_failure">>}
  BY DEF TypeInv, Requests, Working
<1>2. CASE req[x].scenes = <<"callback_failure">>
  <2>1. Len(req[x].scenes) = 1
    BY <1>2
  <2>2. lock' = [lock EXCEPT ![Home[x]] = None]
    BY <2>1 DEF Onward
  <2>3. CASE req[x].op = "evaluate"
    <3>1. PICK k : k = [req[x] EXCEPT !.pc = "decide", !.scenes = <<>>, !.list = {}]
      OBVIOUS
    <3>2. <<>> \in Seq(Scenes) /\ {} \in SUBSET Ids
      OBVIOUS
    <3>3. k \in Requests /\ k.pc = "decide" /\ k.op = req[x].op
      BY <1>1, <3>1, <3>2 DEF Requests
    <3> QED BY <1>2, <2>1, <2>2, <2>3, <3>1, <3>3 DEF Onward, Working
  <2>4. CASE req[x].op # "evaluate"
    BY <1>2, <2>1, <2>2, <2>4, IdleOK DEF Onward, Done, Goes, Working
  <2> QED BY <2>3, <2>4
<1>3. CASE req[x].scenes = <<"send_failure", "callback_failure">>
  <2>1. Len(req[x].scenes) # 1 /\ Tail(req[x].scenes) = <<"callback_failure">>
    BY <1>3
  <2>2. PICK k : k = [req[x] EXCEPT !.pc = "read", !.scenes = Tail(@), !.list = {}]
    OBVIOUS
  <2>3. Goes(x, k) /\ lock' = lock
    BY <2>1, <2>2 DEF Onward
  <2>4. Tail(req[x].scenes) \in Seq(Scenes)
    <3>1. \A t : t = <<"callback_failure">> => t \in Seq(Scenes)
      BY DEF Scenes
    <3> QED BY <2>1, <3>1
  <2>5. /\ k \in Requests /\ k.pc = "read" /\ k.op = req[x].op
        /\ k.scenes = <<"callback_failure">>
    BY <1>1, <2>1, <2>2, <2>4 DEF Requests
  <2> QED BY <1>3, <2>3, <2>5 DEF Working
<1> QED BY <1>1, <1>2, <1>3

\* A step to or from the mutex.
LEMMA WaitIs ==
  ASSUME TypeInv, NEW x \in Callers, Refresh(x) \/ Look(x) \/ Decide(x)
  PROVE  \E k \in Requests :
           /\ Goes(x, k) /\ k.pc \in {"idle", "lock"} /\ k.op \in {None, req[x].op}
           /\ req[x].pc \in {"check", "decide"}
           /\ UNCHANGED <<db, caches, writes, wrote, overlapped, requests, faults>>
<1>1. req[x] \in Requests
  BY DEF TypeInv
<1>2. CASE Done(x) /\ (Look(x) \/ Decide(x))
  BY <1>2, IdleOK DEF Done, Goes, Look, Decide, Ready
<1>3. PICK k : k = [req[x] EXCEPT !.pc = "lock"]
  OBVIOUS
<1>4. k \in Requests /\ k.pc = "lock" /\ k.op = req[x].op
  BY <1>1, <1>3 DEF Requests
<1>5. CASE Goes(x, k) /\ (Refresh(x) \/ Look(x))
  BY <1>4, <1>5 DEF Refresh, Look, Ready
<1> QED BY <1>2, <1>3, <1>5 DEF Refresh, Look, Decide

LEMMA LockIs ==
  ASSUME TypeInv, NEW x \in Callers, Lock(x)
  PROVE  \E k \in Requests :
           /\ Goes(x, k) /\ Working(k) /\ k.pc = "read" /\ k.op = req[x].op
           /\ k.scenes = <<"send_failure", "callback_failure">>
           /\ req[x].pc = "lock" /\ Free(Home[x]) /\ lock' = [lock EXCEPT ![Home[x]] = x]
           /\ UNCHANGED <<db, cache, missed, writes, wrote, overlapped, requests, faults>>
<1>1. req[x] \in Requests
  BY DEF TypeInv
<1>2. PICK scenes : scenes = <<"send_failure", "callback_failure">>
  OBVIOUS
<1>3. scenes \in Seq(Scenes)
  BY <1>2 DEF Scenes
<1>4. PICK k : k = [req[x] EXCEPT !.pc = "read", !.scenes = scenes]
  OBVIOUS
<1>5. k \in Requests /\ k.pc = "read" /\ k.op = req[x].op /\ k.scenes = scenes
  BY <1>1, <1>3, <1>4 DEF Requests
<1>6. Goes(x, k)
  BY <1>2, <1>4 DEF Lock
<1> QED BY <1>2, <1>5, <1>6 DEF Lock, Working

LEMMA ReadRulesIs ==
  ASSUME TypeInv, NEW x \in Callers, ReadRules(x), ~Onward(x) \/ missed' # missed \cup {Home[x]}
  PROVE  \E k \in Requests :
           /\ Goes(x, k) /\ Working(k) /\ k.pc = "keep" /\ k.op = req[x].op
           /\ k.scenes = req[x].scenes /\ k.read = writes /\ req[x].pc = "read"
           /\ UNCHANGED <<db, cache, lock, missed, writes, wrote, overlapped, requests, faults>>
<1>1. req[x] \in Requests /\ writes \in Nat /\ Working(req[x])
  BY DEF TypeInv
<1>2. PICK active \in SUBSET Ids :
        active = {r \in Of("rule") : Live(r) /\ db[r].on /\ db[r].type = Head(req[x].scenes)}
  BY DEF Of
<1>3. PICK k : k = [req[x] EXCEPT !.pc = "keep", !.list = active, !.read = writes]
  OBVIOUS
<1>4. /\ k \in Requests /\ k.pc = "keep" /\ k.op = req[x].op /\ k.scenes = req[x].scenes
      /\ k.read = writes
  BY <1>1, <1>3 DEF Requests
<1>5. Goes(x, k) /\ UNCHANGED <<lock, missed, faults>> /\ req[x].pc = "read"
  BY <1>2, <1>3 DEF ReadRules
<1> QED BY <1>1, <1>4, <1>5 DEF ReadRules, Working

\* The list that was read goes into the cache.
LEMMA KeepIs ==
  ASSUME TypeInv, NEW x \in Callers, KeepRules(x)
  PROVE  \E s \in Scenes :
           /\ s = Head(req[x].scenes) /\ req[x].read \in Nat
           /\ cache' \in [Replicas -> [Scenes -> [rules : SUBSET Ids, at : Nat]]]
           /\ \A h \in Replicas : \A t \in Scenes :
                cache'[h][t].at = IF h = Home[x] /\ t = s THEN req[x].read ELSE cache[h][t].at
<1>1. /\ req[x] \in Requests /\ Working(req[x]) /\ req[x].pc = "keep"
      /\ req[x].list \in SUBSET Ids /\ req[x].read \in Nat
      /\ cache \in [Replicas -> [Scenes -> [rules : SUBSET Ids, at : Nat]]]
      /\ Home[x] \in Replicas
  BY NamesAssumption DEF TypeInv, Requests, KeepRules
<1>2. PICK s \in Scenes : s = Head(req[x].scenes)
  <2>1. CASE req[x].scenes = <<"callback_failure">>
    BY <2>1 DEF Scenes
  <2>2. CASE req[x].scenes = <<"send_failure", "callback_failure">>
    BY <2>2 DEF Scenes
  <2> QED BY <1>1, <2>1, <2>2 DEF Working
<1>3. PICK e : e = [rules |-> req[x].list, at |-> req[x].read]
  OBVIOUS
<1>4. e \in [rules : SUBSET Ids, at : Nat] /\ e.at = req[x].read
  BY <1>1, <1>3
<1>5. PICK c : c = [cache[Home[x]] EXCEPT ![s] = e]
  OBVIOUS
<1>6. c \in [Scenes -> [rules : SUBSET Ids, at : Nat]]
  <2>1. cache[Home[x]] \in [Scenes -> [rules : SUBSET Ids, at : Nat]]
    BY <1>1
  <2> QED BY <1>4, <1>5, <2>1
<1>7. \A t \in Scenes : c[t] = IF t = s THEN e ELSE cache[Home[x]][t]
  <2>1. cache[Home[x]] \in [Scenes -> [rules : SUBSET Ids, at : Nat]]
    BY <1>1
  <2> QED BY <1>5, <2>1
<1>8. cache' = [cache EXCEPT ![Home[x]] = c]
  BY <1>1, <1>2, <1>3, <1>5 DEF KeepRules
<1>9. cache' \in [Replicas -> [Scenes -> [rules : SUBSET Ids, at : Nat]]]
  BY <1>1, <1>6, <1>8
<1>10. \A h \in Replicas : \A t \in Scenes :
        cache'[h][t].at = IF h = Home[x] /\ t = s THEN req[x].read ELSE cache[h][t].at
  BY <1>1, <1>4, <1>7, <1>8
<1> QED BY <1>1, <1>2, <1>9, <1>10

\* Whatever the step, what a request becomes is in order.
LEMMA RequestSteps ==
  ASSUME TypeInv, RowsOK, RequestsOK, [Next]_vars
  PROVE  \/ req' = req
         \/ \E x \in Callers : \E k \in Requests : Goes(x, k) /\ Working(k) /\ RequestOK(k)
<1>1. \A k \in Requests : /\ k.pc \notin {"check", "commit"} => RequestOK(k)
                          /\ k.pc \notin {"read", "keep"} => Working(k)
  BY DEF RequestOK, Working
<1>2. CASE UNCHANGED vars
  BY <1>2 DEF vars
<1>3. ASSUME NEW x \in Callers, Channels(x) \/ Accounts(x) \/ Others(x)
      PROVE  \E k \in Requests : Goes(x, k) /\ Working(k) /\ RequestOK(k)
  BY <1>3, StartIs, BegunOK DEF Working
<1>4. ASSUME NEW x \in Callers, Statement(x)
      PROVE  \E k \in Requests : Goes(x, k) /\ Working(k) /\ RequestOK(k)
  <2>1. CASE Check(x)
    BY <2>1, CheckIs DEF Working
  <2>2. CASE ReadItself(x)
    BY <2>2, ReadIs DEF Working
  <2>3. CASE \/ Insert(x) \/ Save(x) \/ UpdateColumns(x) \/ DeleteRow(x) \/ DeleteBindings(x)
             \/ CommitChannel(x)
    BY <2>3, WriteIs DEF Working
  <2>4. CASE Refresh(x) \/ Look(x) \/ Decide(x)
    BY <1>1, <2>4, WaitIs
  <2>5. CASE Lock(x)
    BY <1>1, <2>5, LockIs
  <2>6. CASE ReadRules(x) \/ KeepRules(x)
    <3>1. CASE Onward(x)
      <4>1. \E k \in Requests : Goes(x, k) /\ Working(k) /\ k.pc \in {"decide", "idle", "read"}
        BY <2>6, <3>1, OnwardIs DEF ReadRules, KeepRules
      <4> QED BY <1>1, <4>1
    <3>2. CASE ~Onward(x)
      BY <1>1, <2>6, <3>2, ReadRulesIs DEF KeepRules
    <3> QED BY <3>1, <3>2
  <2> QED BY <1>4, <2>1, <2>2, <2>3, <2>4, <2>5, <2>6 DEF Statement
<1> QED BY <1>2, <1>3, <1>4 DEF Next

\* The types of the rest.
RestOK ==
  /\ cache \in [Replicas -> [Scenes -> [rules : SUBSET Ids, at : Nat]]]
  /\ lock \in [Replicas -> Callers \cup {None}]
  /\ writes \in Nat /\ wrote \in [Replicas -> Nat] /\ missed \subseteq Replicas
  /\ overlapped \in BOOLEAN /\ requests \in Nat /\ faults \in Nat

LEMMA RestTypes ==
  ASSUME TypeInv, RequestsOK, [Next]_vars
  PROVE  RestOK'
<1>1. RestOK /\ Home \in [Callers -> Replicas]
  BY NamesAssumption DEF TypeInv, RestOK
<1>2. CASE UNCHANGED vars
  BY <1>1, <1>2 DEF vars, caches, RestOK
<1>3. ASSUME NEW x \in Callers, Channels(x) \/ Accounts(x) \/ Others(x)
      PROVE  RestOK'
  <2>1. /\ UNCHANGED <<caches, writes, wrote, faults>> /\ requests' = requests + 1
        /\ overlapped' = (overlapped \/ \E y \in Callers : Active(y))
    BY <1>3, StartIs
  <2>2. overlapped' \in BOOLEAN
    BY <2>1
  <2>3. requests' \in Nat
    BY <1>1, <2>1 DEF RestOK
  <2> QED BY <1>1, <2>1, <2>2, <2>3 DEF caches, RestOK
<1>4. ASSUME NEW x \in Callers, Statement(x)
      PROVE  RestOK'
  <2>1. CASE Check(x) \/ ReadItself(x)
    <3>1. faults' \in Nat
      BY <1>1, <2>1 DEF Check, ReadItself, Fault, RestOK
    <3>2. UNCHANGED <<caches, writes, wrote, overlapped, requests>>
      BY <2>1 DEF Check, ReadItself
    <3> QED BY <1>1, <3>1, <3>2 DEF caches, RestOK
  <2>2. CASE \/ Insert(x) \/ Save(x) \/ UpdateColumns(x) \/ DeleteRow(x) \/ DeleteBindings(x)
             \/ CommitChannel(x)
    <3>1. faults' \in Nat
      BY <1>1, <2>2 DEF Insert, Save, UpdateColumns, DeleteRow, DeleteBindings, CommitChannel,
         Fails, Fault, RestOK
    <3>2. UNCHANGED <<caches, overlapped, requests>>
      BY <2>2 DEF Insert, Save, UpdateColumns, DeleteRow, DeleteBindings, CommitChannel
    <3>3. \/ UNCHANGED <<writes, wrote>>
          \/ writes' = writes + 1 /\ wrote' = [wrote EXCEPT ![Home[x]] = writes + 1]
      BY <2>2, WriteIs
    <3>4. writes' \in Nat /\ wrote' \in [Replicas -> Nat]
      BY <1>1, <3>3 DEF RestOK
    <3> QED BY <1>1, <3>1, <3>2, <3>4 DEF caches, RestOK
  <2>3. CASE Refresh(x) \/ Look(x) \/ Decide(x)
    BY <1>1, <2>3, WaitIs DEF caches, RestOK
  <2>4. CASE Lock(x)
    BY <1>1, <2>4, LockIs DEF RestOK
  <2>5. CASE ReadRules(x)
    <3>1. CASE Onward(x) /\ missed' = missed \cup {Home[x]}
      <4>1. lock' \in [Replicas -> Callers \cup {None}]
        BY <1>1, <2>5, <3>1, OnwardIs DEF ReadRules, RestOK
      <4>2. faults' \in Nat
        BY <1>1, <2>5 DEF ReadRules, Fault, RestOK
      <4>3. UNCHANGED <<cache, writes, wrote, overlapped, requests>>
        BY <2>5 DEF ReadRules
      <4> QED BY <1>1, <3>1, <4>1, <4>2, <4>3 DEF RestOK
    <3>2. CASE ~Onward(x) \/ missed' # missed \cup {Home[x]}
      BY <1>1, <2>5, <3>2, ReadRulesIs DEF RestOK
    <3> QED BY <3>1, <3>2
  <2>6. CASE KeepRules(x)
    <3>1. lock' \in [Replicas -> Callers \cup {None}]
      BY <1>1, <2>6, OnwardIs DEF KeepRules, RestOK
    <3>2. cache' \in [Replicas -> [Scenes -> [rules : SUBSET Ids, at : Nat]]]
      BY <2>6, KeepIs
    <3>3. UNCHANGED <<missed, writes, wrote, overlapped, requests, faults>>
      BY <2>6 DEF KeepRules
    <3> QED BY <1>1, <3>1, <3>2, <3>3 DEF RestOK
  <2> QED BY <1>4, <2>1, <2>2, <2>3, <2>4, <2>5, <2>6 DEF Statement
<1> QED BY <1>2, <1>3, <1>4 DEF Next

-----------------------------------------------------------------------------
(* What the rows say of each other                                           *)

\* A row in order stays so: what it hangs on keeps its provider, its account and
\* its channel keep their types.
LEMMA RowStays ==
  ASSUME db \in [Ids -> Rows], db' \in [Ids -> Rows], Kept,
         NEW row \in Rows, RowOK(row)
  PROVE  RowOK(row)'
<1>1. None \notin Ids /\ None \notin Tables
  BY NamesAssumption
<1>2. \A i \in Ids : db[i].table # None =>
        /\ db'[i].table = db[i].table /\ db'[i].provider = db[i].provider
        /\ db[i].table \in {"account", "channel"} =>
             db'[i].type = db[i].type /\ (db'[i].live => db[i].live)
  BY DEF Kept
<1>3. Agree(row) => Agree(row)'
  BY <1>1, <1>2 DEF Agree, Hung, Tables
<1>4. Bound(row) => Bound(row)'
  BY <1>1, <1>2 DEF Bound, Of, Tables
<1>5. Bound(row) /\ FitsChannel(row) => FitsChannel(row)'
  BY <1>1, <1>2 DEF Bound, Of, FitsChannel, Live, Tables
<1> QED BY <1>3, <1>4, <1>5 DEF RowOK

\* What RowOK says of a row depends on where it is.
LEMMA RowsAlike ==
  ASSUME NEW a, NEW b, RowOK(a), a.table = b.table, a.up = b.up,
         a.channel = b.channel, a.provider = b.provider
  PROVE  RowOK(b)
BY DEF RowOK, Agree, Hung, Bound, FitsChannel

LEMMA RowsStep ==
  ASSUME TypeInv, RowsOK, RequestsOK, [Next]_vars
  PROVE  RowsOK'
<1>1. /\ db \in [Ids -> Rows] /\ db' \in [Ids -> Rows] /\ Kept
      /\ req \in [Callers -> Requests] /\ None \notin Tables
  BY StepsKeep, NamesAssumption DEF TypeInv
<1>2. ASSUME NEW x \in Callers, NEW i \in Ids, Written(x, i)
      PROVE  RowOK(req[x].row)
  <2>1. /\ req[x].checks = <<>> /\ req[x].pc = "check" /\ RequestOK(req[x])
        /\ ~Unread(req[x].checks)
    BY <1>2 DEF Written, Ready, RequestsOK, Unread
  <2>2. \A c \in Checks : ~Due(req[x].checks, c)
    BY <2>1 DEF Due
  <2>3. CASE req[x].op = "insert"
    BY <2>1, <2>2, <2>3 DEF RequestOK, InsertOK, RowOK, Checks, Upper
  <2>4. CASE req[x].op = "save"
    BY <2>1, <2>2, <2>4 DEF RequestOK, SaveOK, ReadOK, RowOK, Checks, Saved
  <2> QED BY <1>2, <2>3, <2>4 DEF Written, Ready
<1>3. ASSUME NEW i \in Ids
      PROVE  RowOK(db'[i])
  <2>1. RowOK(db[i]) /\ db[i] \in Rows
    BY <1>1 DEF RowsOK
  <2>2. CASE Slight
    <3>1. /\ db[i].table = db'[i].table /\ db[i].up = db'[i].up
          /\ db[i].channel = db'[i].channel /\ db[i].provider = db'[i].provider
      BY <2>2 DEF Slight
    <3> QED BY <2>1, <3>1, RowsAlike
  <2>3. ASSUME NEW x \in Callers, NEW j \in Ids, Written(x, j)
        PROVE  RowOK(db'[i])
    <3>1. db'[i] = IF i = j THEN req[x].row ELSE db[i]
      BY <1>1, <2>3 DEF Written
    <3> QED BY <1>2, <2>1, <2>3, <3>1
  <2> QED BY <2>2, <2>3, RowSteps
<1>4. ASSUME NEW i \in Ids
      PROVE  RowOK(db[i])'
  <2>1. PICK row \in Rows : row = db'[i]
    BY <1>1
  <2>2. RowOK(row)
    BY <1>3, <2>1
  <2>3. RowOK(row)'
    BY <1>1, <2>2, RowStays
  <2> QED BY <2>1, <2>3
<1> QED BY <1>4 DEF RowsOK

LEMMA UsersStep ==
  ASSUME TypeInv, UsersOK, RequestsOK, [Next]_vars
  PROVE  UsersOK'
<1>1. db \in [Ids -> Rows] /\ req \in [Callers -> Requests] /\ None # "user"
  BY NamesAssumption DEF TypeInv, Tables
<1>2. CASE Slight
  BY <1>2 DEF Slight, UsersOK
<1>3. ASSUME NEW x \in Callers, NEW n \in Ids, Written(x, n)
      PROVE  UsersOK'
  <2>1. /\ db' = [db EXCEPT ![n] = req[x].row] /\ RequestOK(req[x])
        /\ req[x].pc = "check" /\ req[x].checks = <<>>
    BY <1>3 DEF Written, RequestsOK, Ready
  <2>2. CASE Ready(x, "save") /\ n = req[x].id
    <3>1. /\ req[x].row.table = db[n].table
          /\ db[n].table = "user" => req[x].row.name = db[n].name
      BY <2>1, <2>2 DEF RequestOK, SaveOK, ReadOK, Ready, Unread
    <3> QED BY <1>1, <2>1, <3>1 DEF UsersOK
  <2>3. CASE db[n].table = None /\ ~Taken(req[x].row)
    <3>1. req[x].row.table = "user" =>
            \A u \in Ids : db[u].table = "user" => db[u].name # req[x].row.name
      BY <2>3 DEF Taken, Of
    <3> QED BY <1>1, <2>1, <2>3, <3>1 DEF UsersOK
  <2> QED BY <1>3, <2>2, <2>3 DEF Written
<1> QED BY <1>2, <1>3, RowSteps

LEMMA InitRows ==
  ASSUME Init
  PROVE  RowsOK /\ UsersOK /\ RequestsOK
<1>1. /\ db \in [Ids -> Rows] /\ Blank.table = None /\ None \notin Tables
      /\ \A i \in Ids : db[i] = IF i \in DOMAIN Seed THEN Seed[i] ELSE Blank
  BY InitTypes, NamesAssumption DEF Init, TypeInv, Blank
<1>2. ASSUME NEW i \in Ids
      PROVE  RowOK(db[i])
  <2>1. CASE i \notin DOMAIN Seed
    BY <1>1, <2>1 DEF RowOK, Tables
  <2>2. CASE i \in DOMAIN Seed /\ db[i].table \in {"binding", "mapping"}
    <3>1. /\ db[i] = Seed[i] /\ DOMAIN Seed \subseteq Ids
          /\ \A j \in DOMAIN Seed : db[j] = Seed[j]
          /\ {db[i].up, db[i].channel, db[i].provider} \subseteq DOMAIN Seed
      BY <1>1, <2>2, SeedAssumption
    <3>2. /\ db[db[i].up].table \in {"template", "signature"}
          /\ db[db[i].up].provider = db[i].provider
          /\ db[db[i].channel].table = "channel" /\ db[db[i].provider].table = "account"
          /\ db[i].table = "binding" =>
               (db[db[i].provider].live =>
                  db[db[i].provider].type = db[db[i].channel].type)
      BY <1>1, <2>2, <3>1, SeedAssumption
    <3>3. Agree(db[i]) /\ Bound(db[i])
      BY <3>1, <3>2 DEF Agree, Hung, Bound, Of
    <3>4. db[i].table = "binding" => FitsChannel(db[i])
      BY <3>2 DEF FitsChannel, Live
    <3> QED BY <3>3, <3>4 DEF RowOK
  <2>3. CASE db[i].table \notin {"binding", "mapping"}
    BY <2>3 DEF RowOK
  <2> QED BY <2>1, <2>2, <2>3
<1>3. UsersOK
  <2> SUFFICES ASSUME NEW i \in Ids, NEW j \in Ids \ {i},
                      db[i].table = "user", db[j].table = "user"
               PROVE  db[i].name # db[j].name
    BY DEF UsersOK
  <2>1. i \in DOMAIN Seed /\ j \in DOMAIN Seed /\ db[i] = Seed[i] /\ db[j] = Seed[j]
    BY <1>1 DEF Tables
  <2> QED BY <2>1, SeedAssumption
<1>4. RequestsOK
  BY IdleOK DEF Init, RequestsOK, RequestOK
<1> QED BY <1>2, <1>3, <1>4 DEF RowsOK

LEMMA DataStep ==
  ASSUME DataInv, [Next]_vars
  PROVE  DataInv'
<1>1. TypeInv /\ RowsOK /\ UsersOK /\ RequestsOK /\ db' \in [Ids -> Rows] /\ Kept
  BY StepsKeep DEF DataInv
<1>2. RowsOK' /\ UsersOK' /\ RestOK'
  BY <1>1, RowsStep, UsersStep, RestTypes
<1>3. /\ req' \in [Callers -> Requests] /\ \A x \in Callers : Working(req'[x])
      /\ \A x \in Callers : RequestOK(req'[x])
  <2>1. /\ req \in [Callers -> Requests] /\ \A x \in Callers : Working(req[x])
        /\ \A x \in Callers : RequestOK(req[x])
    BY <1>1 DEF TypeInv, RequestsOK
  <2>2. CASE req' = req
    BY <2>1, <2>2
  <2>3. ASSUME NEW x \in Callers, NEW k \in Requests, Goes(x, k), Working(k), RequestOK(k)
        PROVE  /\ req' \in [Callers -> Requests] /\ \A y \in Callers : Working(req'[y])
               /\ \A y \in Callers : RequestOK(req'[y])
    <3>1. req' = [req EXCEPT ![x] = k]
      BY <2>3 DEF Goes
    <3>2. \A y \in Callers : req'[y] = IF y = x THEN k ELSE req[y]
      BY <2>1, <3>1
    <3> QED BY <2>1, <2>3, <3>1, <3>2
  <2> QED BY <1>1, <2>2, <2>3, RequestSteps
<1>4. RequestsOK'
  <2>1. ASSUME NEW x \in Callers
        PROVE  RequestOK(req[x])'
    <3>1. PICK k \in Requests : k = req'[x]
      BY <1>3
    <3>2. RequestOK(k)
      BY <1>3, <3>1
    <3>3. RequestOK(k)'
      BY <1>1, <3>2, RequestStays DEF TypeInv
    <3> QED BY <3>1, <3>3
  <2> QED BY <2>1 DEF RequestsOK
<1>5. TypeInv'
  BY <1>1, <1>2, <1>3 DEF TypeInv, RestOK, Working
<1> QED BY <1>2, <1>4, <1>5 DEF DataInv

LEMMA DataHolds == Spec => []DataInv
<1>1. Init => DataInv
  BY InitTypes, InitRows DEF DataInv
<1>2. DataInv /\ [Next]_vars => DataInv'
  BY DataStep
<1> QED BY <1>1, <1>2, PTL DEF Spec

\* The account that a binding or a mapping names is the one of its template or
\* its signature, however many requests check, write and save at the same time.
THEOREM ProviderAgreesHolds == Spec => []ProviderAgrees
<1>1. DataInv => ProviderAgrees
  BY DEF DataInv, RowsOK, RowOK, Agree, ProviderAgrees, Of
<1> QED BY <1>1, DataHolds, PTL

\* The types of the variables, and that a binding whose account is there has an
\* account of the type of its channel.
THEOREM TypesAgreeHolds == Spec => []TypesAgree
<1>1. DataInv => TypesAgree
  <2> SUFFICES ASSUME DataInv PROVE TypesAgree
    OBVIOUS
  <2>1. TypeOK
    <3>1. TypeInv
      BY DEF DataInv
    <3>2. \A x \in Callers :
            /\ req[x].pc \in {"idle", "check", "commit", "lock", "read", "keep", "decide"}
            /\ req[x].id \in Ids \cup {None} /\ req[x].row \in Rows
            /\ req[x].list \subseteq Ids /\ req[x].read \in Nat
      BY <3>1 DEF TypeInv, Requests
    <3>3. \A h \in Replicas : \A s \in Scenes :
            cache[h][s].rules \subseteq Ids /\ cache[h][s].at \in Nat
      BY <3>1 DEF TypeInv
    <3> QED BY <3>1, <3>2, <3>3 DEF TypeInv, TypeOK
  <2>2. \A b \in Of("binding") :
          Live(db[b].provider) => db[db[b].provider].type = db[db[b].channel].type
    BY DEF DataInv, RowsOK, RowOK, FitsChannel, Of
  <2> QED BY <2>1, <2>2 DEF TypesAgree
<1> QED BY <1>1, DataHolds, PTL

-----------------------------------------------------------------------------
(* What holds as long as one request runs at a time                          *)

LEMMA KeysAlike ==
  ASSUME NEW a, NEW b, a.table = b.table, a.channel = b.channel, a.up = b.up,
         a.provider = b.provider, a.name = b.name
  PROVE  Key(a) = Key(b)
BY DEF Key

\* A mapping, a template or a signature has its key without what it hangs on.
LEMMA SavedKeys ==
  ASSUME NEW a, NEW b, a.table = b.table, a.table # "binding", a.channel = b.channel,
         a.provider = b.provider, a.name = b.name
  PROVE  Key(a) = Key(b)
BY DEF Key

\* What depends on the rows only stays as long as they do.
LEMMA StillSame ==
  ASSUME db' = db, NEW k, StillOK(k)
  PROVE  StillOK(k)'
BY DEF StillOK, Live, NotTwice, Of, BindingsOf, Due, Unread

LEMMA TidySame ==
  ASSUME db' = db, TidyOK
  PROVE  TidyOK'
BY DEF TidyOK, Live, Of

\* A request that begins has everything still to check.
LEMMA BegunStill ==
  ASSUME NEW k \in Requests, k.pc = "check",
         Begun(k.op, k.id, k.row, k.change, k.checks)
  PROVE  StillOK(k)
BY DEF Begun, StillOK

\* A check that is passed is still so when the next one runs.
LEMMA CheckStill ==
  ASSUME TypeInv, RequestsOK, NEW x \in Callers, Check(x), StillOK(req[x]),
         NEW k \in Requests, Goes(x, k), k.pc = "check",
         k = [req[x] EXCEPT !.checks = Tail(@)]
  PROVE  StillOK(k)
<1>1. /\ req[x] \in Requests /\ req[x].pc = "check" /\ RequestOK(req[x])
      /\ req[x].checks \in Seq(Checks) /\ req[x].checks # <<>>
      /\ Head(req[x].checks) # "itself"
  BY DEF TypeInv, Requests, RequestsOK, Check
<1>2. /\ k.op = req[x].op /\ k.id = req[x].id /\ k.row = req[x].row
      /\ k.checks = Tail(req[x].checks)
  BY <1>1 DEF Requests
<1>3. /\ \A c \in Checks : Due(req[x].checks, c) /\ Head(req[x].checks) # c => Due(k.checks, c)
      /\ \A c \in Checks : Due(k.checks, c) => Due(req[x].checks, c)
  BY <1>1, <1>2, Rest
<1>4. Passes(x, Head(req[x].checks)) \/ k.row.table = "user"
  <2>1. req'[x] = k
    BY DEF TypeInv, Goes
  <2>2. ~Done(x)
    BY <2>1, IdleOK DEF TypeInv, Done
  <2> QED BY <1>2, <2>2 DEF Check
<1>5. ASSUME k.op = "insert"
      PROVE  StillOK(k)
  <2>1. /\ k.row.table = "binding" => Live(k.row.channel) \/ Due(req[x].checks, "channel")
        /\ k.row.table \in Single => NotTwice(k.row, None) \/ Due(req[x].checks, "duplicate")
        /\ k.id = None
    BY <1>1, <1>2, <1>5 DEF StillOK, RequestOK, InsertOK
  <2>2. k.row.table = "binding" /\ Head(req[x].checks) = "channel" => Live(k.row.channel)
    BY <1>2, <1>4 DEF Passes
  <2>3. k.row.table \in Single /\ Head(req[x].checks) = "duplicate" => NotTwice(k.row, None)
    BY <1>2, <1>4, <2>1 DEF Passes, Single
  <2> QED BY <1>3, <1>5, <2>1, <2>2, <2>3 DEF StillOK, Checks
<1>6. ASSUME k.op = "save"
      PROVE  StillOK(k)
  <2>1. /\ ~Due(req[x].checks, "itself") /\ Live(k.id)
        /\ k.row.table \in Single =>
             \/ Key(k.row) = Key(db[k.id])
             \/ NotTwice(k.row, k.id)
             \/ Due(req[x].checks, "duplicate")
    BY <1>1, <1>2, <1>6 DEF StillOK, Unread
  <2>2. k.row.table \in Single /\ Head(req[x].checks) = "duplicate" => NotTwice(k.row, k.id)
    BY <1>2, <1>4 DEF Passes, Single
  <2> QED BY <1>3, <1>6, <2>1, <2>2 DEF StillOK, Checks
<1> QED BY <1>5, <1>6 DEF StillOK

\* The row that was read is there, and has its key or is still to be compared.
LEMMA ReadStill ==
  ASSUME TypeInv, RequestsOK, NEW x \in Callers, ReadItself(x), StillOK(req[x]),
         NEW k \in Requests, k.pc = "check", k.op = req[x].op, k.id = req[x].id,
         Live(k.id), k.id \in Ids, k.op # "insert",
         k.row = Merged(db[k.id], req[x].change), k.change = req[x].change,
         k.checks = Tail(req[x].checks) \o Further(db[k.id], req[x].change)
  PROVE  StillOK(k)
<1> SUFFICES ASSUME k.op = "save"
             PROVE  /\ ~Due(k.checks, "itself")
                    /\ k.row.table \in Single =>
                         Key(k.row) = Key(db[k.id]) \/ Due(k.checks, "duplicate")
  BY DEF StillOK
<1>1. /\ req[x] \in Requests /\ req[x].pc = "check" /\ RequestOK(req[x])
      /\ req[x].checks \in Seq(Checks) /\ req[x].checks # <<>>
      /\ Head(req[x].checks) = "itself" /\ req[x].change \in Changes
      /\ db \in [Ids -> Rows]
  BY DEF TypeInv, Requests, RequestsOK, ReadItself
<1>2. Due(req[x].checks, "itself") /\ Tail(req[x].checks) \in Seq(Checks)
  BY <1>1, Rest
<1>3. /\ ~Due(Tail(req[x].checks), "itself")
      /\ db[k.id].table = "signature" => Due(req[x].checks, "duplicate")
  BY <1>1, <1>2 DEF StillOK
<1>4. db[k.id].table = "signature" => Due(Tail(req[x].checks), "duplicate")
  BY <1>1, <1>3, Rest DEF Checks
<1>5. PICK t \in Seq(Checks) :
        /\ t = Further(db[k.id], k.change) /\ ~Due(t, "itself")
        /\ db[k.id].table = "mapping" /\ k.change.name \notin {None, db[k.id].name} =>
             Due(t, "duplicate")
  BY FurtherIs
<1>6. /\ ~Due(k.checks, "itself")
      /\ Due(Tail(req[x].checks), "duplicate") \/ Due(t, "duplicate") =>
           Due(k.checks, "duplicate")
  <2>1. PICK s \in Seq(Checks) : s = Tail(req[x].checks)
    BY <1>2
  <2>2. k.checks = s \o t
    BY <1>5, <2>1
  <2>3. \A c \in Checks : Due(s, c) \/ Due(t, c) <=> Due(s \o t, c)
    BY Behind
  <2> QED BY <1>3, <1>5, <2>1, <2>2, <2>3 DEF Checks
<1>7. PICK old \in Rows : old = db[k.id]
  BY <1>1
<1>8. PICK row \in Rows :
        /\ row = Merged(old, k.change)
        /\ row.table = old.table /\ row.channel = old.channel /\ row.provider = old.provider
        /\ row.name = Changed(old.name, k.change.name)
  BY <1>1, MergedIs
<1>9. ASSUME k.row.table \in Single
      PROVE  Key(k.row) = Key(db[k.id]) \/ Due(k.checks, "duplicate")
  <2>1. k.row = row /\ old.table \in Single /\ old.table \in Saved
    BY <1>1, <1>7, <1>8, <1>9 DEF RequestOK, SaveOK
  <2>2. CASE row.name = old.name
    BY <1>7, <1>8, <2>1, <2>2, SavedKeys DEF Saved
  <2>3. CASE row.name # old.name
    <3>1. k.change.name \notin {None, old.name}
      BY <1>8, <2>3 DEF Changed
    <3>2. old.table # "template"
      BY <1>1, <1>7, <3>1 DEF RequestOK, SaveOK
    <3> QED BY <1>4, <1>5, <1>6, <1>7, <2>1, <3>1, <3>2 DEF Single, Saved
  <2> QED BY <2>2, <2>3
<1> QED BY <1>6, <1>9

\* Whether rows are there twice does not get worse when they change in place.
LEMMA SlightSingle ==
  ASSUME Slight, TidyOK
  PROVE  \A i \in Ids : \A j \in Ids \ {i} :
           /\ db'[i].table \in Single /\ db'[j].table = db'[i].table
           /\ db'[i].live /\ db'[j].live
           => Key(db'[i]) # Key(db'[j])
<1> SUFFICES ASSUME NEW i \in Ids, NEW j \in Ids \ {i},
                    db'[i].table \in Single, db'[j].table = db'[i].table,
                    db'[i].live, db'[j].live
             PROVE  Key(db'[i]) # Key(db'[j])
  OBVIOUS
<1>1. Key(db'[i]) = Key(db[i]) /\ Key(db'[j]) = Key(db[j])
  BY KeysAlike DEF Slight
<1>2. /\ db[i].table \in Single /\ db[j].table = db[i].table
      /\ db[i].live /\ db[j].live
  BY DEF Slight
<1> QED BY <1>1, <1>2 DEF TidyOK, Live

\* A deletion leaves no binding of a deleted channel: a channel goes after its
\* bindings.
LEMMA DeleteTidy ==
  ASSUME TypeInv, RowsOK, TidyOK, NEW S, db' = Without(S),
         \A c \in S \cap Of("channel") : BindingsOf(c) = {}
  PROVE  TidyOK'
<1>1. Slight /\ db \in [Ids -> Rows]
  BY WithoutIsSlight DEF TypeInv
<1>2. ASSUME NEW b \in Of("binding")', Live(b)'
      PROVE  Live(db[b].channel)'
  <2>1. /\ b \in Of("binding") /\ Live(b) /\ db'[b].channel = db[b].channel
        /\ db[b].channel \in Of("channel") /\ db[b].channel \in Ids
    BY <1>1, <1>2 DEF Slight, Of, Live, RowsOK, RowOK, Bound
  <2>2. Live(db[b].channel)
    BY <2>1 DEF TidyOK
  <2>3. db[b].channel \notin S
    BY <2>1 DEF BindingsOf
  <2>4. db'[db[b].channel] = db[db[b].channel]
    BY <2>1, <2>3 DEF Without
  <2> QED BY <2>1, <2>2, <2>4 DEF Live
<1> QED BY <1>1, <1>2, SlightSingle DEF TidyOK, Live

\* So does a change of the state.
LEMMA ColumnsTidy ==
  ASSUME TypeInv, RowsOK, TidyOK, NEW c \in Ids, NEW change, change.on \in BOOLEAN,
         db' = Columns(c, change)
  PROVE  TidyOK'
<1>1. Slight /\ db \in [Ids -> Rows]
  BY ColumnsAreSlight DEF TypeInv
<1>2. \A i \in Ids : db'[i].live = db[i].live
  <2>1. PICK row : row = [db[c] EXCEPT !.on = change.on]
    OBVIOUS
  <2>2. row.live = db[c].live
    <3>1. db[c] \in Rows
      BY <1>1
    <3> QED BY <2>1, <3>1 DEF Rows
  <2>3. db' = db \/ db' = [db EXCEPT ![c] = row]
    BY <2>1 DEF Columns
  <2> QED BY <1>1, <2>2, <2>3
<1>3. ASSUME NEW b \in Of("binding")', Live(b)'
      PROVE  Live(db[b].channel)'
  <2>1. /\ b \in Of("binding") /\ Live(b) /\ db'[b].channel = db[b].channel
        /\ db[b].channel \in Ids
    BY <1>1, <1>2, <1>3 DEF Slight, Of, Live, RowsOK, RowOK, Bound
  <2>2. Live(db[b].channel)
    BY <2>1 DEF TidyOK
  <2> QED BY <1>2, <2>1, <2>2 DEF Live
<1> QED BY <1>1, <1>3, SlightSingle DEF TidyOK, Live

\* What was checked just before makes the row that is written fit.
LEMMA WrittenTidy ==
  ASSUME TypeInv, RowsOK, RequestsOK, TidyOK, NEW x \in Callers, NEW n \in Ids,
         Written(x, n), StillOK(req[x])
  PROVE  TidyOK'
<1>1. /\ db \in [Ids -> Rows] /\ req[x] \in Requests /\ RequestOK(req[x])
      /\ req[x].pc = "check" /\ req[x].checks = <<>>
      /\ \A c \in Checks : ~Due(req[x].checks, c)
      /\ ~Unread(req[x].checks) /\ None \notin Ids /\ None \notin Tables
  BY NamesAssumption DEF TypeInv, RequestsOK, Written, Ready, Due, Unread
<1>2. PICK row \in Rows : row = req[x].row
  BY <1>1 DEF Requests
<1>3. \A i \in Ids : db'[i] = IF i = n THEN row ELSE db[i]
  BY <1>1, <1>2 DEF Written
<1>4. /\ row.table \in Single /\ row.live =>
           \A j \in Ids \ {n} : Live(j) /\ db[j].table = row.table => Key(row) # Key(db[j])
      /\ row.table = "binding" /\ row.live => Live(row.channel) /\ row.channel \in Of("channel")
      /\ db[n].table # "channel"
  <2>1. CASE Ready(x, "insert") /\ db[n].table = None
    <3>1. /\ row.table \in Single => NotTwice(row, None)
          /\ row.table = "binding" => Live(row.channel) /\ row.channel \in Of("channel")
      BY <1>1, <1>2, <2>1 DEF StillOK, RequestOK, InsertOK, Bound, Ready, Checks
    <3>2. row.table \in Single =>
            \A j \in Ids \ {n} : Live(j) /\ db[j].table = row.table => Key(row) # Key(db[j])
      BY <1>1, <3>1 DEF NotTwice, Of
    <3> QED BY <1>1, <2>1, <3>1, <3>2 DEF Tables
  <2>2. CASE Ready(x, "save") /\ n = req[x].id
    <3>1. /\ Live(n) /\ row.table = db[n].table /\ row.table \in Saved
          /\ row.table \in Single => Key(row) = Key(db[n]) \/ NotTwice(row, n)
      BY <1>1, <1>2, <2>2 DEF StillOK, RequestOK, SaveOK, ReadOK, Ready, Checks
    <3>2. ASSUME row.table \in Single
          PROVE  \A j \in Ids \ {n} :
                   Live(j) /\ db[j].table = row.table => Key(row) # Key(db[j])
      <4>1. CASE NotTwice(row, n)
        BY <4>1 DEF NotTwice, Of
      <4>2. CASE Key(row) = Key(db[n])
        BY <3>1, <3>2, <4>2 DEF TidyOK
      <4> QED BY <3>1, <3>2, <4>1, <4>2
    <3> QED BY <3>1, <3>2 DEF Saved
  <2> QED BY <2>1, <2>2 DEF Written
<1>5. ASSUME NEW i \in Ids, NEW j \in Ids \ {i},
             db'[i].table \in Single, db'[j].table = db'[i].table, db'[i].live, db'[j].live
      PROVE  Key(db'[i]) # Key(db'[j])
  <2>1. CASE i = n
    BY <1>3, <1>4, <1>5, <2>1 DEF Live
  <2>2. CASE j = n
    BY <1>3, <1>4, <1>5, <2>2 DEF Live
  <2>3. CASE i # n /\ j # n
    BY <1>3, <1>5, <2>3 DEF TidyOK, Live
  <2> QED BY <2>1, <2>2, <2>3
<1>6. ASSUME NEW b \in Of("binding")', Live(b)'
      PROVE  Live(db[b].channel)'
  <2>1. CASE b = n
    <3>1. row.table = "binding" /\ row.live /\ db'[b] = row
      BY <1>3, <1>6, <2>1 DEF Of, Live
    <3>2. row.channel \in Ids /\ Live(row.channel) /\ row.channel # n
      BY <1>4, <3>1 DEF Of
    <3> QED BY <1>3, <3>1, <3>2 DEF Live
  <2>2. CASE b # n
    <3>1. b \in Of("binding") /\ Live(b) /\ db'[b] = db[b]
      BY <1>3, <1>6, <2>2 DEF Of, Live
    <3>2. db[b].channel \in Of("channel") /\ Live(db[b].channel)
      BY <3>1 DEF TidyOK, RowsOK, RowOK, Bound, Of
    <3>3. db[b].channel \in Ids /\ db[b].channel # n
      BY <1>4, <3>2 DEF Of
    <3> QED BY <1>3, <3>1, <3>2, <3>3 DEF Live
  <2> QED BY <2>1, <2>2
<1> QED BY <1>5, <1>6 DEF TidyOK, Live

\* A write of the only request.
LEMMA WriteTidy ==
  ASSUME DataInv, TidyOK, NEW x \in Callers, StillOK(req[x]),
         \/ Insert(x) \/ Save(x) \/ UpdateColumns(x) \/ DeleteRow(x) \/ DeleteBindings(x)
         \/ CommitChannel(x)
  PROVE  TidyOK'
<1>1. /\ TypeInv /\ RowsOK /\ RequestsOK /\ RequestOK(req[x]) /\ db \in [Ids -> Rows]
      /\ None \notin Ids
  BY NamesAssumption DEF DataInv, RequestsOK, TypeInv
<1>2. CASE db' = db
  BY <1>2, TidySame
<1>3. CASE Insert(x) /\ db' # db
  <2>1. /\ Ready(x, "insert") /\ Of(None) # {} /\ ~Taken(req[x].row)
        /\ db' = [db EXCEPT ![NewId] = req[x].row]
    BY <1>3 DEF Insert, Fails
  <2>2. NewId \in Ids /\ Written(x, NewId)
    BY <2>1, NewIdIs DEF Written
  <2> QED BY <1>1, <2>2, WrittenTidy
<1>4. CASE Save(x) /\ db' # db
  <2>1. Ready(x, "save") /\ db' = [db EXCEPT ![req[x].id] = req[x].row]
    BY <1>4 DEF Save, Fails
  <2>2. req[x].id \in Ids /\ Written(x, req[x].id)
    BY <1>1, <2>1 DEF RequestOK, SaveOK, Ready, Written
  <2> QED BY <1>1, <2>2, WrittenTidy
<1>5. CASE UpdateColumns(x) /\ db' # db
  <2>1. Ready(x, "columns") /\ db' = Columns(req[x].id, req[x].change)
    BY <1>5 DEF UpdateColumns, Fails
  <2>2. req[x].id \in Ids /\ req[x].change.on \in BOOLEAN
    BY <1>1, <2>1 DEF RequestOK, TouchOK, Ready
  <2> QED BY <1>1, <2>1, <2>2, ColumnsTidy
<1>6. CASE DeleteRow(x) /\ db' # db
  <2>1. Ready(x, "delete") /\ db' = Without({req[x].id})
    BY <1>6 DEF DeleteRow, Fails
  <2>2. req[x].id \in Ids /\ db[req[x].id].table # "channel"
    BY <1>1, <2>1 DEF RequestOK, TouchOK, Ready
  <2>3. \A c \in {req[x].id} \cap Of("channel") : BindingsOf(c) = {}
    BY <2>2 DEF Of
  <2> QED BY <1>1, <2>1, <2>3, DeleteTidy
<1>7. CASE DeleteBindings(x) /\ db' # db
  <2>1. db' = Without(BindingsOf(req[x].id))
    BY <1>7 DEF DeleteBindings, Fails
  <2>2. \A c \in BindingsOf(req[x].id) \cap Of("channel") : BindingsOf(c) = {}
    BY DEF BindingsOf, Of
  <2> QED BY <1>1, <2>1, <2>2, DeleteTidy
<1>8. CASE CommitChannel(x) /\ db' # db
  <2>1. req[x].pc = "commit" /\ db' = Without({req[x].id})
    BY <1>8 DEF CommitChannel, Fails
  <2>2. BindingsOf(req[x].id) = {}
    BY <2>1 DEF StillOK
  <2>3. \A c \in {req[x].id} \cap Of("channel") : BindingsOf(c) = {}
    BY <2>2
  <2> QED BY <1>1, <2>1, <2>3, DeleteTidy
<1> QED BY <1>2, <1>3, <1>4, <1>5, <1>6, <1>7, <1>8

\* Of the others there is nothing that could have become wrong.
LEMMA StillIdle ==
  ASSUME NEW k, RequestOK(k), k.op \in {None, "evaluate"}
  PROVE  StillOK(k)'
BY NamesAssumption DEF StillOK, RequestOK, Ops

LEMMA OverlappedStays ==
  ASSUME TypeInv, [Next]_vars, overlapped
  PROVE  overlapped'
<1>1. CASE UNCHANGED vars
  BY <1>1 DEF vars
<1>2. ASSUME NEW x \in Callers, Channels(x) \/ Accounts(x) \/ Others(x)
      PROVE  overlapped'
  <2>1. overlapped' = (overlapped \/ \E y \in Callers : Active(y))
    BY <1>2, StartIs
  <2> QED BY <2>1
<1>3. ASSUME NEW x \in Callers, Statement(x)
      PROVE  overlapped'
  <2>1. UNCHANGED overlapped
    BY <1>3 DEF Statement, Check, ReadItself, Insert, Save, UpdateColumns, DeleteRow,
       DeleteBindings, CommitChannel, Refresh, Look, Decide, Lock, ReadRules, KeepRules
  <2> QED BY <2>1
<1> QED BY <1>1, <1>2, <1>3 DEF Next

\* The steps that leave the rows and end no check.
LEMMA OtherSteps ==
  ASSUME TypeInv, NEW x \in Callers,
         Refresh(x) \/ Look(x) \/ Decide(x) \/ Lock(x) \/ ReadRules(x) \/ KeepRules(x)
  PROVE  /\ db' = db
         /\ \E k \in Requests : /\ Goes(x, k) /\ k.pc \notin {"check", "commit"}
                                /\ k.op \in {None, req[x].op}
<1>1. db' = db
  BY DEF Refresh, Look, Decide, Lock, ReadRules, KeepRules
<1>2. CASE Refresh(x) \/ Look(x) \/ Decide(x)
  BY <1>1, <1>2, WaitIs
<1>3. CASE Lock(x)
  BY <1>1, <1>3, LockIs
<1>4. CASE (ReadRules(x) \/ KeepRules(x)) /\ Onward(x)
  <2>1. req[x].pc \in {"read", "keep"}
    BY <1>4 DEF ReadRules, KeepRules
  <2>2. \E k \in Requests : /\ Goes(x, k) /\ k.pc \in {"decide", "idle", "read"}
                            /\ k.op \in {None, req[x].op}
    BY <1>4, <2>1, OnwardIs
  <2> QED BY <1>1, <2>2
<1>5. CASE ReadRules(x) /\ ~Onward(x)
  BY <1>1, <1>5, ReadRulesIs
<1> QED BY <1>2, <1>3, <1>4, <1>5 DEF KeepRules

LEMMA AloneStep ==
  ASSUME DataInv, AloneOK, [Next]_vars
  PROVE  AloneOK'
<1> SUFFICES ASSUME ~overlapped'
             PROVE  /\ \A x, y \in Callers : Active(x)' /\ Active(y)' => x = y
                    /\ TidyOK'
                    /\ \A x \in Callers : StillOK(req[x])'
  BY DEF AloneOK
<1>1. /\ TypeInv /\ RowsOK /\ RequestsOK /\ req \in [Callers -> Requests]
      /\ \A y \in Callers : RequestOK(req[y])
      /\ None \notin Ops
  BY NamesAssumption DEF DataInv, TypeInv, RequestsOK
<1>2. /\ ~overlapped /\ TidyOK
      /\ \A x, y \in Callers : Active(x) /\ Active(y) => x = y
      /\ \A x \in Callers : StillOK(req[x])
  BY <1>1, OverlappedStays DEF AloneOK
<1>3. CASE UNCHANGED vars
  <2>1. db' = db /\ req' = req
    BY <1>3 DEF vars
  <2>2. \A x \in Callers : StillOK(req[x])'
    <3> SUFFICES ASSUME NEW x \in Callers PROVE StillOK(req[x])'
      OBVIOUS
    <3>1. PICK k : k = req[x]
      OBVIOUS
    <3>2. StillOK(k)'
      BY <1>2, <2>1, <3>1, StillSame
    <3> QED BY <2>1, <3>1, <3>2
  <2> QED BY <1>2, <2>1, <2>2, TidySame DEF Active
\* One caller moves; what it becomes and what the others are still holds.
<1>4. ASSUME NEW x \in Callers, NEW k \in Requests, Goes(x, k), StillOK(k)', TidyOK',
             k.op \in {None, req[x].op} \/ (\A y \in Callers : ~Active(y)),
             db' = db \/ Active(x)
      PROVE  /\ \A y, z \in Callers : Active(y)' /\ Active(z)' => y = z
             /\ TidyOK'
             /\ \A y \in Callers : StillOK(req[y])'
  <2>1. \A y \in Callers : req'[y] = IF y = x THEN k ELSE req[y]
    BY <1>1, <1>4 DEF Goes
  <2>2. \A y, z \in Callers : Active(y)' /\ Active(z)' => y = z
    BY <1>2, <1>4, <2>1 DEF Active
  <2>3. ASSUME NEW y \in Callers
        PROVE  StillOK(req[y])'
    <3>1. PICK q : q = req'[y]
      OBVIOUS
    <3>2. CASE y = x
      BY <1>4, <2>1, <3>1, <3>2
    <3>3. CASE y # x /\ db' = db
      BY <1>2, <2>1, <3>1, <3>3, StillSame
    <3>4. CASE y # x /\ Active(x)
      <4>1. q = req[y] /\ q.op \in {None, "evaluate"} /\ RequestOK(q)
        BY <1>1, <1>2, <2>1, <3>1, <3>4 DEF Active
      <4>2. StillOK(q)'
        BY <4>1, StillIdle
      <4> QED BY <3>1, <4>2
    <3> QED BY <1>4, <3>2, <3>3, <3>4
  <2> QED BY <1>4, <2>2, <2>3
<1>5. ASSUME NEW x \in Callers, Channels(x) \/ Accounts(x) \/ Others(x)
      PROVE  /\ \A y, z \in Callers : Active(y)' /\ Active(z)' => y = z
             /\ TidyOK'
             /\ \A y \in Callers : StillOK(req[y])'
  <2>1. PICK k \in Requests :
          /\ Goes(x, k) /\ k.pc = "check"
          /\ Begun(k.op, k.id, k.row, k.change, k.checks) /\ db' = db
          /\ overlapped' = (overlapped \/ \E y \in Callers : Active(y))
    BY <1>1, <1>5, StartIs
  <2>2. \A y \in Callers : ~Active(y)
    BY <2>1
  <2>3. StillOK(k)'
    BY <2>1, BegunStill, StillSame
  <2> QED BY <1>2, <1>4, <2>1, <2>2, <2>3, TidySame
<1>6. ASSUME NEW x \in Callers, Statement(x)
      PROVE  /\ \A y, z \in Callers : Active(y)' /\ Active(z)' => y = z
             /\ TidyOK'
             /\ \A y \in Callers : StillOK(req[y])'
  <2>1. CASE Check(x)
    <3>1. PICK k \in Requests :
            /\ Goes(x, k) /\ k.pc \in {"idle", "check"} /\ k.op \in {None, req[x].op}
            /\ k.pc = "check" => k = [req[x] EXCEPT !.checks = Tail(@)]
      BY <1>1, <2>1, CheckIs
    <3>2. db' = db
      BY <2>1 DEF Check
    <3>3. StillOK(k)
      <4>1. CASE k.pc = "check"
        BY <1>1, <1>2, <2>1, <3>1, <4>1, CheckStill
      <4>2. CASE k.pc = "idle"
        BY <4>2 DEF StillOK
      <4> QED BY <3>1, <4>1, <4>2
    <3> QED BY <1>2, <1>4, <3>1, <3>2, <3>3, StillSame, TidySame
  <2>2. CASE ReadItself(x)
    <3>1. PICK k \in Requests :
           /\ Goes(x, k) /\ k.pc \in {"idle", "check"} /\ k.op \in {None, req[x].op}
           /\ k.pc = "check" =>
                /\ Live(req[x].id) /\ req[x].id \in Ids /\ k.id = req[x].id
                /\ k.row = Merged(db[k.id], req[x].change) /\ k.change = req[x].change
                /\ k.checks = Tail(req[x].checks) \o Further(db[k.id], req[x].change)
                /\ k.op # "insert"
      BY <1>1, <2>2, ReadIs
    <3>2. db' = db
      BY <2>2 DEF ReadItself
    <3>3. StillOK(k)
      <4>1. CASE k.pc = "check" /\ k.op = req[x].op
        BY <1>1, <1>2, <2>2, <3>1, <4>1, ReadStill
      <4>2. CASE k.pc = "idle" \/ k.op = None
        BY <1>1, <3>1, <4>2 DEF StillOK, Ops
      <4> QED BY <3>1, <4>1, <4>2
    <3> QED BY <1>2, <1>4, <3>1, <3>2, <3>3, StillSame, TidySame
  <2>3. CASE \/ Insert(x) \/ Save(x) \/ UpdateColumns(x) \/ DeleteRow(x) \/ DeleteBindings(x)
             \/ CommitChannel(x)
    <3>1. PICK k \in Requests :
           /\ Goes(x, k) /\ k.pc \in {"idle", "lock", "commit"}
           /\ k.op \in {None, req[x].op} /\ Active(x)
           /\ k.pc = "commit" => db' = Without(BindingsOf(k.id))
      BY <1>1, <2>3, WriteIs
    <3>2. TidyOK'
      BY <1>2, <2>3, WriteTidy
    <3>3. StillOK(k)'
      <4>1. CASE k.pc = "commit"
        <5>1. BindingsOf(k.id)' = {}
          <6> SUFFICES ASSUME NEW b \in BindingsOf(k.id)' PROVE FALSE
            OBVIOUS
          <6>1. /\ b \in Ids /\ db'[b].table = "binding" /\ db'[b].live
                /\ db'[b].channel = k.id
            BY DEF BindingsOf, Of, Live
          <6>2. Slight
            BY <1>1, <3>1, <4>1, WithoutIsSlight DEF TypeInv
          <6>3. b \in BindingsOf(k.id)
            BY <6>1, <6>2 DEF Slight, BindingsOf, Of, Live
          <6>4. db'[b] = [db[b] EXCEPT !.live = FALSE]
            BY <3>1, <4>1, <6>1, <6>3 DEF Without
          <6>5. db[b] \in Rows
            BY <1>1, <6>1 DEF TypeInv
          <6>6. ~db'[b].live
            BY <6>4, <6>5 DEF Rows
          <6> QED BY <6>1, <6>6
        <5> QED BY <4>1, <5>1 DEF StillOK
      <4>2. CASE k.pc # "commit"
        BY <3>1, <4>2 DEF StillOK
      <4> QED BY <4>1, <4>2
    <3> QED BY <1>4, <3>1, <3>2, <3>3
  <2>4. CASE Refresh(x) \/ Look(x) \/ Decide(x) \/ Lock(x) \/ ReadRules(x) \/ KeepRules(x)
    <3>1. PICK k \in Requests : /\ Goes(x, k) /\ k.pc \notin {"check", "commit"}
                                /\ k.op \in {None, req[x].op}
      BY <1>1, <2>4, OtherSteps
    <3>2. db' = db /\ StillOK(k)'
      BY <1>1, <2>4, <3>1, OtherSteps DEF StillOK
    <3> QED BY <1>2, <1>4, <3>1, <3>2, TidySame
  <2> QED BY <1>6, <2>1, <2>2, <2>3, <2>4 DEF Statement
<1> QED BY <1>3, <1>5, <1>6 DEF Next

LEMMA InitAlone ==
  ASSUME Init
  PROVE  AloneOK
<1>1. /\ db \in [Ids -> Rows] /\ Blank.table = None /\ None \notin Tables
      /\ \A i \in Ids : db[i] = IF i \in DOMAIN Seed THEN Seed[i] ELSE Blank
      /\ DOMAIN Seed \subseteq Ids
  BY InitTypes, NamesAssumption, SeedAssumption DEF Init, TypeInv, Blank
<1>2. \A x \in Callers : ~Active(x) /\ StillOK(req[x])
  BY IdleOK DEF Init, Active, StillOK
<1>3. ASSUME NEW i \in Ids, NEW j \in Ids \ {i}, db[i].table \in Single,
             db[j].table = db[i].table, Live(i), Live(j)
      PROVE  Key(db[i]) # Key(db[j])
  <2>1. i \in DOMAIN Seed /\ j \in DOMAIN Seed /\ db[i] = Seed[i] /\ db[j] = Seed[j]
    BY <1>1, <1>3 DEF Single, Tables
  <2> QED BY <1>3, <2>1, SeedAssumption DEF Single, Live
<1>4. ASSUME NEW b \in Of("binding"), Live(b)
      PROVE  Live(db[b].channel)
  <2>1. b \in DOMAIN Seed /\ db[b] = Seed[b] /\ db[b].table = "binding"
    BY <1>1, <1>4 DEF Of, Tables
  <2>2. db[b].channel \in DOMAIN Seed /\ Seed[db[b].channel].live
    BY <1>4, <2>1, SeedAssumption DEF Live
  <2> QED BY <1>1, <2>2 DEF Live
<1> QED BY <1>2, <1>3, <1>4 DEF AloneOK, TidyOK

LEMMA AloneHolds == Spec => [](DataInv /\ AloneOK)
<1>1. Init => DataInv /\ AloneOK
  BY InitTypes, InitRows, InitAlone DEF DataInv
<1>2. DataInv /\ AloneOK /\ [Next]_vars => (DataInv /\ AloneOK)'
  BY DataStep, AloneStep
<1> QED BY <1>1, <1>2, PTL DEF Spec

\* No two users have ever one name; and as long as one request runs at a time no
\* binding, mapping, template or signature is there twice, deletions of the one
\* and updates of the other included.
THEOREM NoDuplicatesHolds == Spec => []NoDuplicates
<1>1. DataInv /\ AloneOK => NoDuplicates
  <2> SUFFICES ASSUME DataInv, AloneOK, NEW i \in Ids, NEW j \in Ids \ {i}
               PROVE  /\ db[i].table = "user" /\ db[j].table = "user" =>
                           db[i].name # db[j].name
                      /\ /\ db[i].table \in {"binding", "mapping", "template", "signature"}
                         /\ db[j].table = db[i].table /\ Live(i) /\ Live(j) /\ ~overlapped
                         => Key(db[i]) # Key(db[j])
    BY DEF NoDuplicates
  <2>1. db[i].table = "user" /\ db[j].table = "user" => db[i].name # db[j].name
    BY DEF DataInv, UsersOK
  <2>2. ~overlapped => TidyOK
    BY DEF AloneOK
  <2> QED BY <2>1, <2>2 DEF TidyOK, Single
<1> QED BY <1>1, AloneHolds, PTL

\* As long as one request runs at a time, a channel that is deleted has no
\* binding left, and no binding comes to a channel that is gone.
THEOREM NoOrphansHolds == Spec => []NoOrphans
<1>1. DataInv /\ AloneOK => NoOrphans
  BY DEF AloneOK, TidyOK, NoOrphans
<1> QED BY <1>1, AloneHolds, PTL

\* As long as one request runs at a time no write brings back what was deleted.
THEOREM DeletedForGoodHolds == Spec => DeletedForGood
<1> DEFINE Good == overlapped' \/ \A i \in Ids : db[i].table # None /\ ~Live(i) => ~db'[i].live
<1>1. DataInv /\ AloneOK /\ [Next]_vars => [Good]_vars
  <2> SUFFICES ASSUME DataInv, AloneOK, [Next]_vars
               PROVE  Good
    OBVIOUS
  <2>1. TypeInv /\ RequestsOK /\ db \in [Ids -> Rows]
    BY DEF DataInv, TypeInv
  <2>2. CASE overlapped
    BY <2>1, <2>2, OverlappedStays
  <2>3. CASE Slight
    BY <2>3 DEF Slight, Live
  <2>4. ASSUME ~overlapped, NEW x \in Callers, NEW n \in Ids, Written(x, n)
        PROVE  Good
    <3>1. \A i \in Ids \ {n} : db'[i] = db[i]
      BY <2>1, <2>4 DEF Written
    <3>2. db[n].table = None \/ Live(n)
      <4>1. CASE Ready(x, "save") /\ n = req[x].id
        <5>1. StillOK(req[x]) /\ ~Unread(req[x].checks)
          BY <2>4, <4>1 DEF AloneOK, Ready, Unread
        <5> QED BY <4>1, <5>1 DEF StillOK, Ready
      <4> QED BY <2>4, <4>1 DEF Written
    <3> QED BY <3>1, <3>2 DEF Live
  <2> QED BY <2>1, <2>2, <2>3, <2>4, RowSteps
<1> QED BY <1>1, AloneHolds, PTL DEF Spec, DeletedForGood

-----------------------------------------------------------------------------
(* The cache of the rules                                                    *)

\* A step that has nothing to do with the mutex, but may change the rules.
LEMMA QuietCache ==
  ASSUME TypeInv, LockOK, FreshOK, NEW x \in Callers, NEW k \in Requests, Goes(x, k),
         req[x].pc \notin {"lock", "read", "keep"}, k.pc \notin {"read", "keep"},
         UNCHANGED <<cache, lock, missed>>,
         \/ UNCHANGED <<writes, wrote>>
         \/ /\ k.pc = "lock" /\ writes' = writes + 1
            /\ wrote' = [wrote EXCEPT ![Home[x]] = writes + 1]
  PROVE  LockOK' /\ FreshOK'
<1>1. /\ req \in [Callers -> Requests] /\ Home \in [Callers -> Replicas]
      /\ wrote \in [Replicas -> Nat] /\ writes \in Nat
  BY NamesAssumption DEF TypeInv
<1>2. \A y \in Callers : req'[y] = IF y = x THEN k ELSE req[y]
  BY <1>1 DEF Goes
<1>3. LockOK'
  BY <1>2 DEF LockOK
<1>4. \A y \in Callers : \A s : Refreshes(y, s) => Refreshes(y, s)'
  BY <1>2 DEF Refreshes
<1>5. \A h \in Replicas : wrote'[h] = wrote[h] \/ (h = Home[x] /\ k.pc = "lock")
  BY <1>1
<1>6. ASSUME NEW h \in Replicas
      PROVE  wrote'[h] <= writes'
  <2>1. wrote[h] <= writes /\ wrote[h] \in Nat
    BY <1>1 DEF FreshOK
  <2> QED BY <1>1, <2>1
<1>7. ASSUME NEW h \in Replicas, NEW s \in Scenes
      PROVE  \/ cache'[h][s].at >= wrote'[h]
             \/ h \in missed'
             \/ \E y \in Callers : Home[y] = h /\ Refreshes(y, s)'
  <2>1. CASE wrote'[h] = wrote[h]
    BY <1>4, <2>1 DEF FreshOK
  <2>2. CASE h = Home[x] /\ k.pc = "lock"
    BY <1>2, <2>2 DEF Refreshes
  <2> QED BY <1>5, <2>1, <2>2
<1>8. ASSUME NEW y \in Callers, req'[y].pc = "keep"
      PROVE  \/ req'[y].read >= wrote'[Home[y]]
             \/ \E z \in Callers : Home[z] = Home[y] /\ req'[z].pc = "lock"
  <2>1. y # x /\ req'[y] = req[y] /\ Home[y] \in Replicas
    BY <1>1, <1>2, <1>8
  <2>2. CASE wrote'[Home[y]] = wrote[Home[y]]
    <3>1. \/ req[y].read >= wrote[Home[y]]
          \/ \E z \in Callers : Home[z] = Home[y] /\ req[z].pc = "lock"
      BY <1>8, <2>1 DEF FreshOK
    <3>2. \A z \in Callers : req[z].pc = "lock" => req'[z].pc = "lock"
      BY <1>2
    <3> QED BY <2>1, <2>2, <3>1, <3>2
  <2>3. CASE Home[y] = Home[x] /\ k.pc = "lock"
    BY <1>2, <2>3
  <2> QED BY <1>5, <2>1, <2>2, <2>3
<1> QED BY <1>3, <1>6, <1>7, <1>8 DEF FreshOK

\* Locking: who refreshes next has not read anything yet, and nobody else has.
LEMMA LockCache ==
  ASSUME TypeInv, LockOK, FreshOK, NEW x \in Callers, Lock(x)
  PROVE  LockOK' /\ FreshOK'
<1>1. /\ req \in [Callers -> Requests] /\ Home \in [Callers -> Replicas]
      /\ lock \in [Replicas -> Callers \cup {None}] /\ None \notin Callers
  BY NamesAssumption DEF TypeInv
<1>2. PICK k \in Requests :
        /\ Goes(x, k) /\ k.pc = "read"
        /\ k.scenes = <<"send_failure", "callback_failure">>
        /\ req[x].pc = "lock" /\ Free(Home[x]) /\ lock' = [lock EXCEPT ![Home[x]] = x]
        /\ UNCHANGED <<db, cache, missed, writes, wrote, overlapped, requests, faults>>
  BY LockIs
<1>3. \A y \in Callers : req'[y] = IF y = x THEN k ELSE req[y]
  BY <1>1, <1>2 DEF Goes
<1>4. \A y \in Callers : lock'[Home[y]] = IF Home[y] = Home[x] THEN x ELSE lock[Home[y]]
  BY <1>1, <1>2
<1>5. \A y \in Callers : Home[y] = Home[x] => req[y].pc \notin {"read", "keep"}
  BY <1>1, <1>2 DEF LockOK, Free
<1>6. LockOK'
  <2> SUFFICES ASSUME NEW y \in Callers
               PROVE  req'[y].pc \in {"read", "keep"} <=> lock'[Home[y]] = y
    BY DEF LockOK
  <2>1. CASE y = x
    BY <1>2, <1>3, <1>4, <2>1
  <2>2. CASE y # x /\ Home[y] = Home[x]
    BY <1>3, <1>4, <1>5, <2>2
  <2>3. CASE y # x /\ Home[y] # Home[x]
    BY <1>3, <1>4, <2>3 DEF LockOK
  <2> QED BY <2>1, <2>2, <2>3
<1>7. \A y \in Callers : \A s \in Scenes : Refreshes(y, s) => Refreshes(y, s)'
  <2> SUFFICES ASSUME NEW y \in Callers, NEW s \in Scenes, Refreshes(y, s)
               PROVE  Refreshes(y, s)'
    OBVIOUS
  <2>1. CASE y = x
    <3>1. k.scenes[1] = "send_failure" /\ k.scenes[2] = "callback_failure" /\ Len(k.scenes) = 2
      BY <1>2
    <3>2. \E n \in 1 .. Len(k.scenes) : k.scenes[n] = s
      BY <3>1 DEF Scenes
    <3> QED BY <1>2, <1>3, <2>1, <3>2 DEF Refreshes
  <2>2. CASE y # x
    BY <1>3, <2>2 DEF Refreshes
  <2> QED BY <2>1, <2>2
<1>8. ASSUME NEW y \in Callers, req'[y].pc = "keep"
      PROVE  \/ req'[y].read >= wrote'[Home[y]]
             \/ \E z \in Callers : Home[z] = Home[y] /\ req'[z].pc = "lock"
  <2>1. y # x /\ req'[y] = req[y]
    BY <1>2, <1>3, <1>8
  <2>2. Home[y] # Home[x]
    BY <1>5, <1>8, <2>1
  <2>3. \/ req[y].read >= wrote[Home[y]]
        \/ \E z \in Callers : Home[z] = Home[y] /\ req[z].pc = "lock"
    BY <1>8, <2>1 DEF FreshOK
  <2> QED BY <1>2, <1>3, <2>1, <2>2, <2>3
<1> QED BY <1>2, <1>6, <1>7, <1>8 DEF FreshOK

\* A list was read: nothing was written since.
LEMMA ReadCache ==
  ASSUME TypeInv, LockOK, FreshOK, NEW x \in Callers, NEW k \in Requests, Goes(x, k),
         k.pc = "keep", k.scenes = req[x].scenes, k.read = writes, req[x].pc = "read",
         UNCHANGED <<cache, lock, missed, writes, wrote>>
  PROVE  LockOK' /\ FreshOK'
<1>1. /\ req \in [Callers -> Requests] /\ Home \in [Callers -> Replicas]
      /\ wrote \in [Replicas -> Nat] /\ writes \in Nat
  BY NamesAssumption DEF TypeInv
<1>2. \A y \in Callers : req'[y] = IF y = x THEN k ELSE req[y]
  BY <1>1 DEF Goes
<1>3. LockOK'
  BY <1>2 DEF LockOK
<1>4. \A y \in Callers : \A s : Refreshes(y, s) => Refreshes(y, s)'
  BY <1>2 DEF Refreshes
<1>5. ASSUME NEW y \in Callers, req'[y].pc = "keep"
      PROVE  \/ req'[y].read >= wrote'[Home[y]]
             \/ \E z \in Callers : Home[z] = Home[y] /\ req'[z].pc = "lock"
  <2>1. CASE y = x
    <3>1. wrote[Home[x]] <= writes /\ wrote[Home[x]] \in Nat
      BY <1>1 DEF FreshOK
    <3> QED BY <1>1, <1>2, <2>1, <3>1
  <2>2. CASE y # x
    BY <1>2, <1>5, <2>2 DEF FreshOK
  <2> QED BY <2>1, <2>2
<1> QED BY <1>3, <1>4, <1>5 DEF FreshOK

\* On to the next scene, when the one is in the cache or could not be read.
LEMMA OnwardCache ==
  ASSUME TypeInv, LockOK, FreshOK, NEW x \in Callers, Onward(x),
         req[x].pc \in {"read", "keep"}, UNCHANGED <<writes, wrote>>, missed \subseteq missed',
         NEW s \in Scenes, s = Head(req[x].scenes),
         \A h \in Replicas : \A t \in Scenes \ {s} : cache'[h][t].at = cache[h][t].at,
         \A h \in Replicas \ {Home[x]} : cache'[h][s].at = cache[h][s].at,
         \/ Home[x] \in missed'
         \/ cache'[Home[x]][s].at >= wrote[Home[x]]
         \/ \E y \in Callers : Home[y] = Home[x] /\ req[y].pc = "lock"
  PROVE  LockOK' /\ FreshOK'
<1>1. /\ req \in [Callers -> Requests] /\ Home \in [Callers -> Replicas]
      /\ lock \in [Replicas -> Callers \cup {None}] /\ None \notin Callers
  BY NamesAssumption DEF TypeInv
<1>2. PICK k \in Requests :
        /\ Goes(x, k)
        /\ \/ /\ req[x].scenes = <<"callback_failure">> /\ k.pc \in {"decide", "idle"}
              /\ lock' = [lock EXCEPT ![Home[x]] = None]
           \/ /\ req[x].scenes = <<"send_failure", "callback_failure">> /\ k.pc = "read"
              /\ k.scenes = <<"callback_failure">> /\ lock' = lock
  BY OnwardIs
<1>3. \A y \in Callers : req'[y] = IF y = x THEN k ELSE req[y]
  BY <1>1, <1>2 DEF Goes
<1>4. LockOK'
  <2>1. CASE lock' = lock /\ k.pc = "read"
    BY <1>3, <2>1 DEF LockOK
  <2>2. CASE lock' = [lock EXCEPT ![Home[x]] = None] /\ k.pc \in {"decide", "idle"}
    <3> SUFFICES ASSUME NEW y \in Callers
                 PROVE  req'[y].pc \in {"read", "keep"} <=> lock'[Home[y]] = y
      BY DEF LockOK
    <3>1. lock'[Home[y]] = IF Home[y] = Home[x] THEN None ELSE lock[Home[y]]
      BY <1>1, <2>2
    <3>2. lock[Home[x]] = x
      BY DEF LockOK
    <3>3. y # x /\ Home[y] = Home[x] => req[y].pc \notin {"read", "keep"}
      BY <3>2 DEF LockOK
    <3> QED BY <1>1, <1>3, <2>2, <3>1, <3>3 DEF LockOK
  <2> QED BY <1>2, <2>1, <2>2
<1>5. ASSUME NEW t \in Scenes \ {s}, Refreshes(x, t)
      PROVE  Refreshes(x, t)'
  <2>1. CASE req[x].scenes = <<"callback_failure">>
    <3>1. s = "callback_failure" /\ req[x].scenes[1] = s /\ Len(req[x].scenes) = 1
      BY <2>1
    <3> QED BY <1>5, <3>1 DEF Refreshes
  <2>2. CASE req[x].scenes = <<"send_failure", "callback_failure">>
    <3>1. s = "send_failure" /\ t = "callback_failure"
      BY <1>5, <2>2 DEF Scenes
    <3>2. k.pc = "read" /\ k.scenes = <<"callback_failure">>
      <4>1. Len(req[x].scenes) = 2
        BY <2>2
      <4>2. req[x].scenes # <<"callback_failure">>
        BY <4>1
      <4> QED BY <1>2, <4>2
    <3>3. Len(k.scenes) = 1 /\ k.scenes[1] = t
      BY <3>1, <3>2
    <3>4. \E n \in 1 .. Len(k.scenes) : k.scenes[n] = t
      BY <3>3
    <3> QED BY <1>3, <3>2, <3>4 DEF Refreshes
  <2> QED BY <1>2, <2>1, <2>2
<1>6. \A y \in Callers \ {x} : \A t : Refreshes(y, t) => Refreshes(y, t)'
  BY <1>3 DEF Refreshes
<1>7. ASSUME NEW h \in Replicas, NEW t \in Scenes
      PROVE  \/ cache'[h][t].at >= wrote'[h]
             \/ h \in missed'
             \/ \E y \in Callers : Home[y] = h /\ Refreshes(y, t)'
  <2>1. \/ cache[h][t].at >= wrote[h]
        \/ h \in missed
        \/ \E y \in Callers : Home[y] = h /\ Refreshes(y, t)
    BY DEF FreshOK
  <2>2. CASE h = Home[x] /\ t = s
    <3>1. \A y \in Callers : req[y].pc = "lock" => Refreshes(y, t)' /\ y # x
      BY <1>6 DEF Refreshes
    <3> QED BY <2>2, <3>1
  <2>3. CASE h # Home[x]
    <3>1. cache'[h][t].at = cache[h][t].at
      BY <2>3
    <3> QED BY <1>6, <2>1, <2>3, <3>1
  <2>4. CASE t # s
    <3>1. cache'[h][t].at = cache[h][t].at
      BY <2>4
    <3> QED BY <1>5, <1>6, <2>1, <2>4, <3>1
  <2> QED BY <2>2, <2>3, <2>4
<1>8. ASSUME NEW y \in Callers, req'[y].pc = "keep"
      PROVE  \/ req'[y].read >= wrote'[Home[y]]
             \/ \E z \in Callers : Home[z] = Home[y] /\ req'[z].pc = "lock"
  <2>1. y # x /\ req'[y] = req[y]
    BY <1>2, <1>3, <1>8
  <2>2. \A z \in Callers : req[z].pc = "lock" => req'[z].pc = "lock"
    BY <1>3
  <2> QED BY <1>8, <2>1, <2>2 DEF FreshOK
<1> QED BY <1>4, <1>7, <1>8 DEF FreshOK

LEMMA CacheStep ==
  ASSUME DataInv, LockOK, FreshOK, [Next]_vars
  PROVE  LockOK' /\ FreshOK'
<1>1. TypeInv /\ RequestsOK /\ RowsOK
  BY DEF DataInv
<1>2. CASE UNCHANGED vars
  <2>1. UNCHANGED <<req, cache, lock, missed, writes, wrote>>
    BY <1>2 DEF vars, caches
  <2> QED BY <2>1 DEF LockOK, FreshOK, Refreshes
<1>3. ASSUME NEW x \in Callers, Channels(x) \/ Accounts(x) \/ Others(x)
      PROVE  LockOK' /\ FreshOK'
  <2>1. PICK k \in Requests :
          /\ Goes(x, k) /\ k.pc = "check" /\ req[x].pc = "idle"
          /\ UNCHANGED <<caches, writes, wrote, faults>>
    BY <1>1, <1>3, StartIs
  <2> QED BY <1>1, <2>1, QuietCache DEF caches
<1>4. ASSUME NEW x \in Callers, Statement(x)
      PROVE  LockOK' /\ FreshOK'
  <2>1. CASE Check(x) \/ ReadItself(x)
    <3>1. PICK k \in Requests : Goes(x, k) /\ k.pc \in {"idle", "check"}
      BY <1>1, <2>1, CheckIs, ReadIs
    <3>2. req[x].pc = "check" /\ UNCHANGED <<caches, writes, wrote>>
      BY <2>1 DEF Check, ReadItself
    <3> QED BY <1>1, <3>1, <3>2, QuietCache DEF caches
  <2>2. CASE \/ Insert(x) \/ Save(x) \/ UpdateColumns(x) \/ DeleteRow(x) \/ DeleteBindings(x)
             \/ CommitChannel(x)
    <3>1. PICK k \in Requests :
           /\ Goes(x, k) /\ k.pc \in {"idle", "lock", "commit"}
           /\ \/ UNCHANGED <<writes, wrote>>
              \/ /\ k.pc = "lock" /\ writes' = writes + 1
                 /\ wrote' = [wrote EXCEPT ![Home[x]] = writes + 1]
      BY <1>1, <2>2, WriteIs
    <3>2. req[x].pc \in {"check", "commit"} /\ UNCHANGED caches
      BY <2>2 DEF Insert, Save, UpdateColumns, DeleteRow, DeleteBindings, CommitChannel, Ready
    <3> QED BY <1>1, <3>1, <3>2, QuietCache DEF caches
  <2>3. CASE Refresh(x) \/ Look(x) \/ Decide(x)
    <3>1. PICK k \in Requests :
           /\ Goes(x, k) /\ k.pc \in {"idle", "lock"} /\ req[x].pc \in {"check", "decide"}
           /\ UNCHANGED <<db, caches, writes, wrote, overlapped, requests, faults>>
      BY <1>1, <2>3, WaitIs
    <3> QED BY <1>1, <3>1, QuietCache DEF caches
  <2>4. CASE Lock(x)
    BY <1>1, <2>4, LockCache
  <2>5. CASE ReadRules(x)
    <3>1. CASE Onward(x) /\ missed' = missed \cup {Home[x]}
      <4>1. /\ req[x].pc = "read" /\ UNCHANGED <<cache, writes, wrote>>
            /\ missed \subseteq missed' /\ Home[x] \in missed'
        BY <2>5, <3>1 DEF ReadRules
      <4>2. PICK s \in Scenes : s = Head(req[x].scenes)
        <5>1. \/ req[x].scenes = <<"send_failure", "callback_failure">>
              \/ req[x].scenes = <<"callback_failure">>
          BY <1>1, <4>1 DEF TypeInv, Working
        <5>2. Head(req[x].scenes) \in {"send_failure", "callback_failure"}
          BY <5>1
        <5> QED BY <5>2 DEF Scenes
      <4> QED BY <1>1, <3>1, <4>1, <4>2, OnwardCache
    <3>2. CASE ~Onward(x) \/ missed' # missed \cup {Home[x]}
      <4>1. PICK k \in Requests :
             /\ Goes(x, k) /\ k.pc = "keep" /\ k.scenes = req[x].scenes
             /\ k.read = writes /\ req[x].pc = "read"
             /\ UNCHANGED <<cache, lock, missed, writes, wrote>>
        BY <1>1, <2>5, <3>2, ReadRulesIs
      <4> QED BY <1>1, <4>1, ReadCache
    <3> QED BY <3>1, <3>2
  <2>6. CASE KeepRules(x)
    <3>1. PICK s \in Scenes :
           /\ s = Head(req[x].scenes)
           /\ \A h \in Replicas : \A t \in Scenes :
                cache'[h][t].at = IF h = Home[x] /\ t = s THEN req[x].read
                                  ELSE cache[h][t].at
      BY <1>1, <2>6, KeepIs
    <3>2. /\ req[x].pc = "keep" /\ Onward(x) /\ UNCHANGED <<writes, wrote, missed>>
          /\ Home[x] \in Replicas
      BY <2>6, NamesAssumption DEF KeepRules
    <3>3. \/ cache'[Home[x]][s].at >= wrote[Home[x]]
          \/ \E y \in Callers : Home[y] = Home[x] /\ req[y].pc = "lock"
      <4>1. cache'[Home[x]][s].at = req[x].read
        BY <3>1, <3>2
      <4> QED BY <3>2, <4>1 DEF FreshOK
    <3>4. /\ \A h \in Replicas : \A t \in Scenes \ {s} : cache'[h][t].at = cache[h][t].at
          /\ \A h \in Replicas \ {Home[x]} : cache'[h][s].at = cache[h][s].at
      BY <3>1
    <3> QED BY <1>1, <3>1, <3>2, <3>3, <3>4, OnwardCache
  <2> QED BY <1>4, <2>1, <2>2, <2>3, <2>4, <2>5, <2>6 DEF Statement
<1> QED BY <1>2, <1>3, <1>4 DEF Next

\* A request that changed the rules and is through has left its change, or a
\* later one, in both lists of its replica, unless a list could not be read.
THEOREM OwnChangesApplyHolds == Spec => []OwnChangesApply
<1>1. Init => LockOK /\ FreshOK
  <2> SUFFICES ASSUME Init PROVE LockOK /\ FreshOK
    OBVIOUS
  <2>1. \A x \in Callers : req[x].pc = "idle"
    BY IdleOK DEF Init
  <2>2. \A x \in Callers : lock[Home[x]] = None /\ x # None
    BY NamesAssumption DEF Init
  <2>3. \A h \in Replicas : wrote[h] = 0 /\ \A s \in Scenes : cache[h][s].at = 0
    BY DEF Init
  <2>4. writes = 0
    BY DEF Init
  <2> QED BY <2>1, <2>2, <2>3, <2>4 DEF LockOK, FreshOK
<1>2. DataInv /\ LockOK /\ FreshOK /\ [Next]_vars => (LockOK /\ FreshOK)'
  BY CacheStep
<1>3. FreshOK => OwnChangesApply
  BY DEF FreshOK, Refreshes, OwnChangesApply
<1> QED BY <1>1, <1>2, <1>3, DataHolds, PTL DEF Spec
=============================================================================

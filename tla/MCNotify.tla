------------------------------ MODULE MCNotify ------------------------------
(* Notify on a small instance: two tasks of two applications. *)
EXTENDS Notify, TLC

CONSTANTS t1, t2

MCVia == t1 :> {"a"} @@ t2 :> {"a", "b"}

Made(code, config, posts) == [code |-> code, config |-> config, posts |-> posts]

\* Every sender comes up; an account of Tencent lacks a credential, which stops it,
\* and one of a mail relay, which does not.
MCFleets == {"a" :> f[1] @@ "b" :> f[2] : f \in {
  <<Made("tencent_sms", "full", TRUE), Made("tencent_sms", "partial", TRUE)>>,
  <<Made("dingtalk", "full", FALSE), Made("wechat_work", "full", FALSE)>>,
  <<Made("smtp", "partial", TRUE), Made("aliyun_sms", "full", TRUE)>>,
  <<Made("zrwinfo_sms", "full", TRUE), Made("wechat_work", "full", TRUE)>>}}

Item(provider, var) ==
  [provider |-> provider, type |-> "mapping", var |-> var, value |-> ""]

\* The mapping lists the variables in another order than the template does,
\* one of them twice, and misses one.
MCBindings == <<
  [template |-> "T", text |-> TRUE, content |-> <<"1", "2", "3">>,
   mapping |-> <<Item("3", "code"), Item("1", "code"), Item("1", "name")>>] >>

MCParams == t1 :> ("code" :> "v1") @@ t2 :> ("code" :> "v1" @@ "name" :> "v2")

\* The applications differ in what they ask for; one takes the defaults.
MCConfig ==
  t1 :> [status |-> 1, events |-> {"failed", "delivered"}, timeout |-> 2, retries |-> 1]
  @@ t2 :> [status |-> 1, events |-> {"delivered"}, timeout |-> 3, retries |-> 1]

\* What the code relies on: a chat service that says yes names a message.
MCAnswers ==
  [code \in {"dingtalk", "wechat_work", "smtp"} |-> {"down", "refused", "accepted"}]
  @@ [code \in {"aliyun_sms", "zrwinfo_sms", "tencent_sms"} |->
        {"down", "empty", "refused", "accepted"}]
=============================================================================

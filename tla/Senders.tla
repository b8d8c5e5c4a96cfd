------------------------------- MODULE Senders -------------------------------
(***************************************************************************)
(* What the six senders make of an account, a message and a provider's     *)
(* answer, and of a provider's report. Functions of their arguments: the   *)
(* state they read and write, the token cache, is in Notify.               *)
(*                                                                         *)
(* An answer is "down" (no answer), "garbled" (one that does not parse),   *)
(* "empty" (one without a result), "refused" with a code or "accepted"     *)
(* with a message id.                                                      *)
(***************************************************************************)
EXTENDS Integers, Sequences, SequencesExt

\* A missing id or text. Ids are tuples, so that "0" of an absent number is one.
NoId == <<>>

\* fmt.Sprintf("%d") of a number the provider did not send.
ZeroId == <<"0">>

NoCode == ""

-----------------------------------------------------------------------------
(* sender.go: the pair (SendResponse, error) *)

\* An error and no response: the message did not reach the provider.
GoError == [error |-> TRUE, resp |-> FALSE, success |-> FALSE, id |-> NoId,
            code |-> NoCode, status |-> ""]

\* A response that says no; Send of Tencent returns the error beside it.
Refused(code) == [error |-> FALSE, resp |-> TRUE, success |-> FALSE,
                  id |-> NoId, code |-> code, status |-> ""]

Accepted(id, status) == [error |-> FALSE, resp |-> TRUE, success |-> TRUE,
                         id |-> id, code |-> NoCode, status |-> status]

\* GetConfig and the credentials that must not be empty.
Usable(account) == account.config = "full"

\* The code of the bound provider template, else the one of the task.
TemplateCode(bound, task) == IF bound # "" THEN bound ELSE task

\* AliyunSMSSender.Send
AliyunSend(account, template, answer) ==
  IF ~Usable(account) \/ template = "" THEN GoError
  ELSE CASE answer.kind = "accepted" -> Accepted(answer.id, "sent")
         [] answer.kind = "refused"  -> Refused(answer.code)
         [] OTHER                    -> Refused(NoCode)

\* TencentSMSSender.Send
TencentSend(account, template, answer) ==
  IF ~Usable(account) \/ template = "" THEN GoError
  ELSE CASE answer.kind = "accepted" -> Accepted(answer.id, "sent")
         [] answer.kind = "refused"  -> Refused(answer.code)
         [] answer.kind = "empty"    -> Refused(NoCode)
         [] OTHER                    -> [Refused(NoCode) EXCEPT !.error = TRUE]

\* ZrwinfoSMSSender.Send: success is code "0", which an empty answer lacks.
ZrwinfoSend(account, template, answer) ==
  IF ~Usable(account) \/ template = "" THEN GoError
  ELSE CASE answer.kind = "accepted" -> Accepted(answer.id, "sent")
         [] answer.kind = "refused"  -> Refused(answer.code)
         [] OTHER                    -> Refused(NoCode)

\* Mutant of DingTalkSend: errcode is not looked at.
DingTalkSendBlind(account, template, answer) ==
  IF answer.kind \in {"down", "garbled"} THEN GoError
  ELSE Accepted(IF answer.kind = "accepted" THEN answer.id ELSE ZeroId, "success")

\* DingTalkSender.Send, once it has a token: an answer that names no error
\* is a success.
DingTalkSend(account, template, answer) ==
  CASE answer.kind = "accepted" -> Accepted(answer.id, "success")
    [] answer.kind = "empty"    -> Accepted(ZeroId, "success")
    [] answer.kind = "refused"  -> Refused(answer.code)
    [] OTHER                    -> GoError

\* WeChatWorkSender.Send, once it has a token.
WeChatSend(account, template, answer) ==
  CASE answer.kind = "accepted" -> Accepted(answer.id, "success")
    [] answer.kind = "empty"    -> Accepted(NoId, "success")
    [] answer.kind = "refused"  -> Refused(answer.code)
    [] OTHER                    -> GoError

\* SMTPSender.Send: the id is made up here, the mail does not carry it.
SMTPSend(account, task, answer) ==
  IF account.config = "broken" THEN GoError
  ELSE IF answer.kind = "accepted" THEN Accepted(<<"smtp", task>>, "success")
  ELSE Refused(NoCode)

\* The provider codes SenderFactory registers a sender for.
Codes == {"aliyun_sms", "tencent_sms", "zrwinfo_sms", "dingtalk", "wechat_work", "smtp"}

\* SenderFactory.GetSender and Sender.Send of what it answers.
Send(account, task, template, answer) ==
  CASE account.code = "aliyun_sms"  -> AliyunSend(account, template, answer)
    [] account.code = "tencent_sms" -> TencentSend(account, template, answer)
    [] account.code = "zrwinfo_sms" -> ZrwinfoSend(account, template, answer)
    [] account.code = "dingtalk"    -> DingTalkSend(account, template, answer)
    [] account.code = "wechat_work" -> WeChatSend(account, template, answer)
    [] account.code = "smtp"        -> SMTPSend(account, task, answer)

\* The senders that fetch a token before they send.
NeedsToken(account) == account.code \in {"dingtalk", "wechat_work"}

-----------------------------------------------------------------------------
(* HandleCallback: a body is [kind, items]. What does not parse is answered  *)
(* with 200 and gives no result, so nobody sends it again.                   *)

Result(id, status) == [id |-> id, status |-> status]

\* aliyun_sms: an array of reports, biz_id as it is.
AliyunCallback(body) ==
  [i \in DOMAIN body.items |->
     Result(body.items[i].id,
            IF body.items[i].word = "ok" THEN "delivered" ELSE "failed")]

\* tencent_sms: an array of reports with sid and report_status.
TencentCallback(body) ==
  [i \in DOMAIN body.items |->
     Result(body.items[i].id,
            IF body.items[i].word = "ok" THEN "delivered" ELSE "failed")]

\* zrwinfo_sms: one form; without smUuid it is an error.
ZrwinfoCallback(body) ==
  LET item == Head(body.items)
  IN  IF item.id = NoId THEN <<>>
      ELSE <<Result(item.id, IF item.word = "ok" THEN "delivered" ELSE "failed")>>

\* dingtalk: a missing task_id is the number 0.
DingTalkCallback(body) ==
  LET item == Head(body.items)
  IN  <<Result(IF item.id = NoId THEN ZeroId ELSE item.id,
               IF item.word = "ok" THEN "delivered" ELSE "failed")>>

\* wechat_work: msgid may be missing.
WeChatCallback(body) ==
  LET item == Head(body.items)
  IN  <<Result(item.id, IF item.word = "ok" THEN "delivered" ELSE "failed")>>

\* smtp: a relay's JSON, or the text of a bounce, which has no id at all.
\* Every word but three counts as delivered.
SMTPCallback(body) ==
  IF body.kind = "bounce" THEN <<Result(NoId, "failed")>>
  ELSE LET item == Head(body.items)
       IN  <<Result(item.id, CASE item.word = "bad"        -> "failed"
                               [] item.word = "complained" -> "rejected"
                               [] OTHER                    -> "delivered")>>

\* GetCallbackHandler and HandleCallback of what it answers.
Callback(code, body) ==
  IF body.kind = "garbled" \/ (body.kind = "bounce" /\ code # "smtp") THEN <<>>
  ELSE CASE code = "aliyun_sms"  -> AliyunCallback(body)
         [] code = "tencent_sms" -> TencentCallback(body)
         [] code = "zrwinfo_sms" -> ZrwinfoCallback(body)
         [] code = "dingtalk"    -> DingTalkCallback(body)
         [] code = "wechat_work" -> WeChatCallback(body)
         [] code = "smtp"        -> SMTPCallback(body)

-----------------------------------------------------------------------------
(* Parameters: what an application calls code may be {1} at the provider     *)

\* GetParamMapping and MapParams: a fixed text, or the application's parameter
\* ("" when it gave none); the last item for a variable wins. No mapping, no
\* parameters at all.
Value(item, params) ==
  CASE item.type = "fixed" -> item.value
    [] item.type # "fixed" /\ item.var \in DOMAIN params -> params[item.var]
    [] OTHER -> ""

MapParams(params, mapping) ==
  [v \in {mapping[i].provider : i \in DOMAIN mapping} |->
     LET i == SelectLastInSeq(mapping,
                              LAMBDA item : item.provider = v)
     IN  Value(mapping[i], params)]

\* Mutant of InOrder: in the order of the variables that have a value.
InOrderOfMapping(content, mapped) ==
  LET known == SelectSeq(content, LAMBDA v : v \in DOMAIN mapped)
  IN  [i \in DOMAIN known |-> mapped[known[i]]]

\* By the placeholders of the provider's template, "" for one without a value.
InOrder(content, mapped) ==
  [i \in DOMAIN content |->
     IF content[i] \in DOMAIN mapped THEN mapped[content[i]] ELSE ""]

\* range over a map: any order.
AnyOrder(mapped) ==
  {[i \in DOMAIN p |-> mapped[p[i]]] : p \in SetToSeqs(DOMAIN mapped)}

\* Tencent's buildParamsFromMapping; a template without text is one without
\* placeholders.
TencentParams(content, mapped) ==
  IF DOMAIN mapped = {} THEN {<<>>}
  ELSE IF content = <<>> THEN AnyOrder(mapped) ELSE {InOrder(content, mapped)}

\* Zrwinfo's buildContentFromMapping, before it joins the values with ##.
ZrwinfoParams(text, content, mapped) ==
  IF DOMAIN mapped = {} THEN {<<>>}
  ELSE IF ~text THEN AnyOrder(mapped)
  ELSE {InOrder(content, mapped)}

\* What the positional senders may put on the wire; the others name each value.
Positions(code, binding, params) ==
  LET mapped == MapParams(params, binding.mapping)
  IN  CASE code = "tencent_sms" -> TencentParams(binding.content, mapped)
        [] code = "zrwinfo_sms" ->
             ZrwinfoParams(binding.text, binding.content, mapped)
        [] OTHER -> {<<>>}
=============================================================================

-------------------------- MODULE MCAdministration --------------------------
(* Administration on a small instance: one account with a template and a *)
(* signature, another of another type, a channel with what belongs to it. *)
EXTENDS Administration, TLC

CONSTANTS Sms, Email, x1, x2, x3, h1, h2, name1, name2

MCTypes == {Sms, Email}
MCNames == {name1, name2}
MCReplicas == {h1, h2}
MCCallers == {x1, x2, x3}
MCIds == 1..15

Row(table, type, up, channel, provider, name) ==
  [table |-> table, live |-> TRUE, on |-> TRUE, type |-> type, up |-> up,
   channel |-> channel, provider |-> provider, name |-> name]

\* Two goroutines of one replica, one of another.
MCHome == [x \in MCCallers |-> IF x = x3 THEN h2 ELSE h1]

MCSymmetry == Permutations({x1, x2})

MCSeed ==
  << Row("account", Sms, None, None, None, None),
     Row("account", Email, None, None, None, None),
     Row("system", Sms, None, None, None, None),
     Row("template", None, None, None, 1, name1),
     Row("template", None, None, None, 2, name1),
     Row("signature", None, None, None, 1, name1),
     Row("channel", Sms, 3, None, None, None),
     Row("binding", None, 4, 7, 1, None),
     Row("mapping", None, 6, 7, 1, name1),
     Row("user", None, None, None, None, name1),
     Row("rule", "send_failure", None, None, None, None) >>
=============================================================================

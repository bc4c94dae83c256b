----------------------------- MODULE MCDialogue -----------------------------
(* A user who scales, deploys, deletes, asks for logs and forgets, with texts *)
(* that name some of what is needed, under old and new names, and words that  *)
(* nothing can convert.                                                       *)
EXTENDS Dialogue

Sure(command) == <<[intent |-> command, score |-> 90], [intent |-> None, score |-> 5]>>
Close(command) == <<[intent |-> command, score |-> 48], [intent |-> None, score |-> 44]>>
Unsure == <<[intent |-> None, score |-> 30], [intent |-> "apps.delete", score |-> 29]>>

Text(ranking, found, rules) ==
    [ranking |-> ranking, rules |-> rules, rule |-> None, captures |-> Empty,
     found |-> [i \in DOMAIN found |->
                  [key |-> found[i][1], word |-> found[i][2], score |-> 80]]]
WithRule(text, command, captures) == [text EXCEPT !.rule = command, !.captures = captures]

MCTexts == {
    Text(Sure("containers.scale"), <<<<"container_name", "worker">>, <<"amount", "3">>>>,
         "app_name" :> "a"),
    Text(Sure("containers.scale"), <<<<"amount", "two">>, <<"container_type", "web">>>>, Empty),
    Text(Unsure, <<<<"region", "osc-fr1">>, <<"region", "paris">>, <<"region", "osc-fr1">>>>,
         Empty),
    Text(Close("apps.delete"), <<<<"region", "osc-secnum-fr1">>>>,
         "app_name" :> "a" @@ "region" :> "osc-fr1"),
    Text(Sure("apps.delete"), <<>>, "region" :> "osc-fr1" @@ "app_name" :> "osc-fr1"),
    Text(Sure("apps.set_force_https"), <<>>, Empty),
    Text(Sure("memory.forget"), <<<<"memory_key", "region">>, <<"enabled", "maybe">>>>,
         Empty),
    Text(Sure("containers.scale"), <<>>, Empty),
    WithRule(Text(Sure("apps.restart"), <<<<"app_name", "b">>>>, "region" :> "osc-fr1"),
             "apps.restart", "app_name" :> "b" @@ "region" :> "osc-fr1"),
    WithRule(Text(Unsure, <<>>, Empty),
             "legacy.create_and_deploy",
             "app_name" :> "b" @@ "region" :> "osc-secnum-fr1" @@ "github_repo" :> "repo"),
    WithRule(Text(Unsure, <<>>, "app_name" :> "b"), "legacy.show_logs",
             "app_name" :> "b" @@ "region" :> "osc-secnum-fr1"),
    WithRule(Text(Unsure, <<>>, Empty), "confirm", Empty) }
=============================================================================

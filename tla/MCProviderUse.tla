---- MODULE MCProviderUse ----
(* Two models: the name of m1 suggests another kind than its list reports, *)
(* m2 is of a kind that no endpoint takes.                                 *)
EXTENDS ProviderUse, TLC
MCTargetOf == [j \in Jobs |-> "m1"]
MCModels == {"m1", "m2"}
MCReports == [m \in Models |-> IF m = "m1" THEN "chat" ELSE "image"]
MCGuesses == [m \in Models |-> IF m = "m1" THEN "image" ELSE "chat"]
MCDrafts == {[place |-> "unset", kind |-> "unset"], [place |-> "local", kind |-> "chat"]}
====

------------------------------ MODULE MCExecutor ------------------------------
(* Instances of Executor: the catalog and the accounts of each run. *)
EXTENDS Executor

CatalogTiers == [m \in Models |-> IF m = "large" THEN 2 ELSE 0]
CatalogProviders == [m \in Models |-> "openai"]

Key(id, retry) == [id |-> id, provider |-> "openai", enabled |-> TRUE, weight |-> 1,
                   priority |-> 0, retry |-> retry, serves |-> Models]

(* The first account is retried once, the second is not. *)
OneRetry == {{Key(1, 1), Key(2, 0)}}
ComesAndGoes == OneRetry \cup {{Key(1, 1)}}
=============================================================================

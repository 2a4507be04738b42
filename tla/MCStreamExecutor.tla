--------------------------- MODULE MCStreamExecutor ---------------------------
(* Instances of StreamExecutor: the catalog and the accounts of each run. *)
EXTENDS StreamExecutor, TLC

(* A weak and a strong automatic model, and a weak one for explicit requests. *)
CatalogTiers == [m \in Models |-> IF m = "large" THEN 2 ELSE 0]
CatalogProviders == [m \in Models |-> "openai"]

Key(id) == [id |-> id, provider |-> "openai", enabled |-> TRUE, weight |-> 1,
            priority |-> 0, retry |-> None, serves |-> Models]

NoAccounts == {{}}
OneOrNone == {{Key(1)}, {}}

Interchangeable == Permutations(Responses)
=============================================================================

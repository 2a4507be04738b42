------------------------------ MODULE MCGateway ------------------------------
(* An instance of Gateway: one model over two accounts. *)
EXTENDS Gateway

CatalogTiers == [m \in Models |-> IF m = "large" THEN 2 ELSE 0]
CatalogProviders == [m \in Models |-> "openai"]

Key(id) == [id |-> id, provider |-> "openai", enabled |-> TRUE, weight |-> 1,
            priority |-> 0, retry |-> None, serves |-> Models]

TwoAccounts == {{Key(1), Key(2)}}
=============================================================================

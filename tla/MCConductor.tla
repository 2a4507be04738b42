----------------------------- MODULE MCConductor -----------------------------
(* Instances of Conductor: the pools and requests of each run. *)
EXTENDS Conductor

Key(id, provider, weight, priority, serves) ==
    [id |-> id, provider |-> provider, enabled |-> TRUE, weight |-> weight,
     priority |-> priority, retry |-> None, serves |-> serves]

Ask(model, session, parent, round, guardian, tried) ==
    [model |-> model, provider |-> "openai", session |-> session, parent |-> parent,
     round |-> round, guardian |-> guardian, tried |-> tried]

(* Rotation: three accounts of two models, one of them behind the others,   *)
(* and a reload that drops one and promotes another.                        *)
RotationPools ==
    {{Key(1, "openai", 1, 0, Models), Key(2, "openai", 2, 0, Models), Key(3, "openai", 1, 1, {"big"})},
     {Key(1, "openai", 1, 1, Models), Key(3, "openai", 2, 0, Models)}}

RotationRequests ==
    {Ask(model, None, None, 0, FALSE, tried) : model \in Models, tried \in {{}, {1}}}

(* Affinity: two accounts, one of weight two, a session and its subagent; a *)
(* reload drops the first account while the session may be bound to it.     *)
AffinityPools ==
    {{Key(1, "openai", 2, 0, Models), Key(2, "openai", 1, 0, Models)},
     {Key(2, "openai", 1, 0, Models)}}

AffinityRequests ==
    {Ask(model, "main", None, 0, FALSE, tried) : model \in Models, tried \in {{}, {1}}}
    \cup {Ask(model, "sub", "main", 0, guardian, {}) : model \in Models, guardian \in BOOLEAN}

(* Retry rounds: an account of another provider, a disabled one and one     *)
(* that serves first attempts only.                                         *)
RetryPools ==
    {{[Key(1, "openai", 1, 0, Models) EXCEPT !.retry = 0], Key(2, "anthropic", 1, 0, Models),
      [Key(3, "openai", 9, 0, Models) EXCEPT !.enabled = FALSE]}}

RetryRequests ==
    {Ask(model, None, None, round, FALSE, tried) : model \in Models, round \in 0 .. 1, tried \in {{}, {1}}}
=============================================================================

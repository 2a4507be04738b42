---------------------------- MODULE RoutingStore ----------------------------
(***************************************************************************)
(* The routing half of mindctl's SQLite repository: the tables             *)
(* conversations, routing_sessions, responses, provider_attempts and       *)
(* attempt_savings, and the transactions of                                *)
(* internal/storage/sqlite/repository.go that write them, called the way   *)
(* internal/conversation/service.go calls them.                            *)
(*                                                                         *)
(* Every transaction runs under BEGIN IMMEDIATE on one connection (db.go), *)
(* so each is one atomic action here; request goroutines, streams and the  *)
(* retention sweep interleave between transactions in any order, and a     *)
(* process that dies between two of them simply never takes the next one.  *)
(* A transaction that returns an error rolls back and is no step.          *)
(*                                                                         *)
(* Transcript items, request contexts and encrypted bodies belong to the   *)
(* same transactions but to no routing decision; they are left out here.   *)
(***************************************************************************)
EXTENDS Integers, FiniteSets

CONSTANTS
    Clients,        \* authenticated client identities
    Keys,           \* digests of client session IDs (api/session.go sessionKey)
    Conversations,  \* conversation IDs
    Responses,      \* response IDs
    Attempts,       \* provider attempt IDs
    Models,         \* (provider, model ID) pairs
    None,           \* SQL NULL
    MaxTier,        \* the strongest tier, T6 in domain/tier.go
    SessionTTL,     \* routing.session.idle_ttl in ticks; 0 never expires
    MaxLag,         \* how old a timestamp taken before the write lock can be
    MaxTime         \* bound on the clock

ASSUME RoutingStoreAssumption ==
    /\ None \notin Clients \cup Keys \cup Models
    /\ IsFiniteSet(Attempts)
    /\ MaxTier \in Nat /\ SessionTTL \in Nat /\ MaxLag \in Nat /\ MaxTime \in Nat
    \* Waiting for the write lock is short against the idle time of a session.
    /\ SessionTTL > 0 => MaxLag <= SessionTTL

Tiers == 0 .. MaxTier

SessionIDs == Clients \X Keys  \* the key of routing_sessions

(* A pin whose tier is NULL compares below every tier, as in the SQL CASE. *)
NoPin == [model |-> None, tier |-> -1]
Pins  == [model : Models, tier : Tiers] \cup {NoPin}

Maximum(m, n) == IF m >= n THEN m ELSE n

VARIABLES
    now,            \* the wall clock
    conversations,  \* conversation ID -> row; owner None is "no row"
    sessions,       \* (client, key) -> routing session row
    responses,      \* response ID -> row
    attempts,       \* attempt ID -> row
    saved           \* attempts with an attempt_savings row

vars == <<now, conversations, sessions, responses, attempts, saved>>

NoConversation == [client |-> None, key |-> None, created |-> 0, pin |-> NoPin, floor |-> 0]
NoSession == [live |-> FALSE, created |-> 0, updated |-> 0, pin |-> NoPin, floor |-> 0, usage |-> None]
NoResponse == [conversation |-> None, status |-> "absent", explicit |-> FALSE]
NoAttempt == [response |-> None, model |-> None, tier |-> -1, seq |-> 0, status |-> "absent", completed |-> 0]

ConversationRow == [client : Clients \cup {None}, key : Keys \cup {None}, created : Nat,
                    pin : Pins, floor : Tiers]
SessionRow == [live : BOOLEAN, created : Nat, updated : Nat, pin : Pins, floor : Tiers,
               usage : Models \cup {None}]
ResponseRow == [conversation : Conversations \cup {None},
                status : {"absent", "pending", "completed"}, explicit : BOOLEAN]
AttemptRow == [response : Responses \cup {None}, model : Models \cup {None},
               tier : Tiers \cup {-1}, seq : Nat,
               status : {"absent", "started", "succeeded", "failed"}, completed : Nat]

TypeOK ==
    /\ now \in Nat
    /\ conversations \in [Conversations -> ConversationRow]
    /\ sessions \in [SessionIDs -> SessionRow]
    /\ responses \in [Responses -> ResponseRow]
    /\ attempts \in [Attempts -> AttemptRow]
    /\ saved \subseteq Attempts

Init ==
    /\ now = 0
    /\ conversations = [c \in Conversations |-> NoConversation]
    /\ sessions = [s \in SessionIDs |-> NoSession]
    /\ responses = [r \in Responses |-> NoResponse]
    /\ attempts = [a \in Attempts |-> NoAttempt]
    /\ saved = {}

-----------------------------------------------------------------------------
(* The rows a transaction addresses: WHERE c.client_id = ? AND r.id = ?. *)

ConversationOf(r) == responses[r].conversation

Owns(client, r) ==
    /\ responses[r].status # "absent"
    /\ conversations[ConversationOf(r)].client = client

AttemptsOf(r) == {a \in Attempts : attempts[a].status # "absent" /\ attempts[a].response = r}

(* A timestamp taken before the transaction waited for the write lock. *)
RecentTimes == {t \in 0 .. now : t + MaxLag >= now}

-----------------------------------------------------------------------------
(* Writing one row *)

Repinned(conversation, pin, floor) ==
    [client |-> conversation.client, key |-> conversation.key,
     created |-> conversation.created, pin |-> pin, floor |-> floor]

(* completeAttempt *)
Finished(attempt, status) ==
    [response |-> attempt.response, model |-> attempt.model, tier |-> attempt.tier,
     seq |-> attempt.seq, status |-> status, completed |-> now]

-----------------------------------------------------------------------------
(* Routing sessions *)

(* mutant: idle_ttl reached counts as exceeded *)
IdleAt_Inclusive(session, time) == SessionTTL > 0 /\ time - session.updated >= SessionTTL

IdleAt(session, time) == SessionTTL > 0 /\ time - session.updated > SessionTTL

FreshSession(time) == [live |-> TRUE, created |-> time, updated |-> time,
                       pin |-> NoPin, floor |-> 0, usage |-> None]

(* mutant: the reset forgets to clear the observed usage *)
SeededSession_KeepsUsage(session, time) ==
    IF ~session.live \/ IdleAt(session, time)
    THEN [FreshSession(time) EXCEPT !.usage = session.usage]
    ELSE [session EXCEPT !.updated = Maximum(@, time)]

(* seedSession: the session row a new conversation leaves behind.  Its pin  *)
(* and floor are also what the conversation is seeded with.                 *)
SeededSession(session, time) ==
    IF ~session.live \/ IdleAt(session, time)
    THEN FreshSession(time)
    ELSE [session EXCEPT !.updated = Maximum(@, time)]

(* mutants: the last writer wins; the floor is not written back; a write   *)
(* does not count as activity                                              *)
MergedSession_LastWriter(session, pin, floor, usage) ==
    LET row == IF session.live THEN session ELSE FreshSession(now)
    IN  [row EXCEPT !.updated = Maximum(@, now), !.floor = floor, !.pin = pin,
                    !.usage = IF usage = None THEN @ ELSE usage]

MergedSession_FloorLost(session, pin, floor, usage) ==
    LET row == IF session.live THEN session ELSE FreshSession(now)
    IN  [row EXCEPT !.updated = Maximum(@, now),
                    !.pin = IF pin.tier >= @.tier THEN pin ELSE @,
                    !.usage = IF usage = None THEN @ ELSE usage]

MergedSession_NotTouched(session, pin, floor, usage) ==
    LET row == IF session.live THEN session ELSE FreshSession(now)
    IN  [row EXCEPT !.floor = Maximum(@, floor),
                    !.pin = IF pin.tier >= @.tier THEN pin ELSE @,
                    !.usage = IF usage = None THEN @ ELSE usage]

(* syncSession's upsert: the floor only rises, the pin is replaced only at  *)
(* an equal or higher tier, a NULL pin or usage changes nothing.            *)
MergedSession(session, pin, floor, usage) ==
    LET row == IF session.live THEN session ELSE FreshSession(now)
    IN  [live    |-> TRUE,
         created |-> row.created,
         updated |-> Maximum(row.updated, now),
         pin     |-> IF pin.tier >= row.pin.tier THEN pin ELSE row.pin,
         floor   |-> Maximum(row.floor, floor),
         usage   |-> IF usage = None THEN row.usage ELSE usage]

(* syncSession: a conversation outside every session changes no row. *)
SyncSession(c, pin, floor, usage) ==
    LET bound == <<conversations[c].client, conversations[c].key>>
    IN  sessions' = IF conversations[c].key = None THEN sessions
                    ELSE [sessions EXCEPT ![bound] = MergedSession(@, pin, floor, usage)]

-----------------------------------------------------------------------------
(* conversation.Start -> CreateTurn *)

InsertResponse(r, c, explicit) ==
    /\ responses[r].status = "absent"
    /\ responses' = [responses EXCEPT
            ![r] = [conversation |-> c, status |-> "pending", explicit |-> explicit]]

(* A request without previous_response_id opens a conversation under a      *)
(* random, hence new, ID.  Only automatically routed requests carry a key   *)
(* (api/session.go requestSessionKey).                                      *)
CreateTurn(client, key, c, r, explicit, created) ==
    /\ conversations[c].client = None
    /\ explicit => key = None
    /\ InsertResponse(r, c, explicit)
    /\ LET row  == IF key = None THEN NoSession ELSE SeededSession(sessions[<<client, key>>], created)
       IN  /\ conversations' = [conversations EXCEPT ![c] =
                  [client |-> client, key |-> key, created |-> created,
                   pin |-> row.pin, floor |-> row.floor]]
           /\ sessions' = IF key = None THEN sessions
                          ELSE [sessions EXCEPT ![<<client, key>>] = row]
    /\ UNCHANGED <<now, attempts, saved>>

(* previous_response_id keeps the conversation: ON CONFLICT DO NOTHING      *)
(* leaves its row, and its session key, as they are.                        *)
ContinueTurn(client, previous, r, explicit) ==
    /\ Owns(client, previous)
    /\ InsertResponse(r, ConversationOf(previous), explicit)
    /\ UNCHANGED <<now, conversations, sessions, attempts, saved>>

-----------------------------------------------------------------------------
(* Provider attempts *)

(* mutant: completed responses take attempts and results too *)
Unanswered_Unchecked(r) == responses[r].status # "absent"

Unanswered(r) == responses[r].status = "pending"

(* mutant: a weaker attempt is accepted *)
TierAccepted_Unchecked(c, tier) == c \in Conversations

(* "decision tier would lower the conversation pin or floor" otherwise *)
TierAccepted(c, tier) == tier >= conversations[c].pin.tier /\ tier >= conversations[c].floor

BeginProviderAttempt(client, r, a, model, tier) ==
    LET c == ConversationOf(r)
        pin == [model |-> model, tier |-> tier]
        floor == Maximum(conversations[c].floor, tier)
    IN  /\ Owns(client, r)
        /\ Unanswered(r)
        /\ attempts[a].status = "absent"
        /\ TierAccepted(c, tier)
        /\ IF conversations[c].pin = NoPin
           THEN /\ conversations' = [conversations EXCEPT ![c] = Repinned(@, pin, floor)]
                /\ SyncSession(c, pin, floor, None)
           ELSE UNCHANGED <<conversations, sessions>>
        /\ attempts' = [attempts EXCEPT ![a] =
               [response |-> r, model |-> model, tier |-> tier,
                seq |-> Cardinality(AttemptsOf(r)), status |-> "started", completed |-> 0]]
        /\ UNCHANGED <<now, responses, saved>>

(* ORDER BY sequence DESC LIMIT 1 over the response's started attempts. *)
LatestStarted(r, a) ==
    /\ a \in AttemptsOf(r)
    /\ attempts[a].status = "started"
    /\ \A b \in AttemptsOf(r) : attempts[b].status = "started" => attempts[b].seq <= attempts[a].seq

CommitConversationResult(client, r, a, usageKnown) ==
    LET c == ConversationOf(r)
        pin == [model |-> attempts[a].model, tier |-> attempts[a].tier]
        floor == Maximum(conversations[c].floor, pin.tier)
    IN  /\ Owns(client, r)
        /\ Unanswered(r)
        /\ LatestStarted(r, a)
        /\ conversations[c].pin # NoPin
        /\ TierAccepted(c, pin.tier)
        /\ conversations' = [conversations EXCEPT ![c] = Repinned(@, pin, floor)]
        /\ SyncSession(c, pin, floor, IF usageKnown THEN pin.model ELSE None)
        /\ responses' = [responses EXCEPT ![r].status = "completed"]
        /\ attempts' = [attempts EXCEPT ![a] = Finished(@, "succeeded")]
        /\ UNCHANGED <<now, saved>>

(* mutant: a finished attempt can be failed again *)
FailProviderAttempt_AnyStatus(client, r, a) ==
    /\ Owns(client, r)
    /\ a \in AttemptsOf(r)
    /\ attempts' = [attempts EXCEPT ![a] = Finished(@, "failed")]
    /\ UNCHANGED <<now, conversations, sessions, responses, saved>>

FailProviderAttempt(client, r, a) ==
    /\ Owns(client, r)
    /\ a \in AttemptsOf(r)
    /\ attempts[a].status = "started"
    /\ attempts' = [attempts EXCEPT ![a] = Finished(@, "failed")]
    /\ UNCHANGED <<now, conversations, sessions, responses, saved>>

RecordAttemptSavings(client, r, a) ==
    /\ Owns(client, r)
    /\ a \in AttemptsOf(r)
    /\ attempts[a].status = "succeeded"
    /\ saved' = saved \cup {a}
    /\ UNCHANGED <<now, conversations, sessions, responses, attempts>>

(* mutant: no cap at T6 *)
NextTier_Uncapped(tier) == tier + 1

(* executor/stream.go nextTier *)
NextTier(tier) == IF tier >= MaxTier THEN MaxTier ELSE tier + 1

(* The executor raises the floor one tier above an attempt that broke off   *)
(* after output had reached the caller; nothing else calls RaiseFloor.  A   *)
(* floor that is already as high leaves the store unchanged.                *)
RaiseConversationFloor(client, r, a) ==
    LET c == ConversationOf(r)
        floor == NextTier(attempts[a].tier)
    IN  /\ Owns(client, r)
        /\ a \in AttemptsOf(r)
        /\ attempts[a].status \in {"started", "failed"}
        /\ IF floor > conversations[c].floor
           THEN /\ conversations' = [conversations EXCEPT ![c] = Repinned(@, @.pin, floor)]
                /\ SyncSession(c, NoPin, floor, None)
           ELSE UNCHANGED <<conversations, sessions>>
        /\ UNCHANGED <<now, responses, attempts, saved>>

-----------------------------------------------------------------------------
(* The retention sweep (app/retention.go runOnce) and the clock *)

DeleteExpiredSessions(time) ==
    /\ SessionTTL > 0
    /\ sessions' = [s \in SessionIDs |->
            IF sessions[s].live /\ IdleAt(sessions[s], time) THEN NoSession ELSE sessions[s]]
    /\ UNCHANGED <<now, conversations, responses, attempts, saved>>

Tick ==
    /\ now < MaxTime
    /\ now' = now + 1
    /\ UNCHANGED <<conversations, sessions, responses, attempts, saved>>

-----------------------------------------------------------------------------
Turn == \E client \in Clients, r \in Responses, explicit \in BOOLEAN :
    \/ \E key \in Keys \cup {None}, c \in Conversations, created \in RecentTimes :
          CreateTurn(client, key, c, r, explicit, created)
    \/ \E previous \in Responses : ContinueTurn(client, previous, r, explicit)

Attempt == \E client \in Clients, r \in Responses, a \in Attempts :
    \/ \E model \in Models, tier \in Tiers : BeginProviderAttempt(client, r, a, model, tier)
    \/ \E usageKnown \in BOOLEAN : CommitConversationResult(client, r, a, usageKnown)
    \/ FailProviderAttempt(client, r, a)
    \/ RecordAttemptSavings(client, r, a)
    \/ RaiseConversationFloor(client, r, a)

Next ==
    \/ Turn
    \/ Attempt
    \/ \E time \in RecentTimes : DeleteExpiredSessions(time)
    \/ Tick

Spec == Init /\ [][Next]_vars

-----------------------------------------------------------------------------
(* Properties *)

Bound(c, s) == conversations[c].client # None /\ <<conversations[c].client, conversations[c].key>> = s

Succeeded(a) == attempts[a].status = "succeeded"

(* A pin never outranks the floor stored beside it, in a conversation or a  *)
(* session: the executor raises a pin to its floor (turnPin) and relies on  *)
(* never having to do the opposite.                                         *)
PinWithinFloor ==
    /\ \A c \in Conversations : conversations[c].pin.tier <= conversations[c].floor
    /\ \A s \in SessionIDs : sessions[s].pin.tier <= sessions[s].floor

(* A response is completed exactly when one of its attempts succeeded, and  *)
(* no second attempt ever succeeds: a late commit, retry or failure report  *)
(* cannot answer a response twice.                                          *)
CompletedByOneAttempt ==
    /\ \A r \in Responses : responses[r].status = "completed" <=> \E a \in AttemptsOf(r) : Succeeded(a)
    /\ \A a, b \in Attempts :
          Succeeded(a) /\ Succeeded(b) /\ attempts[a].response = attempts[b].response => a = b

(* A conversation's pin is at least as strong as every answer it ever       *)
(* delivered, whichever of its concurrent responses committed last.         *)
AnswersWithinPin ==
    \A a \in Attempts : Succeeded(a) =>
        attempts[a].tier <= conversations[ConversationOf(attempts[a].response)].pin.tier

(* A live session is at least as strong as every conversation seeded since  *)
(* the session began, so the next conversation starts no lower than any of  *)
(* its concurrent siblings has reached.                                     *)
SessionCoversConversations ==
    \A s \in SessionIDs, c \in Conversations :
        /\ sessions[s].live
        /\ Bound(c, s)
        /\ conversations[c].created >= sessions[s].created
        => /\ conversations[c].floor <= sessions[s].floor
           /\ conversations[c].pin.tier <= sessions[s].pin.tier

(* The same for answers: one delivered within the session's present life,   *)
(* even in a conversation that outlived an earlier one, is never forgotten. *)
SessionCoversAnswers ==
    \A s \in SessionIDs, a \in Attempts :
        /\ sessions[s].live
        /\ Succeeded(a)
        /\ Bound(ConversationOf(attempts[a].response), s)
        /\ attempts[a].completed >= sessions[s].created
        => attempts[a].tier <= sessions[s].pin.tier

(* Remembered token usage always comes with the pin of the life that        *)
(* observed it: a session that starts afresh predicts nothing from a cache  *)
(* the provider has already dropped.                                        *)
UsageNeedsPin == \A s \in SessionIDs : sessions[s].usage # None => sessions[s].pin # NoPin

(* "never a lower one" (README, Session affinity): no step lowers the pin   *)
(* or floor of a conversation, in whatever order its responses commit,      *)
(* fail and raise.                                                          *)
ConversationRatchet == [][
    \A c \in Conversations : conversations[c].client # None =>
        /\ conversations[c].floor <= conversations'[c].floor
        /\ conversations[c].pin.tier <= conversations'[c].pin.tier]_vars

(* A session's pin and floor only rise, and its usage stays known, until it *)
(* has been idle strictly longer than idle_ttl (seedSession,                *)
(* DeleteExpiredSessions): no concurrent turn, late write or sweep loses a  *)
(* live session.                                                            *)
SessionRatchet == [][
    \A s \in SessionIDs : sessions[s].live =>
        \/ /\ sessions'[s].live
           /\ sessions[s].created = sessions'[s].created
           /\ sessions[s].floor <= sessions'[s].floor
           /\ sessions[s].pin.tier <= sessions'[s].pin.tier
           /\ sessions[s].usage # None => sessions'[s].usage # None
        \/ SessionTTL > 0 /\ now - sessions[s].updated > SessionTTL]_vars

(* What has been answered or has failed stays so: no later commit, failure  *)
(* report or floor raise rewrites a finished attempt or reopens a response. *)
OutcomesStand == [][
    /\ \A a \in Attempts : attempts[a].status \in {"succeeded", "failed"} => attempts'[a] = attempts[a]
    /\ \A r \in Responses : responses[r].status = "completed" => responses'[r] = responses[r]]_vars

(* README, Session affinity: requests for a specific model "never read or   *)
(* change session state".  Stated of the step that commits such an answer.  *)
ExplicitLeavesSessionsAlone == [][
    \A r \in Responses, a \in Attempts :
        /\ responses[r].explicit
        /\ attempts[a] # attempts'[a]
        /\ attempts'[a].response = r
        /\ attempts'[a].status = "succeeded"
        => sessions' = sessions]_vars
=============================================================================

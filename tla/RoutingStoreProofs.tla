------------------------- MODULE RoutingStoreProofs -------------------------
(* Theorems about RoutingStore, for every set of IDs and every bound.       *)
EXTENDS RoutingStore, FiniteSetTheorems, TLAPS

USE DEF Tiers, SessionIDs

-----------------------------------------------------------------------------
(* Rows refer to rows that exist. *)
References ==
    /\ \A r \in Responses : responses[r].status # "absent" =>
          /\ ConversationOf(r) \in Conversations
          /\ conversations[ConversationOf(r)].client \in Clients
    /\ \A a \in Attempts : attempts[a].status # "absent" =>
          /\ attempts[a].response \in Responses
          /\ responses[attempts[a].response].status # "absent"
          /\ attempts[a].model \in Models
          /\ attempts[a].tier \in Tiers

WellFormed == TypeOK /\ References

(* What one upsert of a session row does. *)
LEMMA MergedSessionFacts ==
    ASSUME now \in Nat,
           NEW row \in SessionRow, NEW pin \in Pins, NEW floor \in Tiers,
           NEW usage \in Models \cup {None}
    PROVE  /\ MergedSession(row, pin, floor, usage) \in SessionRow
           /\ MergedSession(row, pin, floor, usage).live
           /\ MergedSession(row, pin, floor, usage).floor >= floor
           /\ MergedSession(row, pin, floor, usage).pin.tier >= pin.tier
           /\ MergedSession(row, pin, floor, usage).updated >= now
           /\ usage = None /\ row.live => MergedSession(row, pin, floor, usage).usage = row.usage
           /\ row.live =>
                 /\ MergedSession(row, pin, floor, usage).created = row.created
                 /\ MergedSession(row, pin, floor, usage).updated = Maximum(row.updated, now)
                 /\ MergedSession(row, pin, floor, usage).floor = Maximum(row.floor, floor)
                 /\ MergedSession(row, pin, floor, usage).pin \in {row.pin, pin}
                 /\ MergedSession(row, pin, floor, usage).pin.tier >= row.pin.tier
                 /\ MergedSession(row, pin, floor, usage).usage \in {row.usage, usage}
           /\ ~row.live =>
                 /\ MergedSession(row, pin, floor, usage).created = now
                 /\ MergedSession(row, pin, floor, usage).updated = now
                 /\ MergedSession(row, pin, floor, usage).floor = floor
                 /\ MergedSession(row, pin, floor, usage).pin \in {pin, NoPin}
                 /\ MergedSession(row, pin, floor, usage).usage \in {None, usage}
<1> DEFINE fresh == IF row.live THEN row ELSE FreshSession(now)
           merged == MergedSession(row, pin, floor, usage)
<1>1. /\ fresh \in SessionRow
      /\ row.live => fresh = row
      /\ ~row.live => fresh = FreshSession(now)
  BY RoutingStoreAssumption DEF FreshSession, SessionRow, Pins
<1>2. pin.tier \in Int /\ pin.tier >= -1 /\ fresh.pin.tier \in Int /\ fresh.pin.tier >= -1
  BY <1>1, RoutingStoreAssumption DEF SessionRow, Pins, NoPin
<1>3. merged = [live    |-> TRUE,
                created |-> fresh.created,
                updated |-> Maximum(fresh.updated, now),
                pin     |-> IF pin.tier >= fresh.pin.tier THEN pin ELSE fresh.pin,
                floor   |-> Maximum(fresh.floor, floor),
                usage   |-> IF usage = None THEN fresh.usage ELSE usage]
  BY DEF MergedSession
<1> HIDE DEF fresh, merged
<1>4. fresh.updated \in Nat /\ fresh.floor \in Nat /\ floor \in Nat
  BY <1>1, RoutingStoreAssumption DEF SessionRow
<1>5. merged \in SessionRow
  BY <1>1, <1>3, RoutingStoreAssumption DEF SessionRow, Maximum
<1>6. merged.updated >= now /\ merged.floor >= floor /\ merged.pin.tier >= pin.tier
  BY <1>2, <1>3, <1>4 DEF Maximum
<1>7. CASE row.live
  BY <1>1, <1>2, <1>3, <1>4, <1>5, <1>6, <1>7 DEF merged
<1>8. CASE ~row.live
  BY <1>1, <1>2, <1>3, <1>4, <1>5, <1>6, <1>8 DEF merged, FreshSession, Maximum
<1> QED BY <1>7, <1>8

(* A conversation's session row is merged, every other row is left alone. *)
LEMMA SyncSessionFacts ==
    ASSUME TypeOK,
           NEW c \in Conversations, conversations[c].client \in Clients,
           NEW pin \in Pins, NEW floor \in Tiers, NEW usage \in Models \cup {None},
           SyncSession(c, pin, floor, usage)
    PROVE  /\ sessions' \in [SessionIDs -> SessionRow]
           /\ \A s \in SessionIDs :
                 sessions'[s] = IF Bound(c, s) THEN MergedSession(sessions[s], pin, floor, usage)
                                ELSE sessions[s]
<1> DEFINE bound == <<conversations[c].client, conversations[c].key>>
<1>1. conversations[c].key \in Keys \cup {None} /\ None \notin Keys /\ None \notin Clients
  BY RoutingStoreAssumption DEF TypeOK, ConversationRow
<1>2. \A s \in SessionIDs : Bound(c, s) <=> bound = s
  BY <1>1 DEF Bound
<1>3. \A s \in SessionIDs : MergedSession(sessions[s], pin, floor, usage) \in SessionRow
  BY MergedSessionFacts DEF TypeOK
<1>4. CASE conversations[c].key = None
  BY <1>1, <1>2, <1>4 DEF SyncSession, TypeOK
<1>5. CASE conversations[c].key # None
  <2>1. bound \in SessionIDs
    BY <1>1, <1>5
  <2>2. sessions' = [sessions EXCEPT ![bound] = MergedSession(sessions[bound], pin, floor, usage)]
    BY <1>5 DEF SyncSession
  <2> HIDE DEF bound
  <2> QED BY <1>2, <1>3, <2>1, <2>2 DEF TypeOK
<1> QED BY <1>4, <1>5

LEMMA SeededSessionType ==
    ASSUME NEW row \in SessionRow, NEW time \in Nat
    PROVE  SeededSession(row, time) \in SessionRow
<1>1. FreshSession(time) \in SessionRow
  BY RoutingStoreAssumption DEF FreshSession, SessionRow, Pins
<1>2. [row EXCEPT !.updated = Maximum(row.updated, time)] \in SessionRow
  BY DEF SessionRow, Maximum
<1> QED BY <1>1, <1>2 DEF SeededSession

LEMMA RowTypes ==
    /\ NoPin \in Pins
    /\ NoConversation \in ConversationRow /\ NoSession \in SessionRow
    /\ NoResponse \in ResponseRow /\ NoAttempt \in AttemptRow
    /\ \A row \in ConversationRow, pin \in Pins, floor \in Tiers :
          Repinned(row, pin, floor) \in ConversationRow
<1>1. NoPin \in Pins
  BY DEF Pins
<1> QED BY <1>1, RoutingStoreAssumption
        DEF NoConversation, NoSession, NoResponse, NoAttempt, ConversationRow, SessionRow,
            ResponseRow, AttemptRow, Repinned

LEMMA WellFormedInit == Init => WellFormed
  BY RowTypes, RoutingStoreAssumption
  DEF Init, WellFormed, TypeOK, References, NoResponse, NoAttempt

(* What every operation on an existing response may rely on. *)
LEMMA OwnedRows ==
    ASSUME WellFormed, NEW client \in Clients, NEW r \in Responses, Owns(client, r)
    PROVE  /\ responses[r].status # "absent"
           /\ ConversationOf(r) \in Conversations
           /\ conversations[ConversationOf(r)].client = client
           /\ conversations[ConversationOf(r)] \in ConversationRow
           /\ \A a \in AttemptsOf(r) : /\ attempts[a].response = r
                                       /\ attempts[a].model \in Models
                                       /\ attempts[a].tier \in Tiers
  BY DEF WellFormed, TypeOK, References, Owns, AttemptsOf

LEMMA WellFormedStep == WellFormed /\ [Next]_vars => WellFormed'
<1> SUFFICES ASSUME WellFormed, [Next]_vars PROVE WellFormed'
  OBVIOUS
<1> USE DEF WellFormed
<1>1. ASSUME NEW client \in Clients, NEW key \in Keys \cup {None}, NEW c \in Conversations,
             NEW r \in Responses, NEW explicit \in BOOLEAN, NEW created \in RecentTimes,
             CreateTurn(client, key, c, r, explicit, created)
      PROVE  WellFormed'
  <2> DEFINE row == IF key = None THEN NoSession ELSE SeededSession(sessions[<<client, key>>], created)
  <2>1. created \in Nat
    BY DEF RecentTimes
  <2>2. row \in SessionRow
    BY <2>1, SeededSessionType, RowTypes DEF TypeOK
  <2>3. conversations' = [conversations EXCEPT ![c] =
            [client |-> client, key |-> key, created |-> created, pin |-> row.pin, floor |-> row.floor]]
    BY <1>1 DEF CreateTurn
  <2>4. sessions' = IF key = None THEN sessions ELSE [sessions EXCEPT ![<<client, key>>] = row]
    BY <1>1 DEF CreateTurn
  <2>5. /\ responses' = [responses EXCEPT ![r] = [conversation |-> c, status |-> "pending", explicit |-> explicit]]
        /\ responses[r].status = "absent" /\ conversations[c].client = None
        /\ UNCHANGED <<now, attempts, saved>>
    BY <1>1 DEF CreateTurn, InsertResponse
  <2> HIDE DEF row
  <2>6. TypeOK'
    BY <2>1, <2>2, <2>3, <2>4, <2>5 DEF TypeOK, ConversationRow, SessionRow, ResponseRow
  <2>7. References'
    BY <2>3, <2>5, RoutingStoreAssumption
    DEF TypeOK, References, ConversationOf, ConversationRow, ResponseRow
  <2> QED BY <2>6, <2>7
<1>2. ASSUME NEW client \in Clients, NEW previous \in Responses, NEW r \in Responses,
             NEW explicit \in BOOLEAN, ContinueTurn(client, previous, r, explicit)
      PROVE  WellFormed'
  <2>1. /\ ConversationOf(previous) \in Conversations
        /\ conversations[ConversationOf(previous)].client \in Clients
    BY <1>2, OwnedRows DEF ContinueTurn
  <2>2. TypeOK'
    BY <1>2, <2>1 DEF ContinueTurn, InsertResponse, TypeOK, ResponseRow
  <2>3. References'
    BY <1>2, <2>1
    DEF ContinueTurn, InsertResponse, TypeOK, References, ConversationOf, ResponseRow
  <2> QED BY <2>2, <2>3
<1>3. ASSUME NEW client \in Clients, NEW r \in Responses, NEW a \in Attempts,
             NEW model \in Models, NEW tier \in Tiers,
             BeginProviderAttempt(client, r, a, model, tier)
      PROVE  WellFormed'
  <2> DEFINE c == ConversationOf(r)
             pin == [model |-> model, tier |-> tier]
             floor == Maximum(conversations[c].floor, tier)
             row == [response |-> r, model |-> model, tier |-> tier,
                     seq |-> Cardinality(AttemptsOf(r)), status |-> "started", completed |-> 0]
  <2>1. /\ Owns(client, r) /\ responses[r].status # "absent" /\ c \in Conversations
        /\ conversations[c] \in ConversationRow /\ conversations[c].client = client
    BY <1>3, OwnedRows DEF BeginProviderAttempt
  <2>2. pin \in Pins /\ floor \in Tiers
    BY <2>1, RoutingStoreAssumption DEF Pins, ConversationRow, Maximum
  <2>3. row \in AttemptRow
    <3>1. Cardinality(AttemptsOf(r)) \in Nat
      BY RoutingStoreAssumption, FS_Subset, FS_CardinalityType DEF AttemptsOf
    <3> QED BY <3>1 DEF AttemptRow
  <2>4. attempts' = [attempts EXCEPT ![a] = row] /\ UNCHANGED <<now, responses, saved>>
    BY <1>3 DEF BeginProviderAttempt
  <2>5. \/ /\ conversations' = [conversations EXCEPT ![c] = Repinned(conversations[c], pin, floor)]
           /\ SyncSession(c, pin, floor, None)
        \/ UNCHANGED <<conversations, sessions>>
    BY <1>3 DEF BeginProviderAttempt
  <2> HIDE DEF pin, floor, row, c
  <2>6. conversations' \in [Conversations -> ConversationRow] /\ sessions' \in [SessionIDs -> SessionRow]
    BY <2>1, <2>2, <2>5, RowTypes, SyncSessionFacts DEF TypeOK
  <2>7. TypeOK'
    BY <2>3, <2>4, <2>6 DEF TypeOK
  <2>8. \A d \in Conversations : conversations'[d].client = conversations[d].client
    BY <2>1, <2>5 DEF TypeOK, Repinned
  <2>9. References'
    BY <2>1, <2>4, <2>8 DEF References, ConversationOf, TypeOK, row
  <2> QED BY <2>7, <2>9
<1>4. ASSUME NEW client \in Clients, NEW r \in Responses, NEW a \in Attempts,
             NEW usageKnown \in BOOLEAN, CommitConversationResult(client, r, a, usageKnown)
      PROVE  WellFormed'
  <2> DEFINE c == ConversationOf(r)
             pin == [model |-> attempts[a].model, tier |-> attempts[a].tier]
             floor == Maximum(conversations[c].floor, pin.tier)
             usage == IF usageKnown THEN pin.model ELSE None
  <2>1. /\ Owns(client, r) /\ responses[r].status # "absent" /\ c \in Conversations
        /\ conversations[c] \in ConversationRow /\ conversations[c].client = client
        /\ attempts[a].status = "started" /\ attempts[a].response = r
        /\ attempts[a].model \in Models /\ attempts[a].tier \in Tiers
    BY <1>4, OwnedRows DEF CommitConversationResult, LatestStarted
  <2>2. pin \in Pins /\ floor \in Tiers /\ usage \in Models \cup {None}
    BY <2>1, RoutingStoreAssumption DEF Pins, ConversationRow, Maximum
  <2>3. /\ attempts' = [attempts EXCEPT ![a] = Finished(attempts[a], "succeeded")]
        /\ responses' = [responses EXCEPT ![r].status = "completed"]
        /\ conversations' = [conversations EXCEPT ![c] = Repinned(conversations[c], pin, floor)]
        /\ SyncSession(c, pin, floor, usage)
        /\ UNCHANGED <<now, saved>>
    BY <1>4 DEF CommitConversationResult
  <2> HIDE DEF pin, floor, c, usage
  <2>4. conversations' \in [Conversations -> ConversationRow] /\ sessions' \in [SessionIDs -> SessionRow]
    BY <2>1, <2>2, <2>3, RowTypes, SyncSessionFacts DEF TypeOK
  <2>5. TypeOK'
    <3>1. attempts' \in [Attempts -> AttemptRow]
      BY <2>3 DEF TypeOK, Finished, AttemptRow
    <3>2. responses' \in [Responses -> ResponseRow]
      BY <2>3 DEF TypeOK, ResponseRow
    <3> QED BY <2>3, <2>4, <3>1, <3>2 DEF TypeOK
  <2>6. \A d \in Conversations : conversations'[d].client = conversations[d].client
    BY <2>1, <2>3 DEF TypeOK, Repinned
  <2>7. \A q \in Responses : /\ responses'[q].status = "absent" <=> responses[q].status = "absent"
                            /\ responses'[q].conversation = responses[q].conversation
    BY <2>1, <2>3 DEF TypeOK, ResponseRow
  <2>8. \A b \in Attempts : /\ attempts'[b].status = "absent" <=> attempts[b].status = "absent"
                           /\ attempts'[b].response = attempts[b].response
                           /\ attempts'[b].model = attempts[b].model
                           /\ attempts'[b].tier = attempts[b].tier
    BY <2>1, <2>3 DEF TypeOK, Finished
  <2>9. References'
    BY <2>6, <2>7, <2>8 DEF References, ConversationOf
  <2> QED BY <2>5, <2>9
<1>5. ASSUME NEW client \in Clients, NEW r \in Responses, NEW a \in Attempts,
             FailProviderAttempt(client, r, a)
      PROVE  WellFormed'
  <2>1. TypeOK'
    BY <1>5 DEF FailProviderAttempt, TypeOK, Finished, AttemptRow
  <2>2. References'
    BY <1>5 DEF FailProviderAttempt, TypeOK, References, ConversationOf, Finished, AttemptsOf
  <2> QED BY <2>1, <2>2
<1>6. ASSUME NEW client \in Clients, NEW r \in Responses, NEW a \in Attempts,
             RecordAttemptSavings(client, r, a)
      PROVE  WellFormed'
  BY <1>6 DEF RecordAttemptSavings, TypeOK, References, ConversationOf
<1>7. ASSUME NEW client \in Clients, NEW r \in Responses, NEW a \in Attempts,
             RaiseConversationFloor(client, r, a)
      PROVE  WellFormed'
  <2> DEFINE c == ConversationOf(r)
             floor == NextTier(attempts[a].tier)
  <2>1. /\ Owns(client, r) /\ c \in Conversations
        /\ conversations[c] \in ConversationRow /\ conversations[c].client = client
        /\ attempts[a].tier \in Tiers
    BY <1>7, OwnedRows DEF RaiseConversationFloor
  <2>2. floor \in Tiers /\ NoPin \in Pins /\ conversations[c].pin \in Pins
    <3>1. floor \in Tiers
      BY <2>1, RoutingStoreAssumption DEF NextTier
    <3> QED BY <2>1, <3>1, RowTypes DEF ConversationRow
  <2>3. UNCHANGED <<now, responses, attempts, saved>>
    BY <1>7 DEF RaiseConversationFloor
  <2>4. \/ /\ conversations' = [conversations EXCEPT ![c] = Repinned(conversations[c], conversations[c].pin, floor)]
           /\ SyncSession(c, NoPin, floor, None)
        \/ UNCHANGED <<conversations, sessions>>
    BY <1>7 DEF RaiseConversationFloor
  <2> HIDE DEF c, floor
  <2>5. conversations' \in [Conversations -> ConversationRow] /\ sessions' \in [SessionIDs -> SessionRow]
    BY <2>1, <2>2, <2>4, RowTypes, SyncSessionFacts DEF TypeOK
  <2>6. \A d \in Conversations : conversations'[d].client = conversations[d].client
    BY <2>1, <2>4 DEF TypeOK, Repinned
  <2> QED BY <2>3, <2>5, <2>6 DEF TypeOK, References, ConversationOf
<1>8. ASSUME NEW time \in RecentTimes, DeleteExpiredSessions(time)
      PROVE  WellFormed'
  BY <1>8, RowTypes DEF DeleteExpiredSessions, TypeOK, References, ConversationOf
<1>9. CASE Tick
  BY <1>9 DEF Tick, TypeOK, References, ConversationOf
<1>10. CASE UNCHANGED vars
  BY <1>10 DEF vars, TypeOK, References, ConversationOf
<1> QED
  BY <1>1, <1>2, <1>3, <1>4, <1>5, <1>6, <1>7, <1>8, <1>9, <1>10 DEF Next, Turn, Attempt

(* Every row the transactions write has its columns' types, and refers to   *)
(* rows that exist.                                                         *)
THEOREM TypeCorrect == Spec => []TypeOK
<1>1. Spec => []WellFormed
  BY WellFormedInit, WellFormedStep, PTL DEF Spec
<1>2. WellFormed => TypeOK
  BY DEF WellFormed
<1> QED BY <1>1, <1>2, PTL

-----------------------------------------------------------------------------
(* The inductive invariant behind the session and pin properties.  A live   *)
(* session was active no earlier than anything recorded of it; once it is   *)
(* forgotten, everything recorded of it is older than any timestamp a       *)
(* waiting transaction may still carry.                                     *)
ActiveSince(s, time) ==
    IF sessions[s].live THEN time <= sessions[s].updated
    ELSE SessionTTL > 0 /\ time + MaxLag < now

AnsweredIn(a) == ConversationOf(attempts[a].response)

Clock ==
    /\ \A c \in Conversations : conversations[c].created <= now
    /\ \A s \in SessionIDs : sessions[s].live =>
          sessions[s].created <= sessions[s].updated /\ sessions[s].updated <= now
    /\ \A a \in Attempts : Succeeded(a) => attempts[a].completed <= now

Activity ==
    \A s \in SessionIDs :
        /\ \A c \in Conversations : Bound(c, s) => ActiveSince(s, conversations[c].created)
        /\ \A a \in Attempts : Succeeded(a) /\ Bound(AnsweredIn(a), s) =>
              ActiveSince(s, attempts[a].completed)

RoutingInv ==
    /\ Clock
    /\ Activity
    /\ PinWithinFloor
    /\ AnswersWithinPin
    /\ SessionCoversConversations
    /\ SessionCoversAnswers
    /\ UsageNeedsPin

(* No attempt newly succeeds, and none is attributed elsewhere. *)
OldAnswers == \A a \in Attempts : Succeeded(a)' =>
    Succeeded(a) /\ attempts'[a] = attempts[a] /\ AnsweredIn(a)' = AnsweredIn(a)

(* A transaction that raises conversation c to (pin, floor), writes that    *)
(* back to its session, and may record an answer given in c.                *)
WriteBack(c, pin, sessionPin, floor, usage) ==
    /\ conversations[c].client \in Clients
    /\ pin.tier >= conversations[c].pin.tier /\ pin.tier <= floor
    /\ floor >= conversations[c].floor
    /\ sessionPin # pin => sessionPin = NoPin /\ pin = conversations[c].pin
    /\ usage # None => sessionPin # NoPin
    /\ conversations' = [conversations EXCEPT ![c] = Repinned(conversations[c], pin, floor)]
    /\ SyncSession(c, sessionPin, floor, usage)
    /\ now' = now
    /\ \A a \in Attempts : Succeeded(a)' =>
          \/ Succeeded(a) /\ attempts'[a] = attempts[a] /\ AnsweredIn(a)' = AnsweredIn(a)
          \/ /\ AnsweredIn(a)' = c /\ attempts'[a].tier <= pin.tier
             /\ attempts'[a].completed = now /\ sessionPin = pin

LEMMA PinTiers ==
    ASSUME NEW pin \in Pins
    PROVE  /\ pin.tier \in Int /\ pin.tier >= -1
           /\ pin = NoPin <=> pin.tier < 0
  BY RoutingStoreAssumption DEF Pins, NoPin

(* The types the arithmetic below rests on. *)
LEMMA Numbers ==
    ASSUME WellFormed
    PROVE  /\ now \in Nat
           /\ \A c \in Conversations :
                 /\ conversations[c].created \in Nat /\ conversations[c].floor \in Nat
                 /\ conversations[c].pin \in Pins /\ conversations[c].pin.tier \in Int
           /\ \A s \in SessionIDs :
                 /\ sessions[s] \in SessionRow
                 /\ sessions[s].created \in Nat /\ sessions[s].updated \in Nat
                 /\ sessions[s].floor \in Nat /\ sessions[s].live \in BOOLEAN
                 /\ sessions[s].pin \in Pins /\ sessions[s].pin.tier \in Int
           /\ \A a \in Attempts : attempts[a].tier \in Int /\ attempts[a].completed \in Nat
           /\ \A a \in Attempts : Succeeded(a) =>
                 /\ AnsweredIn(a) \in Conversations
                 /\ conversations[AnsweredIn(a)].client \in Clients
           /\ MaxLag \in Nat /\ SessionTTL \in Nat
<1>1. WellFormed /\ TypeOK /\ References
  BY DEF WellFormed
<1>2. \A c \in Conversations : conversations[c] \in ConversationRow
  BY <1>1 DEF TypeOK
<1>3. \A s \in SessionIDs : sessions[s] \in SessionRow
  BY <1>1 DEF TypeOK
<1>4. \A a \in Attempts : attempts[a].tier \in Int /\ attempts[a].completed \in Nat
  BY <1>1, RoutingStoreAssumption DEF TypeOK, AttemptRow
<1>5. \A a \in Attempts : Succeeded(a) =>
          /\ AnsweredIn(a) \in Conversations
          /\ conversations[AnsweredIn(a)].client \in Clients
  BY <1>1 DEF References, Succeeded, AnsweredIn
<1>6. \A c \in Conversations :
          /\ conversations[c].created \in Nat /\ conversations[c].floor \in Nat
          /\ conversations[c].pin \in Pins /\ conversations[c].pin.tier \in Int
  BY <1>2, PinTiers, RoutingStoreAssumption DEF ConversationRow
<1>7. \A s \in SessionIDs :
          /\ sessions[s].created \in Nat /\ sessions[s].updated \in Nat
          /\ sessions[s].floor \in Nat /\ sessions[s].live \in BOOLEAN
          /\ sessions[s].pin \in Pins /\ sessions[s].pin.tier \in Int
  BY <1>3, PinTiers, RoutingStoreAssumption DEF SessionRow
<1> QED BY <1>1, <1>3, <1>4, <1>5, <1>6, <1>7, RoutingStoreAssumption DEF TypeOK

(* Steps that leave conversations and sessions alone. *)
LEMMA QuietStep ==
    ASSUME WellFormed, WellFormed', RoutingInv, OldAnswers,
           UNCHANGED <<conversations, sessions>>, now' >= now
    PROVE  RoutingInv'
<1> USE Numbers
<1>1. now' \in Nat
  BY DEF WellFormed, TypeOK
<1>2. Clock'
  BY <1>1 DEF RoutingInv, Clock, OldAnswers
<1>3. Activity'
  BY <1>1 DEF RoutingInv, Activity, ActiveSince, OldAnswers, Bound
<1>4. (PinWithinFloor /\ SessionCoversConversations /\ UsageNeedsPin)'
  BY DEF RoutingInv, PinWithinFloor, SessionCoversConversations, UsageNeedsPin, Bound
<1>5. AnswersWithinPin'
  BY DEF RoutingInv, AnswersWithinPin, OldAnswers, AnsweredIn
<1>6. SessionCoversAnswers'
  BY DEF RoutingInv, SessionCoversAnswers, OldAnswers, AnsweredIn, Bound
<1> QED BY <1>2, <1>3, <1>4, <1>5, <1>6 DEF RoutingInv

(* A conversation's pin and floor rise and are written back. *)
LEMMA WriteBackStep ==
    ASSUME WellFormed, WellFormed', RoutingInv,
           NEW c \in Conversations, NEW pin \in Pins, NEW sessionPin \in Pins,
           NEW floor \in Tiers, NEW usage \in Models \cup {None},
           WriteBack(c, pin, sessionPin, floor, usage)
    PROVE  RoutingInv'
<1> DEFINE Merged(s) == MergedSession(sessions[s], sessionPin, floor, usage)
<1>1. /\ now \in Nat /\ now' = now /\ floor \in Nat
      /\ pin.tier \in Int /\ sessionPin.tier \in Int
  BY Numbers, PinTiers, RoutingStoreAssumption DEF WriteBack
<1>2. \A s \in SessionIDs : sessions'[s] = IF Bound(c, s) THEN Merged(s) ELSE sessions[s]
  BY SyncSessionFacts DEF WriteBack, WellFormed
<1>3. /\ conversations'[c].pin = pin /\ conversations'[c].floor = floor
      /\ \A d \in Conversations : d # c => conversations'[d] = conversations[d]
      /\ \A d \in Conversations : conversations'[d].created = conversations[d].created
      /\ \A d \in Conversations, s \in SessionIDs : Bound(d, s)' <=> Bound(d, s)
  BY DEF WriteBack, WellFormed, TypeOK, Repinned, Bound
<1>4. ASSUME NEW s \in SessionIDs, Bound(c, s)
      PROVE  /\ Merged(s).live /\ Merged(s).updated = now /\ Merged(s).created <= now
             /\ Merged(s).floor >= floor /\ Merged(s).pin.tier >= sessionPin.tier
             /\ sessions[s].live =>
                   /\ Merged(s).created = sessions[s].created
                   /\ Merged(s).floor >= sessions[s].floor
                   /\ Merged(s).pin.tier >= sessions[s].pin.tier
             /\ ~sessions[s].live => Merged(s).created = now
             /\ Merged(s).pin.tier <= Merged(s).floor
             /\ Merged(s).usage # None => Merged(s).pin # NoPin
             /\ Merged(s).floor \in Nat /\ Merged(s).pin.tier \in Int /\ Merged(s).created \in Nat
  <2>1. sessions[s] \in SessionRow /\ sessions[s].pin \in Pins
    BY Numbers
  <2>2. Merged(s) \in SessionRow
    BY <1>1, <2>1, MergedSessionFacts
  <2>3. Merged(s).floor \in Nat /\ Merged(s).created \in Nat /\ Merged(s).pin \in Pins
    BY <2>2, RoutingStoreAssumption DEF SessionRow
  <2>4. sessions[s].updated \in Nat /\ sessions[s].created \in Nat /\ sessions[s].floor \in Nat
        /\ sessions[s].pin.tier \in Int
    BY Numbers
  <2>5. sessions[s].live => sessions[s].created <= sessions[s].updated /\ sessions[s].updated <= now
    BY DEF RoutingInv, Clock
  <2>6. sessionPin.tier <= floor /\ sessions[s].pin.tier <= sessions[s].floor
    BY <1>1, PinTiers DEF WriteBack, RoutingInv, PinWithinFloor
  <2>7. sessions[s].usage # None => sessions[s].pin # NoPin
    BY DEF RoutingInv, UsageNeedsPin
  <2>8. usage # None => sessionPin # NoPin
    BY DEF WriteBack
  <2>9. CASE sessions[s].live
    <3>1. /\ Merged(s).live
          /\ Merged(s).created = sessions[s].created
          /\ Merged(s).updated = Maximum(sessions[s].updated, now)
          /\ Merged(s).floor = Maximum(sessions[s].floor, floor)
          /\ Merged(s).pin \in {sessions[s].pin, sessionPin}
          /\ Merged(s).pin.tier >= sessions[s].pin.tier
          /\ Merged(s).pin.tier >= sessionPin.tier
          /\ Merged(s).usage \in {sessions[s].usage, usage}
      BY <1>1, <2>1, <2>9, MergedSessionFacts
    <3> HIDE DEF Merged
    <3> QED BY <1>1, <2>1, <2>3, <2>4, <2>5, <2>6, <2>7, <2>8, <2>9, <3>1, PinTiers DEF Maximum
  <2>10. CASE ~sessions[s].live
    <3>1. /\ Merged(s).live
          /\ Merged(s).created = now
          /\ Merged(s).updated = now
          /\ Merged(s).floor = floor
          /\ Merged(s).pin \in {sessionPin, NoPin}
          /\ Merged(s).pin.tier >= sessionPin.tier
          /\ Merged(s).usage \in {None, usage}
      BY <1>1, <2>1, <2>10, MergedSessionFacts
    <3> HIDE DEF Merged
    <3> QED BY <1>1, <2>3, <2>6, <2>8, <2>10, <3>1, PinTiers
  <2> QED BY <2>9, <2>10
<1> HIDE DEF Merged
<1>5. ASSUME NEW a \in Attempts, Succeeded(a)'
      PROVE  \/ /\ Succeeded(a) /\ attempts'[a] = attempts[a]
                /\ AnsweredIn(a)' = AnsweredIn(a) /\ AnsweredIn(a) \in Conversations
                /\ attempts[a].tier \in Int /\ attempts[a].completed \in Nat
                /\ attempts[a].completed <= now
             \/ /\ AnsweredIn(a)' = c /\ attempts'[a].tier <= pin.tier
                /\ attempts'[a].completed = now /\ sessionPin = pin
  BY <1>5, Numbers DEF WriteBack, RoutingInv, Clock
<1>6. \A a \in Attempts : attempts'[a].tier \in Int /\ attempts'[a].completed \in Nat
  BY RoutingStoreAssumption DEF WellFormed, TypeOK, AttemptRow
<1>7. Clock'
  BY <1>1, <1>2, <1>3, <1>4, <1>5, Numbers DEF RoutingInv, Clock
<1>8. Activity'
  <2>1. \A s \in SessionIDs, time \in Nat :
            (Bound(c, s) /\ time <= now) \/ (~Bound(c, s) /\ ActiveSince(s, time)) => ActiveSince(s, time)'
    BY <1>1, <1>2, <1>4 DEF ActiveSince
  <2>2. \A d \in Conversations, s \in SessionIDs : Bound(d, s)' =>
            ActiveSince(s, conversations[d].created)'
    BY <1>3, <2>1, Numbers DEF RoutingInv, Activity, Clock
  <2>3. ASSUME NEW a \in Attempts, NEW s \in SessionIDs, Succeeded(a)', Bound(AnsweredIn(a), s)'
        PROVE  ActiveSince(s, attempts[a].completed)'
    <3>1. CASE /\ Succeeded(a) /\ attempts'[a] = attempts[a]
               /\ AnsweredIn(a)' = AnsweredIn(a) /\ AnsweredIn(a) \in Conversations
               /\ attempts[a].completed \in Nat /\ attempts[a].completed <= now
      <4>1. Bound(AnsweredIn(a), s)
        BY <1>3, <2>3, <3>1 DEF Bound
      <4>2. ActiveSince(s, attempts[a].completed)
        BY <3>1, <4>1 DEF RoutingInv, Activity
      <4>3. ActiveSince(s, attempts[a].completed)' <=>
              IF sessions'[s].live THEN attempts[a].completed <= sessions'[s].updated
              ELSE SessionTTL > 0 /\ attempts[a].completed + MaxLag < now'
        BY <3>1 DEF ActiveSince
      <4> QED BY <1>1, <1>2, <1>4, <3>1, <4>2, <4>3 DEF ActiveSince
    <3>2. CASE AnsweredIn(a)' = c /\ attempts'[a].completed = now
      <4>1. Bound(c, s)
        BY <1>3, <2>3, <3>2 DEF Bound
      <4> QED BY <1>1, <1>2, <1>4, <3>2, <4>1 DEF ActiveSince
    <3> QED BY <1>5, <2>3, <3>1, <3>2
  <2> QED BY <2>2, <2>3 DEF Activity
<1>9. PinWithinFloor'
  BY <1>1, <1>2, <1>3, <1>4 DEF RoutingInv, PinWithinFloor, WriteBack
<1>10. AnswersWithinPin'
  <2> SUFFICES ASSUME NEW a \in Attempts, Succeeded(a)'
               PROVE  attempts'[a].tier <= conversations'[AnsweredIn(a)'].pin.tier
    BY DEF AnswersWithinPin, AnsweredIn
  <2>1. \A d \in Conversations : conversations'[d].pin.tier >= conversations[d].pin.tier
    BY <1>3, Numbers DEF WriteBack
  <2>2. \A d \in Conversations : conversations'[d].pin.tier \in Int /\ conversations[d].pin.tier \in Int
    BY <1>1, <1>3, Numbers
  <2>3. Succeeded(a) => attempts[a].tier <= conversations[AnsweredIn(a)].pin.tier
    BY DEF RoutingInv, AnswersWithinPin, AnsweredIn
  <2> QED BY <1>3, <1>5, <1>6, <2>1, <2>2, <2>3
<1>11. SessionCoversConversations'
  <2> SUFFICES ASSUME NEW s \in SessionIDs, NEW d \in Conversations,
                      sessions'[s].live, Bound(d, s),
                      conversations[d].created >= sessions'[s].created
               PROVE  /\ conversations'[d].floor <= sessions'[s].floor
                      /\ conversations'[d].pin.tier <= sessions'[s].pin.tier
    BY <1>3 DEF SessionCoversConversations
  <2>1. CASE ~Bound(c, s)
    BY <1>2, <1>3, <2>1 DEF RoutingInv, SessionCoversConversations
  <2>2. CASE Bound(c, s) /\ ~sessions[s].live
    <3>1. conversations[d].created + MaxLag < now
      BY <2>2 DEF RoutingInv, Activity, ActiveSince
    <3> QED BY <1>1, <1>2, <1>4, <2>2, <3>1, Numbers
  <2>3. CASE Bound(c, s) /\ sessions[s].live
    <3>1. /\ conversations[d].floor <= sessions[s].floor
          /\ conversations[d].pin.tier <= sessions[s].pin.tier
      BY <1>2, <1>4, <2>3 DEF RoutingInv, SessionCoversConversations
    <3>2. conversations'[d].floor <= sessions'[s].floor
      BY <1>1, <1>2, <1>3, <1>4, <2>3, <3>1, Numbers
    <3>3. sessionPin = pin \/ pin = conversations[c].pin
      BY DEF WriteBack
    <3>4. conversations'[d].pin.tier <= sessions'[s].pin.tier
      BY <1>1, <1>2, <1>3, <1>4, <2>3, <3>1, <3>3, Numbers
    <3> QED BY <3>2, <3>4
  <2> QED BY <2>1, <2>2, <2>3
<1>12. SessionCoversAnswers'
  <2> SUFFICES ASSUME NEW s \in SessionIDs, NEW a \in Attempts,
                      sessions'[s].live, Succeeded(a)', Bound(AnsweredIn(a), s)',
                      attempts'[a].completed >= sessions'[s].created
               PROVE  attempts'[a].tier <= sessions'[s].pin.tier
    BY DEF SessionCoversAnswers, AnsweredIn
  <2>1. CASE /\ Succeeded(a) /\ attempts'[a] = attempts[a]
             /\ AnsweredIn(a)' = AnsweredIn(a) /\ AnsweredIn(a) \in Conversations
             /\ attempts[a].tier \in Int /\ attempts[a].completed \in Nat
    <3>1. Bound(AnsweredIn(a), s)
      BY <1>3, <2>1 DEF Bound
    <3>2. CASE ~sessions[s].live
      <4>1. attempts[a].completed + MaxLag < now
        BY <2>1, <3>1, <3>2 DEF RoutingInv, Activity, ActiveSince
      <4> QED BY <1>1, <1>2, <1>4, <2>1, <3>2, <4>1, Numbers
    <3>3. CASE sessions[s].live
      <4>1. sessions'[s].created = sessions[s].created /\ sessions'[s].pin.tier >= sessions[s].pin.tier
        BY <1>2, <1>4, <3>3, Numbers
      <4>2. attempts[a].tier <= sessions[s].pin.tier
        BY <2>1, <3>1, <3>3, <4>1 DEF RoutingInv, SessionCoversAnswers, AnsweredIn
      <4>3. sessions'[s].pin.tier \in Int
        BY <1>2, <1>4, Numbers
      <4> QED BY <2>1, <4>1, <4>2, <4>3, Numbers
    <3> QED BY <3>2, <3>3
  <2>2. CASE AnsweredIn(a)' = c /\ attempts'[a].tier <= pin.tier /\ sessionPin = pin
    <3>1. Bound(c, s)
      BY <1>3, <2>2 DEF Bound
    <3> QED BY <1>1, <1>2, <1>4, <1>6, <2>2, <3>1
  <2> QED BY <1>5, <2>1, <2>2
<1>13. UsageNeedsPin'
  BY <1>2, <1>4 DEF RoutingInv, UsageNeedsPin
<1> QED BY <1>7, <1>8, <1>9, <1>10, <1>11, <1>12, <1>13 DEF RoutingInv

(* Opening a conversation, inside or outside a session. *)
LEMMA CreateTurnStep ==
    ASSUME WellFormed, WellFormed', RoutingInv,
           NEW client \in Clients, NEW key \in Keys \cup {None}, NEW c \in Conversations,
           NEW r \in Responses, NEW explicit \in BOOLEAN, NEW created \in RecentTimes,
           CreateTurn(client, key, c, r, explicit, created)
    PROVE  RoutingInv'
<1> DEFINE bound == <<client, key>>
           row == IF key = None THEN NoSession ELSE SeededSession(sessions[bound], created)
<1>1. /\ conversations' = [conversations EXCEPT ![c] =
             [client |-> client, key |-> key, created |-> created, pin |-> row.pin, floor |-> row.floor]]
      /\ sessions' = IF key = None THEN sessions ELSE [sessions EXCEPT ![bound] = row]
      /\ responses' = [responses EXCEPT ![r] = [conversation |-> c, status |-> "pending", explicit |-> explicit]]
      /\ responses[r].status = "absent" /\ conversations[c].client = None
      /\ now' = now /\ attempts' = attempts
  BY DEF CreateTurn, InsertResponse
<1>2. created \in Nat /\ now \in Nat /\ created <= now /\ created + MaxLag >= now
  BY Numbers DEF RecentTimes
<1>3. /\ None \notin Clients /\ None \notin Keys
      /\ MaxLag \in Nat /\ SessionTTL \in Nat /\ NoPin \in Pins /\ NoPin.tier = -1
  BY RoutingStoreAssumption, RowTypes DEF NoPin
<1>4. /\ conversations'[c].created = created
      /\ conversations'[c].pin = row.pin /\ conversations'[c].floor = row.floor
      /\ \A d \in Conversations : d # c => conversations'[d] = conversations[d]
      /\ \A s \in SessionIDs : Bound(c, s)' <=> s = bound /\ key # None
      /\ \A s \in SessionIDs : ~Bound(c, s)
      /\ \A d \in Conversations, s \in SessionIDs : d # c => (Bound(d, s)' <=> Bound(d, s))
  <2> HIDE DEF row
  <2> QED BY <1>1, <1>3 DEF WellFormed, TypeOK, Bound
<1>5. \A s \in SessionIDs :
          sessions'[s] = IF s = bound /\ key # None THEN row ELSE sessions[s]
  <2> HIDE DEF row
  <2> QED BY <1>1, <1>3 DEF WellFormed, TypeOK
<1>6. \A a \in Attempts : Succeeded(a)' =>
          /\ Succeeded(a) /\ attempts'[a] = attempts[a]
          /\ AnsweredIn(a)' = AnsweredIn(a) /\ AnsweredIn(a) \in Conversations /\ AnsweredIn(a) # c
  BY <1>1, <1>3, Numbers DEF WellFormed, TypeOK, References, Succeeded, AnsweredIn, ConversationOf
<1>7. ASSUME key # None
      PROVE  /\ bound \in SessionIDs
             /\ row.live /\ row.created \in Nat /\ row.updated \in Nat
             /\ row.created <= row.updated /\ row.updated <= now /\ created <= row.updated
             /\ row.pin \in Pins /\ row.floor \in Nat /\ row.pin.tier <= row.floor
             /\ row.usage # None => row.pin # NoPin
             /\ \/ /\ sessions[bound].live /\ row.created = sessions[bound].created
                   /\ row.updated >= sessions[bound].updated
                   /\ row.pin = sessions[bound].pin /\ row.floor = sessions[bound].floor
                \/ /\ row.created = created /\ row.updated = created
                   /\ sessions[bound].live => sessions[bound].updated < created
  <2>1. bound \in SessionIDs /\ row = SeededSession(sessions[bound], created)
    BY <1>7
  <2>2. /\ sessions[bound].created \in Nat /\ sessions[bound].updated \in Nat
        /\ sessions[bound].floor \in Nat /\ sessions[bound].pin \in Pins
        /\ sessions[bound].pin.tier \in Int
    BY <2>1, Numbers
  <2>3. CASE ~sessions[bound].live \/ IdleAt(sessions[bound], created)
    <3>1. row = FreshSession(created)
      BY <2>1, <2>3 DEF SeededSession
    <3>2. sessions[bound].live => sessions[bound].updated < created
      BY <1>2, <1>3, <2>2, <2>3 DEF IdleAt
    <3> HIDE DEF row, bound
    <3> QED BY <1>2, <1>3, <2>1, <3>1, <3>2 DEF FreshSession
  <2>4. CASE ~(~sessions[bound].live \/ IdleAt(sessions[bound], created))
    <3>1. row = [sessions[bound] EXCEPT !.updated = Maximum(sessions[bound].updated, created)]
      BY <2>1, <2>4 DEF SeededSession
    <3>2. sessions[bound] \in SessionRow
      BY <2>1, Numbers
    <3>3. /\ row.live = sessions[bound].live /\ row.created = sessions[bound].created
          /\ row.pin = sessions[bound].pin /\ row.floor = sessions[bound].floor
          /\ row.usage = sessions[bound].usage
          /\ row.updated = Maximum(sessions[bound].updated, created)
      BY <3>1, <3>2 DEF SessionRow
    <3>4. /\ sessions[bound].created <= sessions[bound].updated /\ sessions[bound].updated <= now
          /\ sessions[bound].pin.tier <= sessions[bound].floor
          /\ sessions[bound].usage # None => sessions[bound].pin # NoPin
      BY <2>1, <2>4 DEF RoutingInv, Clock, PinWithinFloor, UsageNeedsPin
    <3> HIDE DEF row, bound
    <3> QED BY <1>2, <2>1, <2>2, <2>4, <3>3, <3>4 DEF Maximum
  <2> QED BY <2>3, <2>4
<1>8. key = None => row.pin = NoPin /\ row.floor = 0
  BY DEF NoSession
<1> HIDE DEF row, bound
<1>9. Clock'
  BY <1>1, <1>2, <1>4, <1>5, <1>6, <1>7 DEF RoutingInv, Clock
<1>10. Activity'
  <2>1. \A s \in SessionIDs, time \in Nat : ActiveSince(s, time) => ActiveSince(s, time)'
    BY <1>1, <1>2, <1>3, <1>5, <1>7, Numbers DEF ActiveSince
  <2>2. ASSUME NEW d \in Conversations, NEW s \in SessionIDs, Bound(d, s)'
        PROVE  ActiveSince(s, conversations[d].created)'
    <3>1. CASE d # c
      <4>1. ActiveSince(s, conversations[d].created) /\ conversations[d].created \in Nat
        BY <1>4, <2>2, <3>1, Numbers DEF RoutingInv, Activity
      <4>2. ActiveSince(s, conversations[d].created)' <=>
              IF sessions'[s].live THEN conversations[d].created <= sessions'[s].updated
              ELSE SessionTTL > 0 /\ conversations[d].created + MaxLag < now'
        BY <1>4, <3>1 DEF ActiveSince
      <4> QED BY <2>1, <4>1, <4>2 DEF ActiveSince
    <3>2. CASE d = c
      BY <1>4, <1>5, <1>7, <2>2, <3>2 DEF ActiveSince
    <3> QED BY <3>1, <3>2
  <2>3. ASSUME NEW a \in Attempts, NEW s \in SessionIDs, Succeeded(a)', Bound(AnsweredIn(a), s)'
        PROVE  ActiveSince(s, attempts[a].completed)'
    <3>1. /\ Succeeded(a) /\ attempts' = attempts /\ Bound(AnsweredIn(a), s)
          /\ attempts[a].completed \in Nat
      BY <1>1, <1>4, <1>6, <2>3, Numbers DEF Bound
    <3>2. ActiveSince(s, attempts[a].completed)
      BY <3>1 DEF RoutingInv, Activity
    <3>3. ActiveSince(s, attempts[a].completed)' <=>
            IF sessions'[s].live THEN attempts[a].completed <= sessions'[s].updated
            ELSE SessionTTL > 0 /\ attempts[a].completed + MaxLag < now'
      BY <3>1 DEF ActiveSince
    <3> QED BY <2>1, <3>1, <3>2, <3>3 DEF ActiveSince
  <2> QED BY <2>2, <2>3 DEF Activity
<1>11. PinWithinFloor'
  BY <1>3, <1>4, <1>5, <1>7, <1>8 DEF RoutingInv, PinWithinFloor
<1>12. AnswersWithinPin'
  BY <1>4, <1>6 DEF RoutingInv, AnswersWithinPin, AnsweredIn
<1>13. SessionCoversConversations'
  <2> SUFFICES ASSUME NEW s \in SessionIDs, NEW d \in Conversations,
                      sessions'[s].live, Bound(d, s)',
                      conversations'[d].created >= sessions'[s].created
               PROVE  /\ conversations'[d].floor <= sessions'[s].floor
                      /\ conversations'[d].pin.tier <= sessions'[s].pin.tier
    BY DEF SessionCoversConversations
  <2>1. CASE d = c
    <3>1. sessions'[s] = row /\ key # None
      BY <1>4, <1>5, <2>1
    <3> QED BY <1>4, <1>7, <2>1, <3>1, PinTiers
  <2>2. CASE d # c /\ ~(s = bound /\ key # None)
    BY <1>4, <1>5, <2>2 DEF RoutingInv, SessionCoversConversations
  <2>3. CASE d # c /\ s = bound /\ key # None
    <3>1. Bound(d, s) /\ conversations'[d] = conversations[d] /\ sessions'[s] = row
      BY <1>4, <1>5, <2>3
    <3>2. CASE sessions[bound].live /\ row.created = sessions[bound].created
               /\ row.pin = sessions[bound].pin /\ row.floor = sessions[bound].floor
      BY <2>3, <3>1, <3>2 DEF RoutingInv, SessionCoversConversations
    <3>3. CASE row.created = created /\ (sessions[bound].live => sessions[bound].updated < created)
      <4>1. ActiveSince(s, conversations[d].created)
        BY <3>1 DEF RoutingInv, Activity
      <4>2. conversations[d].created < created
        BY <1>2, <1>3, <2>3, <3>3, <4>1, Numbers DEF ActiveSince
      <4> QED BY <1>2, <3>1, <3>3, <4>2, Numbers
    <3> QED BY <1>7, <2>3, <3>2, <3>3
  <2> QED BY <2>1, <2>2, <2>3
<1>14. SessionCoversAnswers'
  <2> SUFFICES ASSUME NEW s \in SessionIDs, NEW a \in Attempts,
                      sessions'[s].live, Succeeded(a)', Bound(AnsweredIn(a), s)',
                      attempts'[a].completed >= sessions'[s].created
               PROVE  attempts'[a].tier <= sessions'[s].pin.tier
    BY DEF SessionCoversAnswers, AnsweredIn
  <2>1. Succeeded(a) /\ attempts'[a] = attempts[a] /\ Bound(AnsweredIn(a), s)
    BY <1>4, <1>6 DEF Bound
  <2>2. CASE ~(s = bound /\ key # None)
    BY <1>5, <2>1, <2>2 DEF RoutingInv, SessionCoversAnswers, AnsweredIn
  <2>3. CASE s = bound /\ key # None
    <3>1. sessions'[s] = row
      BY <1>5, <2>3
    <3>2. CASE sessions[bound].live /\ row.created = sessions[bound].created
               /\ row.pin = sessions[bound].pin
      BY <2>1, <2>3, <3>1, <3>2 DEF RoutingInv, SessionCoversAnswers, AnsweredIn
    <3>3. CASE row.created = created /\ (sessions[bound].live => sessions[bound].updated < created)
      <4>1. ActiveSince(s, attempts[a].completed)
        BY <2>1 DEF RoutingInv, Activity
      <4>2. attempts[a].completed < created
        BY <1>2, <1>3, <2>3, <3>3, <4>1, Numbers DEF ActiveSince
      <4> QED BY <1>2, <2>1, <3>1, <3>3, <4>2, Numbers
    <3> QED BY <1>7, <2>3, <3>2, <3>3
  <2> QED BY <2>2, <2>3
<1>15. UsageNeedsPin'
  BY <1>5, <1>7 DEF RoutingInv, UsageNeedsPin
<1> QED BY <1>9, <1>10, <1>11, <1>12, <1>13, <1>14, <1>15 DEF RoutingInv

(* Forgetting idle sessions. *)
LEMMA SweepStep ==
    ASSUME WellFormed, WellFormed', RoutingInv,
           NEW time \in RecentTimes, DeleteExpiredSessions(time)
    PROVE  RoutingInv'
<1>1. /\ SessionTTL > 0 /\ now \in Nat /\ time \in Nat /\ time <= now
      /\ MaxLag \in Nat /\ SessionTTL \in Nat /\ MaxLag <= SessionTTL
  BY Numbers, RoutingStoreAssumption DEF DeleteExpiredSessions, RecentTimes
<1>2. UNCHANGED <<now, conversations, responses, attempts>>
  BY DEF DeleteExpiredSessions
<1>3. \A s \in SessionIDs :
          \/ sessions'[s] = sessions[s]
          \/ /\ sessions[s].live /\ sessions[s].updated + MaxLag < now
             /\ sessions'[s] = NoSession
  BY <1>1, Numbers DEF DeleteExpiredSessions, IdleAt
<1>4. ~NoSession.live /\ NoSession.pin.tier <= NoSession.floor /\ NoSession.usage = None
  BY DEF NoSession, NoPin
<1>5. Clock'
  BY <1>2, <1>3, <1>4 DEF RoutingInv, Clock, Succeeded
<1>6. \A s \in SessionIDs, t \in Nat : ActiveSince(s, t) => ActiveSince(s, t)'
  BY <1>1, <1>2, <1>3, <1>4, Numbers DEF ActiveSince
<1>7. Activity'
  <2>1. \A s \in SessionIDs, d \in Conversations : Bound(d, s)' =>
            Bound(d, s) /\ ActiveSince(s, conversations[d].created)'
    BY <1>2, <1>6, Numbers DEF RoutingInv, Activity, Bound, ActiveSince
  <2>2. \A s \in SessionIDs, a \in Attempts : Succeeded(a)' /\ Bound(AnsweredIn(a), s)' =>
            ActiveSince(s, attempts[a].completed)'
    BY <1>2, <1>6, Numbers
    DEF RoutingInv, Activity, Bound, ActiveSince, Succeeded, AnsweredIn, ConversationOf
  <2> QED BY <2>1, <2>2 DEF Activity
<1>8. (PinWithinFloor /\ AnswersWithinPin /\ UsageNeedsPin)'
  BY <1>2, <1>3, <1>4
  DEF RoutingInv, PinWithinFloor, AnswersWithinPin, UsageNeedsPin, Succeeded, ConversationOf
<1>9. (SessionCoversConversations /\ SessionCoversAnswers)'
  BY <1>2, <1>3, <1>4
  DEF RoutingInv, SessionCoversConversations, SessionCoversAnswers, Bound, Succeeded, ConversationOf
<1> QED BY <1>5, <1>7, <1>8, <1>9 DEF RoutingInv

(* Which abstract step each transaction takes. *)
RoutingStep ==
    \/ /\ OldAnswers
       /\ UNCHANGED <<conversations, sessions>> /\ now' >= now
    \/ \E c \in Conversations, pin \in Pins, sessionPin \in Pins, floor \in Tiers,
          usage \in Models \cup {None} : WriteBack(c, pin, sessionPin, floor, usage)
    \/ \E client \in Clients, key \in Keys \cup {None}, c \in Conversations, r \in Responses,
          explicit \in BOOLEAN, created \in RecentTimes :
          CreateTurn(client, key, c, r, explicit, created)
    \/ \E time \in RecentTimes : DeleteExpiredSessions(time)

LEMMA EveryStep == WellFormed /\ RoutingInv /\ [Next]_vars => RoutingStep
<1> SUFFICES ASSUME WellFormed, RoutingInv, [Next]_vars PROVE RoutingStep
  OBVIOUS
<1> USE Numbers
<1>1. ASSUME NEW client \in Clients, NEW previous \in Responses, NEW r \in Responses,
             NEW explicit \in BOOLEAN, ContinueTurn(client, previous, r, explicit)
      PROVE  RoutingStep
  <2>1. OldAnswers
    BY <1>1 DEF ContinueTurn, InsertResponse, OldAnswers, Succeeded, AnsweredIn, ConversationOf,
                WellFormed, TypeOK, References
  <2> QED BY <1>1, <2>1 DEF ContinueTurn, RoutingStep
<1>2. ASSUME NEW client \in Clients, NEW r \in Responses, NEW a \in Attempts,
             NEW model \in Models, NEW tier \in Tiers,
             BeginProviderAttempt(client, r, a, model, tier)
      PROVE  RoutingStep
  <2> DEFINE c == ConversationOf(r)
             pin == [model |-> model, tier |-> tier]
             floor == Maximum(conversations[c].floor, tier)
  <2>1. /\ c \in Conversations /\ conversations[c] \in ConversationRow
        /\ conversations[c].client \in Clients
    BY <1>2, OwnedRows DEF BeginProviderAttempt
  <2>2. /\ pin \in Pins /\ floor \in Tiers /\ None \in Models \cup {None}
        /\ pin.tier <= floor /\ floor >= conversations[c].floor
    BY <2>1, RoutingStoreAssumption DEF Pins, ConversationRow, Maximum
  <2>3. OldAnswers
    <3>1. attempts' = [attempts EXCEPT ![a] =
             [response |-> r, model |-> model, tier |-> tier,
              seq |-> Cardinality(AttemptsOf(r)), status |-> "started", completed |-> 0]]
      BY <1>2 DEF BeginProviderAttempt
    <3>2. attempts'[a].status = "started" /\ \A b \in Attempts : b # a => attempts'[b] = attempts[b]
      BY <3>1 DEF WellFormed, TypeOK
    <3>3. responses' = responses
      BY <1>2 DEF BeginProviderAttempt
    <3> QED BY <3>2, <3>3 DEF OldAnswers, Succeeded, AnsweredIn, ConversationOf
  <2>4. CASE conversations[c].pin = NoPin
    <3>1. /\ conversations' = [conversations EXCEPT ![c] = Repinned(conversations[c], pin, floor)]
          /\ SyncSession(c, pin, floor, None) /\ now' = now
          /\ tier >= conversations[c].pin.tier
      BY <1>2, <2>4 DEF BeginProviderAttempt, TierAccepted
    <3>2. WriteBack(c, pin, pin, floor, None)
      BY <2>1, <2>2, <2>3, <3>1 DEF WriteBack, OldAnswers
    <3> QED BY <2>1, <2>2, <3>2 DEF RoutingStep
  <2>5. CASE conversations[c].pin # NoPin
    BY <1>2, <2>3, <2>5 DEF BeginProviderAttempt, RoutingStep
  <2> QED BY <2>4, <2>5
<1>3. ASSUME NEW client \in Clients, NEW r \in Responses, NEW a \in Attempts,
             NEW usageKnown \in BOOLEAN, CommitConversationResult(client, r, a, usageKnown)
      PROVE  RoutingStep
  <2> DEFINE c == ConversationOf(r)
             pin == [model |-> attempts[a].model, tier |-> attempts[a].tier]
             floor == Maximum(conversations[c].floor, pin.tier)
             usage == IF usageKnown THEN pin.model ELSE None
  <2>1. /\ c \in Conversations /\ conversations[c] \in ConversationRow
        /\ conversations[c].client \in Clients
        /\ attempts[a].status = "started" /\ attempts[a].response = r
        /\ attempts[a].model \in Models /\ attempts[a].tier \in Tiers
    BY <1>3, OwnedRows DEF CommitConversationResult, LatestStarted
  <2>2. /\ pin \in Pins /\ floor \in Tiers /\ usage \in Models \cup {None}
        /\ pin.tier <= floor /\ floor >= conversations[c].floor /\ pin # NoPin
    BY <2>1, RoutingStoreAssumption DEF Pins, ConversationRow, Maximum, NoPin
  <2>3. /\ attempts' = [attempts EXCEPT ![a] = Finished(attempts[a], "succeeded")]
        /\ responses' = [responses EXCEPT ![r].status = "completed"]
        /\ conversations' = [conversations EXCEPT ![c] = Repinned(conversations[c], pin, floor)]
        /\ SyncSession(c, pin, floor, usage)
        /\ now' = now /\ pin.tier >= conversations[c].pin.tier
    BY <1>3 DEF CommitConversationResult, TierAccepted
  <2>4. /\ \A b \in Attempts : b # a => attempts'[b] = attempts[b]
        /\ attempts'[a] = Finished(attempts[a], "succeeded")
        /\ \A q \in Responses : responses'[q].conversation = responses[q].conversation
    BY <2>3 DEF WellFormed, TypeOK, ResponseRow
  <2>5. ASSUME NEW b \in Attempts, Succeeded(b)', b # a
        PROVE  Succeeded(b) /\ attempts'[b] = attempts[b] /\ AnsweredIn(b)' = AnsweredIn(b)
    BY <2>4, <2>5 DEF Succeeded, AnsweredIn, ConversationOf, WellFormed, References
  <2>6. /\ AnsweredIn(a)' = c /\ attempts'[a].tier = pin.tier /\ attempts'[a].completed = now
    BY <2>1, <2>4 DEF AnsweredIn, ConversationOf, Finished
  <2>7. pin.tier \in Int
    BY <2>1, RoutingStoreAssumption
  <2> HIDE DEF c, pin, floor, usage
  <2>8. WriteBack(c, pin, pin, floor, usage)
    BY <2>1, <2>2, <2>3, <2>5, <2>6, <2>7 DEF WriteBack
  <2> QED BY <2>1, <2>2, <2>8 DEF RoutingStep
<1>4. ASSUME NEW client \in Clients, NEW r \in Responses, NEW a \in Attempts,
             RaiseConversationFloor(client, r, a)
      PROVE  RoutingStep
  <2> DEFINE c == ConversationOf(r)
             floor == NextTier(attempts[a].tier)
  <2>1. /\ c \in Conversations /\ conversations[c] \in ConversationRow
        /\ conversations[c].client \in Clients /\ attempts[a].tier \in Tiers
    BY <1>4, OwnedRows DEF RaiseConversationFloor
  <2>2. floor \in Tiers
    BY <2>1, RoutingStoreAssumption DEF NextTier
  <2>3. OldAnswers
    BY <1>4 DEF RaiseConversationFloor, OldAnswers, Succeeded, AnsweredIn, ConversationOf
  <2>4. CASE floor > conversations[c].floor
    <3>1. /\ conversations' = [conversations EXCEPT ![c] = Repinned(conversations[c], conversations[c].pin, floor)]
          /\ SyncSession(c, NoPin, floor, None) /\ now' = now
      BY <1>4, <2>4 DEF RaiseConversationFloor
    <3>2. conversations[c].pin.tier <= conversations[c].floor
      BY <2>1 DEF RoutingInv, PinWithinFloor
    <3>3. WriteBack(c, conversations[c].pin, NoPin, floor, None)
      BY <2>1, <2>2, <2>3, <2>4, <3>1, <3>2, RoutingStoreAssumption DEF WriteBack, OldAnswers
    <3> QED BY <2>1, <2>2, <3>3, RowTypes DEF RoutingStep
  <2>5. CASE ~(floor > conversations[c].floor)
    BY <1>4, <2>3, <2>5 DEF RaiseConversationFloor, RoutingStep
  <2> QED BY <2>4, <2>5
<1>5. ASSUME NEW client \in Clients, NEW r \in Responses, NEW a \in Attempts,
             FailProviderAttempt(client, r, a)
      PROVE  RoutingStep
  <2>1. OldAnswers
    BY <1>5 DEF FailProviderAttempt, OldAnswers, Succeeded, AnsweredIn, ConversationOf, Finished,
                WellFormed, TypeOK
  <2> QED BY <1>5, <2>1 DEF FailProviderAttempt, RoutingStep
<1>6. ASSUME NEW client \in Clients, NEW r \in Responses, NEW a \in Attempts,
             RecordAttemptSavings(client, r, a)
      PROVE  RoutingStep
  BY <1>6 DEF RecordAttemptSavings, OldAnswers, Succeeded, AnsweredIn, ConversationOf, RoutingStep
<1>7. CASE Tick
  BY <1>7 DEF Tick, OldAnswers, Succeeded, AnsweredIn, ConversationOf, RoutingStep
<1>8. CASE UNCHANGED vars
  BY <1>8 DEF vars, OldAnswers, Succeeded, AnsweredIn, ConversationOf, RoutingStep
<1>9. ASSUME NEW client \in Clients, NEW r \in Responses, NEW explicit \in BOOLEAN,
             NEW key \in Keys \cup {None}, NEW c \in Conversations, NEW created \in RecentTimes,
             CreateTurn(client, key, c, r, explicit, created)
      PROVE  RoutingStep
  BY <1>9 DEF RoutingStep
<1>10. ASSUME NEW time \in RecentTimes, DeleteExpiredSessions(time) PROVE RoutingStep
  BY <1>10 DEF RoutingStep
<1> QED
  BY <1>1, <1>2, <1>3, <1>4, <1>5, <1>6, <1>7, <1>8, <1>9, <1>10 DEF Next, Turn, Attempt

LEMMA RoutingInvInit == Init => RoutingInv
  BY RoutingStoreAssumption
  DEF Init, RoutingInv, Clock, Activity, PinWithinFloor, AnswersWithinPin, UsageNeedsPin,
      SessionCoversConversations, SessionCoversAnswers, Bound, Succeeded,
      NoConversation, NoSession, NoAttempt, NoPin

LEMMA RoutingInvStep == WellFormed /\ RoutingInv /\ [Next]_vars => (WellFormed /\ RoutingInv)'
  BY WellFormedStep, EveryStep, QuietStep, WriteBackStep, CreateTurnStep, SweepStep DEF RoutingStep

LEMMA RoutingInvariant == Spec => [](WellFormed /\ RoutingInv)
<1>1. Init => WellFormed /\ RoutingInv
  BY WellFormedInit, RoutingInvInit
<1> QED BY <1>1, RoutingInvStep, PTL DEF Spec

(* A stored pin never outranks the floor beside it. *)
THEOREM PinsWithinFloors == Spec => []PinWithinFloor
  BY RoutingInvariant, PTL DEF RoutingInv

(* A conversation's pin is as strong as every answer committed in it,       *)
(* whatever the order of its concurrent responses.                          *)
THEOREM ConversationsRememberAnswers == Spec => []AnswersWithinPin
  BY RoutingInvariant, PTL DEF RoutingInv

(* A live routing session is as strong as every conversation seeded from it *)
(* since it began.                                                          *)
THEOREM SessionsCoverConversations == Spec => []SessionCoversConversations
  BY RoutingInvariant, PTL DEF RoutingInv

(* A live routing session is as strong as every answer delivered in it      *)
(* since it began.                                                          *)
THEOREM SessionsRemember == Spec => []SessionCoversAnswers
  BY RoutingInvariant, PTL DEF RoutingInv

(* A session that starts afresh has no token usage of an earlier life.      *)
THEOREM UsageWithPin == Spec => []UsageNeedsPin
  BY RoutingInvariant, PTL DEF RoutingInv

-----------------------------------------------------------------------------
(* Action properties *)

ConversationsRise == \A c \in Conversations : conversations[c].client # None =>
    /\ conversations[c].floor <= conversations'[c].floor
    /\ conversations[c].pin.tier <= conversations'[c].pin.tier

LEMMA RatchetStep == WellFormed /\ RoutingInv /\ [Next]_vars => ConversationsRise
<1> SUFFICES ASSUME WellFormed, RoutingInv, [Next]_vars PROVE ConversationsRise
  OBVIOUS
<1> USE Numbers DEF ConversationsRise
<1>1. CASE UNCHANGED <<conversations, sessions>>
  BY <1>1
<1>2. ASSUME NEW c \in Conversations, NEW pin \in Pins, NEW sessionPin \in Pins,
             NEW floor \in Tiers, NEW usage \in Models \cup {None},
             WriteBack(c, pin, sessionPin, floor, usage)
      PROVE  ConversationsRise
  <2>1. /\ conversations'[c].pin = pin /\ conversations'[c].floor = floor
        /\ \A d \in Conversations : d # c => conversations'[d] = conversations[d]
    BY <1>2 DEF WriteBack, WellFormed, TypeOK, Repinned
  <2>2. /\ floor \in Int /\ pin.tier \in Int
        /\ pin.tier >= conversations[c].pin.tier /\ floor >= conversations[c].floor
    BY <1>2, PinTiers, RoutingStoreAssumption DEF WriteBack
  <2> QED BY <2>1, <2>2
<1>3. ASSUME NEW client \in Clients, NEW key \in Keys \cup {None}, NEW c \in Conversations,
             NEW r \in Responses, NEW explicit \in BOOLEAN, NEW created \in RecentTimes,
             CreateTurn(client, key, c, r, explicit, created)
      PROVE  ConversationsRise
  <2>1. /\ conversations[c].client = None
        /\ \A d \in Conversations : d # c => conversations'[d] = conversations[d]
    BY <1>3 DEF CreateTurn, WellFormed, TypeOK
  <2> QED BY <2>1
<1>4. ASSUME NEW time \in RecentTimes, DeleteExpiredSessions(time) PROVE ConversationsRise
  BY <1>4 DEF DeleteExpiredSessions
<1> HIDE DEF ConversationsRise
<1> QED BY <1>1, <1>2, <1>3, <1>4, EveryStep DEF RoutingStep

(* No transaction, in any order, lowers a conversation's pin or floor. *)
THEOREM ConversationsOnlyRise == Spec => ConversationRatchet
<1>1. WellFormed /\ RoutingInv /\ [Next]_vars => [ConversationsRise]_vars
  BY RatchetStep
<1> QED BY <1>1, RoutingInvariant, PTL DEF Spec, ConversationRatchet, ConversationsRise

(* A routing session's life only ends, or its memory only weakens, after it *)
(* has been idle for longer than idle_ttl.                                  *)
THEOREM SessionsOnlyRise == Spec => SessionRatchet
<1> DEFINE Rises == \A s \in SessionIDs : sessions[s].live =>
        \/ /\ sessions'[s].live
           /\ sessions[s].created = sessions'[s].created
           /\ sessions[s].floor <= sessions'[s].floor
           /\ sessions[s].pin.tier <= sessions'[s].pin.tier
           /\ sessions[s].usage # None => sessions'[s].usage # None
        \/ SessionTTL > 0 /\ now - sessions[s].updated > SessionTTL
<1>1. ASSUME WellFormed, RoutingInv, [Next]_vars PROVE Rises
  <2> USE Numbers
  <2>1. CASE UNCHANGED <<conversations, sessions>>
    BY <1>1, <2>1
  <2>2. ASSUME NEW c \in Conversations, NEW pin \in Pins, NEW sessionPin \in Pins,
               NEW floor \in Tiers, NEW usage \in Models \cup {None},
               WriteBack(c, pin, sessionPin, floor, usage)
        PROVE  Rises
    <3> SUFFICES ASSUME NEW s \in SessionIDs, sessions[s].live
                 PROVE  /\ sessions'[s].live
                        /\ sessions[s].created = sessions'[s].created
                        /\ sessions[s].floor <= sessions'[s].floor
                        /\ sessions[s].pin.tier <= sessions'[s].pin.tier
                        /\ sessions[s].usage # None => sessions'[s].usage # None
      OBVIOUS
    <3> DEFINE merged == MergedSession(sessions[s], sessionPin, floor, usage)
    <3>1. sessions'[s] = IF Bound(c, s) THEN merged ELSE sessions[s]
      BY <1>1, <2>2, SyncSessionFacts DEF WriteBack, WellFormed
    <3>2. /\ now \in Nat /\ sessions[s] \in SessionRow /\ floor \in Nat
          /\ sessions[s].floor \in Nat /\ sessions[s].pin.tier \in Int
      BY <1>1, RoutingStoreAssumption
    <3>3. /\ merged.live /\ merged.created = sessions[s].created
          /\ merged.floor = Maximum(sessions[s].floor, floor)
          /\ merged.pin \in {sessions[s].pin, sessionPin}
          /\ merged.pin.tier >= sessions[s].pin.tier
          /\ merged.usage \in {sessions[s].usage, usage}
          /\ usage = None => merged.usage = sessions[s].usage
      BY <3>2, MergedSessionFacts
    <3>4. merged.pin.tier \in Int
      BY <3>2, <3>3, PinTiers
    <3> HIDE DEF merged
    <3> QED BY <3>1, <3>2, <3>3, <3>4 DEF Maximum
  <2>3. ASSUME NEW client \in Clients, NEW key \in Keys \cup {None}, NEW c \in Conversations,
               NEW r \in Responses, NEW explicit \in BOOLEAN, NEW created \in RecentTimes,
               CreateTurn(client, key, c, r, explicit, created)
        PROVE  Rises
    <3> SUFFICES ASSUME NEW s \in SessionIDs, sessions[s].live,
                        ~(SessionTTL > 0 /\ now - sessions[s].updated > SessionTTL)
                 PROVE  /\ sessions'[s].live
                        /\ sessions[s].created = sessions'[s].created
                        /\ sessions[s].floor = sessions'[s].floor
                        /\ sessions[s].pin = sessions'[s].pin
                        /\ sessions[s].usage = sessions'[s].usage
      BY <1>1
    <3>1. created \in Nat /\ created <= now /\ now \in Nat
      BY <1>1 DEF RecentTimes
    <3>2. ~IdleAt(sessions[s], created)
      BY <1>1, <3>1 DEF IdleAt
    <3>3. SeededSession(sessions[s], created) =
              [sessions[s] EXCEPT !.updated = Maximum(sessions[s].updated, created)]
      BY <3>2 DEF SeededSession
    <3>4. sessions'[s] \in {sessions[s], SeededSession(sessions[s], created)}
      <4>1. sessions' = IF key = None THEN sessions
                        ELSE [sessions EXCEPT ![<<client, key>>] = SeededSession(sessions[<<client, key>>], created)]
        BY <2>3 DEF CreateTurn
      <4>2. sessions \in [SessionIDs -> SessionRow]
        BY <1>1 DEF WellFormed, TypeOK
      <4> QED BY <4>1, <4>2
    <3>5. sessions[s] \in SessionRow
      BY <1>1
    <3> QED BY <3>3, <3>4, <3>5 DEF SessionRow
  <2>4. ASSUME NEW time \in RecentTimes, DeleteExpiredSessions(time) PROVE Rises
    BY <1>1, <2>4 DEF DeleteExpiredSessions, IdleAt, RecentTimes
  <2> HIDE DEF Rises
  <2> QED BY <1>1, <2>1, <2>2, <2>3, <2>4, EveryStep DEF RoutingStep
<1>2. WellFormed /\ RoutingInv /\ [Next]_vars => [Rises]_vars
  BY <1>1
<1> QED BY <1>2, RoutingInvariant, PTL DEF Spec, SessionRatchet

-----------------------------------------------------------------------------
(* Answers *)

(* How a step may change attempts and responses: open a response, start an  *)
(* attempt, fail one, commit one, or none of these.                         *)
OutcomeStep ==
    \/ UNCHANGED <<responses, attempts>>
    \/ \E r \in Responses :
          /\ responses[r].status = "absent" /\ responses'[r].status = "pending"
          /\ \A q \in Responses : q # r => responses'[q] = responses[q]
          /\ UNCHANGED attempts
    \/ \E a \in Attempts :
          /\ \/ attempts[a].status = "absent" /\ attempts'[a].status = "started"
             \/ attempts[a].status = "started" /\ attempts'[a].status = "failed"
          /\ \A b \in Attempts : b # a => attempts'[b] = attempts[b]
          /\ UNCHANGED responses
    \/ \E a \in Attempts, r \in Responses :
          /\ attempts[a].status = "started" /\ attempts[a].response = r
          /\ attempts'[a].status = "succeeded" /\ attempts'[a].response = r
          /\ responses[r].status = "pending" /\ responses'[r].status = "completed"
          /\ \A b \in Attempts : b # a => attempts'[b] = attempts[b]
          /\ \A q \in Responses : q # r => responses'[q] = responses[q]

LEMMA EveryOutcome == WellFormed /\ [Next]_vars => OutcomeStep
<1> SUFFICES ASSUME WellFormed, [Next]_vars PROVE OutcomeStep
  OBVIOUS
<1> USE DEF WellFormed, TypeOK
<1>1. ASSUME NEW r \in Responses, NEW c, NEW explicit, InsertResponse(r, c, explicit),
             UNCHANGED attempts
      PROVE  OutcomeStep
  BY <1>1 DEF InsertResponse, OutcomeStep
<1>2. ASSUME NEW client \in Clients, NEW r \in Responses, NEW a \in Attempts,
             NEW model \in Models, NEW tier \in Tiers,
             BeginProviderAttempt(client, r, a, model, tier)
      PROVE  OutcomeStep
  <2>1. /\ attempts' = [attempts EXCEPT ![a] =
              [response |-> r, model |-> model, tier |-> tier,
               seq |-> Cardinality(AttemptsOf(r)), status |-> "started", completed |-> 0]]
        /\ attempts[a].status = "absent" /\ responses' = responses
    BY <1>2 DEF BeginProviderAttempt
  <2>2. attempts'[a].status = "started" /\ \A b \in Attempts : b # a => attempts'[b] = attempts[b]
    BY <2>1
  <2> QED BY <2>1, <2>2 DEF OutcomeStep
<1>3. ASSUME NEW client \in Clients, NEW r \in Responses, NEW a \in Attempts,
             NEW usageKnown \in BOOLEAN, CommitConversationResult(client, r, a, usageKnown)
      PROVE  OutcomeStep
  <2>1. /\ attempts' = [attempts EXCEPT ![a] = Finished(attempts[a], "succeeded")]
        /\ responses' = [responses EXCEPT ![r].status = "completed"]
        /\ attempts[a].status = "started" /\ attempts[a].response = r
        /\ responses[r].status = "pending"
    BY <1>3 DEF CommitConversationResult, LatestStarted, AttemptsOf, Unanswered
  <2>2. /\ attempts'[a].status = "succeeded" /\ attempts'[a].response = r
        /\ responses'[r].status = "completed"
        /\ \A b \in Attempts : b # a => attempts'[b] = attempts[b]
        /\ \A q \in Responses : q # r => responses'[q] = responses[q]
    BY <2>1 DEF Finished, ResponseRow
  <2> QED BY <2>1, <2>2 DEF OutcomeStep
<1>4. ASSUME NEW client \in Clients, NEW r \in Responses, NEW a \in Attempts,
             FailProviderAttempt(client, r, a)
      PROVE  OutcomeStep
  BY <1>4 DEF FailProviderAttempt, Finished, OutcomeStep
<1>5. CASE UNCHANGED <<responses, attempts>>
  BY <1>5 DEF OutcomeStep
<1> HIDE DEF WellFormed, TypeOK
<1>6. CASE Turn
  <2>1. PICK client \in Clients, r \in Responses, explicit \in BOOLEAN :
          \/ \E key \in Keys \cup {None}, c \in Conversations, created \in RecentTimes :
                CreateTurn(client, key, c, r, explicit, created)
          \/ \E previous \in Responses : ContinueTurn(client, previous, r, explicit)
    BY <1>6 DEF Turn
  <2>2. ASSUME NEW key, NEW c, NEW created, CreateTurn(client, key, c, r, explicit, created)
        PROVE  OutcomeStep
    <3>1. InsertResponse(r, c, explicit) /\ UNCHANGED attempts
      BY <2>2 DEF CreateTurn
    <3> QED BY <1>1, <3>1
  <2>3. ASSUME NEW previous, ContinueTurn(client, previous, r, explicit)
        PROVE  OutcomeStep
    <3>1. InsertResponse(r, ConversationOf(previous), explicit) /\ UNCHANGED attempts
      BY <2>3 DEF ContinueTurn
    <3> QED BY <1>1, <3>1
  <2> QED BY <2>1, <2>2, <2>3
<1>7. CASE Attempt
  <2>1. PICK client \in Clients, r \in Responses, a \in Attempts :
          \/ \E model \in Models, tier \in Tiers : BeginProviderAttempt(client, r, a, model, tier)
          \/ \E usageKnown \in BOOLEAN : CommitConversationResult(client, r, a, usageKnown)
          \/ FailProviderAttempt(client, r, a)
          \/ RecordAttemptSavings(client, r, a)
          \/ RaiseConversationFloor(client, r, a)
    BY <1>7 DEF Attempt
  <2>2. RecordAttemptSavings(client, r, a) => UNCHANGED <<responses, attempts>>
    BY DEF RecordAttemptSavings
  <2>3. RaiseConversationFloor(client, r, a) => UNCHANGED <<responses, attempts>>
    BY DEF RaiseConversationFloor
  <2> QED BY <1>2, <1>3, <1>4, <1>5, <2>1, <2>2, <2>3
<1>8. CASE Tick \/ \E time \in RecentTimes : DeleteExpiredSessions(time)
  BY <1>5, <1>8 DEF Tick, DeleteExpiredSessions
<1>9. CASE UNCHANGED vars
  BY <1>5, <1>9 DEF vars
<1> QED BY <1>6, <1>7, <1>8, <1>9 DEF Next

(* A response is completed by exactly one attempt: no interleaving of       *)
(* commits, retries and failure reports answers it twice.                   *)
THEOREM AnsweredOnce == Spec => []CompletedByOneAttempt
<1>1. Init => WellFormed /\ CompletedByOneAttempt
  BY WellFormedInit DEF Init, CompletedByOneAttempt, AttemptsOf, Succeeded, NoResponse, NoAttempt
<1>2. ASSUME WellFormed, CompletedByOneAttempt, [Next]_vars PROVE CompletedByOneAttempt'
  <2>1. OutcomeStep
    BY <1>2, EveryOutcome
  <2>2. \A a \in Attempts : Succeeded(a) =>
            /\ attempts[a].response \in Responses
            /\ responses[attempts[a].response].status = "completed"
    BY <1>2 DEF WellFormed, References, CompletedByOneAttempt, Succeeded, AttemptsOf
  <2>3. CASE UNCHANGED <<responses, attempts>>
    BY <1>2, <2>3 DEF CompletedByOneAttempt, AttemptsOf, Succeeded
  <2>4. ASSUME NEW r \in Responses,
               responses[r].status = "absent", responses'[r].status = "pending",
               \A q \in Responses : q # r => responses'[q] = responses[q],
               UNCHANGED attempts
        PROVE  CompletedByOneAttempt'
    BY <1>2, <2>2, <2>4 DEF CompletedByOneAttempt, AttemptsOf, Succeeded
  <2>5. ASSUME NEW a \in Attempts,
               \/ attempts[a].status = "absent" /\ attempts'[a].status = "started"
               \/ attempts[a].status = "started" /\ attempts'[a].status = "failed",
               \A b \in Attempts : b # a => attempts'[b] = attempts[b],
               UNCHANGED responses
        PROVE  CompletedByOneAttempt'
    <3>1. \A b \in Attempts : Succeeded(b)' <=> Succeeded(b) /\ attempts'[b] = attempts[b]
      BY <2>5 DEF Succeeded
    <3> QED BY <1>2, <2>2, <2>5, <3>1 DEF CompletedByOneAttempt, AttemptsOf, Succeeded
  <2>6. ASSUME NEW a \in Attempts, NEW r \in Responses,
               attempts[a].status = "started", attempts[a].response = r,
               attempts'[a].status = "succeeded", attempts'[a].response = r,
               responses[r].status = "pending", responses'[r].status = "completed",
               \A b \in Attempts : b # a => attempts'[b] = attempts[b],
               \A q \in Responses : q # r => responses'[q] = responses[q]
        PROVE  CompletedByOneAttempt'
    <3>1. \A b \in Attempts : Succeeded(b) => attempts[b].response # r
      BY <2>2, <2>6
    <3>2. \A q \in Responses : responses'[q].status = "completed" <=>
              \E b \in Attempts : Succeeded(b)' /\ attempts'[b].response = q
      BY <1>2, <2>6, <3>1 DEF CompletedByOneAttempt, AttemptsOf, Succeeded
    <3>3. \A b, d \in Attempts : Succeeded(b)' /\ Succeeded(d)'
              /\ attempts'[b].response = attempts'[d].response => b = d
      BY <1>2, <2>6, <3>1 DEF CompletedByOneAttempt, Succeeded
    <3> QED BY <3>2, <3>3 DEF CompletedByOneAttempt, AttemptsOf, Succeeded
  <2> QED BY <2>1, <2>3, <2>4, <2>5, <2>6 DEF OutcomeStep
<1> QED BY <1>1, <1>2, WellFormedStep, PTL DEF Spec

(* What has been answered or has failed stays so. *)
THEOREM OutcomesNeverChange == Spec => OutcomesStand
<1> DEFINE Stands ==
        /\ \A a \in Attempts : attempts[a].status \in {"succeeded", "failed"} => attempts'[a] = attempts[a]
        /\ \A r \in Responses : responses[r].status = "completed" => responses'[r] = responses[r]
<1>1. WellFormed /\ [Next]_vars => [Stands]_vars
  BY EveryOutcome DEF OutcomeStep
<1> QED BY <1>1, RoutingInvariant, PTL DEF Spec, OutcomesStand
=============================================================================

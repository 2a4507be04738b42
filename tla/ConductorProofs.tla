--------------------------- MODULE ConductorProofs ---------------------------
(***************************************************************************)
(* What Conductor promises for every pool, setting, set of sessions and    *)
(* bound.  TypeOK and Rested are inductive; the action properties follow   *)
(* from them step by step.                                                 *)
(***************************************************************************)
EXTENDS Conductor, FiniteSetTheorems, TLAPS

Rests == {AuthCooldown, QuotaCooldown, TransientCooldown}

(* What a report leaves behind: a cooldown that still covers one of the     *)
(* rests, or the time for it has passed.                                    *)
Rested == \A a \in Accounts : failed[a] >= 0 =>
    \E rest \in Rests : cooldown[a] >= failed[a] + rest \/ now >= failed[a] + rest

ConductorInv == TypeOK /\ Rested

-----------------------------------------------------------------------------
(* The pool is a sequence of account rows, and its length counts for the    *)
(* arithmetic of the cursor.                                                *)
LEMMA PoolRows ==
    ASSUME TypeOK
    PROVE  /\ \A i \in DOMAIN pool : i \in Nat /\ pool[i] \in Account /\ pool[i].id \in Accounts
           /\ Cardinality(DOMAIN pool) \in Nat
           /\ DOMAIN pool # {} => Cardinality(DOMAIN pool) > 0
<1>1. PICK accounts \in Pools : pool \in Sortings(accounts)
  BY DEF TypeOK
<1>2. accounts \subseteq Account /\ IsFiniteSet(accounts)
  BY <1>1, ConductorAssumption
<1>3. Cardinality(accounts) \in Nat
  BY <1>2, FS_CardinalityType
<1>4. pool \in [1 .. Cardinality(accounts) -> accounts]
  BY <1>1 DEF Sortings
<1>5. IsFiniteSet(DOMAIN pool) /\ Cardinality(DOMAIN pool) = Cardinality(accounts)
  <2>1. /\ IsFiniteSet(1 .. Cardinality(accounts))
        /\ Cardinality(1 .. Cardinality(accounts)) =
               IF 1 > Cardinality(accounts) THEN 0 ELSE Cardinality(accounts) - 1 + 1
    BY <1>3, FS_Interval
  <2>2. (IF 1 > Cardinality(accounts) THEN 0 ELSE Cardinality(accounts) - 1 + 1) = Cardinality(accounts)
    BY <1>3
  <2> QED BY <1>4, <2>1, <2>2
<1>6. DOMAIN pool # {} => Cardinality(accounts) > 0
  BY <1>3, <1>4
<1>7. \A i \in DOMAIN pool : i \in Nat /\ pool[i] \in Account
  BY <1>2, <1>3, <1>4
<1> QED BY <1>3, <1>5, <1>6, <1>7 DEF Account

LEMMA EligibleRows ==
    ASSUME TypeOK, NEW req \in SelectRequest, NEW i \in Eligible(req)
    PROVE  /\ i \in DOMAIN pool /\ pool[i].id \in Accounts /\ pool[i] \in Account
           /\ cooldown[pool[i].id] <= now
  BY PoolRows DEF Eligible, Admits

LEMMA StickyIsEligible ==
    ASSUME NEW req, NEW i \in Sticky(req)
    PROVE  i \in Eligible(req)
  BY DEF Sticky

LEMMA BindingsType ==
    ASSUME TypeOK, NEW req \in SelectRequest, NEW id \in Accounts
    PROVE  /\ Unexpired \in [Sessions -> [account : Accounts, model : Models, expires : Nat] \cup {NoBinding}]
           /\ Bound(req, id) \in [Sessions -> [account : Accounts, model : Models, expires : Nat] \cup {NoBinding}]
<1> DEFINE Row == [account : Accounts, model : Models, expires : Nat] \cup {NoBinding}
<1>1. Unexpired \in [Sessions -> Row]
  BY DEF TypeOK, Unexpired
<1>2. req.model \in Models /\ req.session \in Sessions \cup {None}
  BY DEF SelectRequest
<1>3. now + AffinityTTL \in Nat
  BY ConductorAssumption DEF TypeOK
<1>4. [account |-> id, model |-> req.model, expires |-> now + AffinityTTL] \in Row
  BY <1>2, <1>3
<1> HIDE DEF Row
<1>5. Bound(req, id) \in [Sessions -> Row]
  BY <1>1, <1>2, <1>4 DEF Bound
<1> QED BY <1>1, <1>5 DEF Row

LEMMA ThawType ==
    ASSUME TypeOK, NEW req, Thaw(req)
    PROVE  /\ cooldown' \in [Accounts -> Nat]
           /\ \A a \in Accounts : cooldown'[a] = cooldown[a] \/ (cooldown[a] <= now /\ cooldown'[a] = 0)
  BY DEF TypeOK, Thaw

-----------------------------------------------------------------------------
(* Init and each operation *)

LEMMA InvInit == Init => ConductorInv
<1> SUFFICES ASSUME Init PROVE ConductorInv
  OBVIOUS
<1>1. tally \in [among : SUBSET Account, picks : [Accounts -> Nat]]
  BY DEF Init, NoTally
<1>2. outcome \in {Granted(a) : a \in Accounts} \cup {Refused("unavailable"), Refused("none")}
  BY DEF Init
<1>3. bindings \in [Sessions -> [account : Accounts, model : Models, expires : Nat] \cup {NoBinding}]
  BY DEF Init
<1>4. failed \in [Accounts -> Nat \cup {-1}] /\ cooldown \in [Accounts -> Nat]
  BY DEF Init
<1>5. TypeOK
  BY <1>1, <1>2, <1>3, <1>4 DEF Init, TypeOK
<1>6. Rested
  BY DEF Init, Rested
<1> QED BY <1>5, <1>6 DEF ConductorInv

LEMMA CountType ==
    ASSUME TypeOK, NEW req \in SelectRequest, NEW i \in Eligible(req), Count(req, i)
    PROVE  tally' \in [among : SUBSET Account, picks : [Accounts -> Nat]]
<1> DEFINE among == {pool[j] : j \in Eligible(req)}
           before == IF tally.among = among THEN tally.picks ELSE NoTally.picks
           picks == [before EXCEPT ![pool[i].id] = @ + 1]
<1>1. among \subseteq Account
  BY EligibleRows
<1>2. before \in [Accounts -> Nat]
  BY DEF TypeOK, NoTally
<1>3. picks \in [Accounts -> Nat]
  <2> HIDE DEF before
  <2> QED BY <1>2, EligibleRows
<1>4. NoTally \in [among : SUBSET Account, picks : [Accounts -> Nat]]
  BY DEF NoTally
<1>5. tally' \in {NoTally, [among |-> among, picks |-> picks]}
  BY DEF Count
<1> HIDE DEF among, picks
<1> QED BY <1>1, <1>3, <1>4, <1>5

LEMMA RotateType ==
    ASSUME TypeOK, NEW req \in SelectRequest, NEW result, Rotate(req, result)
    PROVE  /\ cursor' \in Nat
           /\ tally' \in [among : SUBSET Account, picks : [Accounts -> Nat]]
           /\ \E i \in Eligible(req) : result = Granted(pool[i].id) /\ bindings' = Bound(req, pool[i].id)
<1>1. PICK i \in Eligible(req) :
          /\ \/ UNCHANGED <<cursor, tally>>
             \/ RoundRobin(req, i) /\ Count(req, i)
             \/ Weighted(req, i) /\ Count(req, i)
          /\ result = Granted(pool[i].id)
          /\ bindings' = Bound(req, pool[i].id)
  BY DEF Rotate
<1>2. CASE UNCHANGED <<cursor, tally>>
  BY <1>1, <1>2 DEF TypeOK
<1>3. CASE RoundRobin(req, i) /\ Count(req, i)
  <2>1. cursor' = i % Cardinality(DOMAIN pool)
    BY <1>3 DEF RoundRobin
  <2>2. i \in Nat /\ Cardinality(DOMAIN pool) \in Nat /\ Cardinality(DOMAIN pool) > 0
    BY PoolRows, EligibleRows
  <2>3. cursor' \in Nat
    BY <2>1, <2>2
  <2> QED BY <1>1, <1>3, <2>3, CountType
<1>4. CASE Weighted(req, i) /\ Count(req, i)
  <2>1. cursor' = cursor + 1
    BY <1>4 DEF Weighted
  <2>2. cursor' \in Nat
    BY <2>1 DEF TypeOK
  <2> QED BY <1>1, <1>4, <2>2, CountType
<1> QED BY <1>1, <1>2, <1>3, <1>4

(* What a selection may return. *)
Results == {Granted(a) : a \in Accounts} \cup {Refused("unavailable"), Refused("none")}

LEMMA ReturnsStep ==
    ASSUME ConductorInv, NEW req \in SelectRequest, NEW result, Returns(req, result),
           outcome' \in {outcome, result}
    PROVE  ConductorInv' /\ result \in Results
<1> USE DEF ConductorInv
<1>1. /\ cooldown' \in [Accounts -> Nat]
      /\ \A a \in Accounts : cooldown'[a] = cooldown[a] \/ (cooldown[a] <= now /\ cooldown'[a] = 0)
  BY ThawType DEF Returns
<1>2. UNCHANGED <<now, pool, failed>>
  BY DEF Returns
<1>3. /\ cursor' \in Nat
      /\ tally' \in [among : SUBSET Account, picks : [Accounts -> Nat]]
      /\ \/ result \in {Refused("unavailable"), Refused("none")} /\ bindings' = Unexpired
         \/ \E i \in Eligible(req) : result = Granted(pool[i].id) /\ bindings' = Bound(req, pool[i].id)
  <2>1. CASE Refuse(req, result)
    BY <2>1 DEF Refuse, TypeOK
  <2>2. CASE Stick(req, result)
    BY <2>2, StickyIsEligible DEF Stick, TypeOK
  <2>3. CASE Rotate(req, result)
    BY <2>3, RotateType
  <2> QED BY <2>1, <2>2, <2>3 DEF Returns
<1>4. /\ result \in Results
      /\ bindings' \in [Sessions -> [account : Accounts, model : Models, expires : Nat] \cup {NoBinding}]
  <2>1. CASE result \in {Refused("unavailable"), Refused("none")} /\ bindings' = Unexpired
    <3>1. Unexpired \in [Sessions -> [account : Accounts, model : Models, expires : Nat] \cup {NoBinding}]
      BY DEF TypeOK, Unexpired
    <3> QED BY <2>1, <3>1 DEF Results
  <2>2. ASSUME NEW i \in Eligible(req), result = Granted(pool[i].id), bindings' = Bound(req, pool[i].id)
        PROVE  /\ result \in {Granted(a) : a \in Accounts}
               /\ bindings' \in [Sessions -> [account : Accounts, model : Models, expires : Nat] \cup {NoBinding}]
    BY <2>2, EligibleRows, BindingsType
  <2> QED BY <1>3, <2>1, <2>2 DEF Results
<1>5. TypeOK'
  BY <1>1, <1>2, <1>3, <1>4 DEF TypeOK, Sortings, Results
<1>6. Rested'
  <2>1. ASSUME NEW a \in Accounts, failed[a] >= 0
        PROVE  \E rest \in Rests : cooldown'[a] >= failed[a] + rest \/ now >= failed[a] + rest
    <3>1. PICK rest \in Rests : cooldown[a] >= failed[a] + rest \/ now >= failed[a] + rest
      BY <2>1 DEF Rested
    <3>2. cooldown[a] \in Nat /\ now \in Nat /\ failed[a] \in Int /\ rest \in Nat
      BY ConductorAssumption DEF TypeOK, Rests
    <3> QED BY <1>1, <3>1, <3>2
  <2> QED BY <1>2, <2>1 DEF Rested, Rests
<1> QED BY <1>4, <1>5, <1>6

LEMMA HasEligibleStep ==
    ASSUME ConductorInv, NEW req, HasEligible(req)
    PROVE  ConductorInv'
<1> USE DEF ConductorInv
<1>1. /\ cooldown' \in [Accounts -> Nat]
      /\ \A a \in Accounts : cooldown'[a] = cooldown[a] \/ (cooldown[a] <= now /\ cooldown'[a] = 0)
  BY ThawType DEF HasEligible
<1>2. bindings' \in [Sessions -> [account : Accounts, model : Models, expires : Nat] \cup {NoBinding}]
  BY DEF HasEligible, Unexpired, TypeOK
<1>3. TypeOK'
  BY <1>1, <1>2 DEF HasEligible, TypeOK, Sortings
<1>4. Rested'
  <2>1. ASSUME NEW a \in Accounts, failed[a] >= 0
        PROVE  \E rest \in Rests : cooldown'[a] >= failed[a] + rest \/ now >= failed[a] + rest
    <3>1. PICK rest \in Rests : cooldown[a] >= failed[a] + rest \/ now >= failed[a] + rest
      BY <2>1 DEF Rested
    <3>2. cooldown[a] \in Nat /\ now \in Nat /\ failed[a] \in Int /\ rest \in Nat
      BY ConductorAssumption DEF TypeOK, Rests
    <3> QED BY <1>1, <3>1, <3>2
  <2> QED BY <2>1 DEF HasEligible, Rested, Rests
<1> QED BY <1>3, <1>4

LEMMA ReportSuccessStep ==
    ASSUME ConductorInv, NEW session \in Sessions, NEW account \in Accounts,
           ReportSuccess(session, account)
    PROVE  ConductorInv'
<1> USE DEF ConductorInv
<1>1. bindings[session] \in [account : Accounts, model : Models, expires : Nat]
  <2>1. NoBinding.account = None /\ None \notin Accounts
    BY ConductorAssumption DEF NoBinding
  <2> QED BY <2>1 DEF ReportSuccess, TypeOK
<1>2. now + AffinityTTL \in Nat
  BY ConductorAssumption DEF TypeOK
<1>3. bindings' \in [Sessions -> [account : Accounts, model : Models, expires : Nat] \cup {NoBinding}]
  BY <1>1, <1>2 DEF ReportSuccess, TypeOK
<1> QED BY <1>3 DEF ReportSuccess, TypeOK, Sortings, Rested, Rests

LEMMA ReportFailureStep ==
    ASSUME ConductorInv, NEW session \in Sessions \cup {None}, NEW account \in Accounts, NEW class,
           ReportFailure(session, account, class)
    PROVE  ConductorInv'
<1> USE DEF ConductorInv
<1>1. CooldownFor(class) \in Rests /\ CooldownFor(class) \in Nat
  BY ConductorAssumption DEF CooldownFor, Rests
<1>2. bindings' \in [Sessions -> [account : Accounts, model : Models, expires : Nat] \cup {NoBinding}]
  BY DEF ReportFailure, TypeOK
<1>3. \/ UNCHANGED <<cooldown, failed>>
      \/ /\ cooldown' = [cooldown EXCEPT ![account] = now + CooldownFor(class)]
         /\ failed' = [failed EXCEPT ![account] = now]
  BY DEF ReportFailure, CooledDown
<1>4. UNCHANGED <<now, pool, cursor, outcome, tally>>
  BY DEF ReportFailure
<1>5. TypeOK'
  <2>1. cooldown' \in [Accounts -> Nat] /\ failed' \in [Accounts -> Nat \cup {-1}]
    <3>1. now + CooldownFor(class) \in Nat
      BY <1>1 DEF TypeOK
    <3>2. cooldown \in [Accounts -> Nat] /\ failed \in [Accounts -> Nat \cup {-1}] /\ now \in Nat
      BY DEF TypeOK
    <3> QED BY <1>3, <3>1, <3>2
  <2>2. UNCHANGED pool /\ (\E accounts \in Pools : pool \in Sortings(accounts))
    BY <1>4 DEF TypeOK
  <2>3. \E accounts \in Pools : pool' \in Sortings(accounts)
    BY <2>2
  <2> QED BY <1>2, <1>4, <2>1, <2>3 DEF TypeOK, Sortings
<1>6. Rested'
  <2>1. CASE UNCHANGED <<cooldown, failed>>
    BY <1>4, <2>1 DEF Rested, Rests
  <2>2. CASE /\ cooldown' = [cooldown EXCEPT ![account] = now + CooldownFor(class)]
             /\ failed' = [failed EXCEPT ![account] = now]
    <3>1. ASSUME NEW a \in Accounts, failed'[a] >= 0
          PROVE  \E rest \in Rests : cooldown'[a] >= failed'[a] + rest \/ now >= failed'[a] + rest
      <4>1. CASE a = account
        BY <1>1, <2>2, <4>1 DEF TypeOK
      <4>2. CASE a # account
        BY <2>2, <3>1, <4>2 DEF TypeOK, Rested
      <4> QED BY <4>1, <4>2
    <3> QED BY <1>4, <3>1 DEF Rested, Rests
  <2> QED BY <1>3, <2>1, <2>2
<1> QED BY <1>5, <1>6

LEMMA ResetCooldownStep ==
    ASSUME ConductorInv, NEW ids, ResetCooldown(ids)
    PROVE  ConductorInv'
  BY DEF ConductorInv, ResetCooldown, TypeOK, Sortings, Rested, Rests

LEMMA ReplaceAccountsStep ==
    ASSUME ConductorInv, NEW accounts \in Pools, ReplaceAccounts(accounts)
    PROVE  ConductorInv'
<1>1. tally' \in [among : SUBSET Account, picks : [Accounts -> Nat]]
  BY DEF ReplaceAccounts, NoTally
<1>2. \E others \in Pools : pool' \in Sortings(others)
  BY DEF ReplaceAccounts
<1> QED BY <1>1, <1>2 DEF ConductorInv, ReplaceAccounts, TypeOK, Sortings, Rested, Rests

LEMMA TickStep == ConductorInv /\ Tick => ConductorInv'
<1> SUFFICES ASSUME ConductorInv, Tick PROVE ConductorInv'
  OBVIOUS
<1>1. TypeOK'
  BY DEF ConductorInv, TypeOK, Tick, Sortings
<1>2. ASSUME NEW a \in Accounts, failed[a] >= 0
      PROVE  \E rest \in Rests : cooldown[a] >= failed[a] + rest \/ now' >= failed[a] + rest
  <2>1. PICK rest \in Rests : cooldown[a] >= failed[a] + rest \/ now >= failed[a] + rest
    BY <1>2 DEF ConductorInv, Rested
  <2>2. failed[a] \in Int /\ rest \in Nat /\ now \in Nat /\ now' = now + 1
    BY ConductorAssumption DEF ConductorInv, TypeOK, Rests, Tick
  <2> QED BY <2>1, <2>2
<1> QED BY <1>1, <1>2 DEF ConductorInv, Rested, Rests, Tick

(* What any caller may do, whether or not outcome keeps what it was told.   *)
Call ==
    \/ \E req \in SelectRequest :
          \/ HasEligible(req)
          \/ \E result : Returns(req, result) /\ outcome' \in {outcome, result}
    \/ \E account \in Accounts :
          \/ \E session \in Sessions : ReportSuccess(session, account)
          \/ \E session \in Sessions \cup {None}, class \in {"auth", "quota", "transient"} :
                ReportFailure(session, account, class)
    \/ \E ids : ResetCooldown(ids)
    \/ \E accounts \in Pools : ReplaceAccounts(accounts)
    \/ Tick

LEMMA NextIsCall == Next => Call
<1> SUFFICES ASSUME Next PROVE Call
  OBVIOUS
<1>1. Requests \subseteq SelectRequest
  BY ConductorAssumption
<1>2. ASSUME NEW req \in Requests, Select(req) PROVE Call
  BY <1>1, <1>2 DEF Select, Call
<1>3. ASSUME NEW req \in Requests, HasEligible(req) PROVE Call
  BY <1>1, <1>3 DEF Call
<1> QED BY <1>2, <1>3 DEF Next, Call

LEMMA ConductorStep == ConductorInv /\ [Call]_vars => ConductorInv'
<1> SUFFICES ASSUME ConductorInv, [Call]_vars PROVE ConductorInv'
  OBVIOUS
<1>1. CASE UNCHANGED vars
  BY <1>1 DEF ConductorInv, TypeOK, Sortings, Rested, Rests, vars
<1>2. CASE Call
  BY <1>2, ReturnsStep, HasEligibleStep, ReportSuccessStep, ReportFailureStep,
     ResetCooldownStep, ReplaceAccountsStep, TickStep DEF Call
<1> QED BY <1>1, <1>2

LEMMA ConductorInvariant == Spec => []ConductorInv
<1>1. [Next]_vars => [Call]_vars
  BY NextIsCall
<1> QED BY <1>1, InvInit, ConductorStep, PTL DEF Spec

-----------------------------------------------------------------------------
(* Every reachable state has the types of the code's values. *)
THEOREM ConductorTypes == Spec => []TypeOK
<1>1. ConductorInv => TypeOK
  BY DEF ConductorInv
<1> QED BY <1>1, ConductorInvariant, PTL

(* No binding outlasts the affinity TTL counted from now. *)
Timely == \A s \in Sessions : bindings[s].expires <= now + AffinityTTL

LEMMA TimelyStep == TypeOK /\ Timely /\ [Call]_vars => Timely'
<1> SUFFICES ASSUME TypeOK, Timely, [Call]_vars, NEW s \in Sessions
             PROVE  bindings'[s].expires <= now' + AffinityTTL
  BY DEF Timely
<1>1. /\ now \in Nat /\ AffinityTTL \in Nat /\ NoBinding.expires = 0
      /\ bindings[s].expires \in Nat /\ bindings[s].expires <= now + AffinityTTL
  BY ConductorAssumption DEF TypeOK, NoBinding, Timely
<1>2. Unexpired[s] \in {bindings[s], NoBinding}
  BY DEF Unexpired
<1>3. ASSUME NEW req, NEW result, Returns(req, result)
      PROVE  bindings'[s].expires <= now' + AffinityTTL
  <2>1. \A id : Bound(req, id)[s].expires <= now + AffinityTTL
    <3> SUFFICES ASSUME NEW id PROVE Bound(req, id)[s].expires <= now + AffinityTTL
      OBVIOUS
    <3>1. \/ Bound(req, id)[s] = Unexpired[s]
          \/ Bound(req, id)[s] = [account |-> id, model |-> req.model, expires |-> now + AffinityTTL]
      BY DEF Bound, Unexpired
    <3> QED BY <1>1, <1>2, <3>1
  <2> QED BY <1>1, <1>2, <1>3, <2>1 DEF Returns, Refuse, Stick, Rotate
<1>4. ASSUME NEW req, HasEligible(req)
      PROVE  bindings'[s].expires <= now' + AffinityTTL
  BY <1>1, <1>2, <1>4 DEF HasEligible
<1>5. ASSUME NEW session \in Sessions, NEW account, ReportSuccess(session, account)
      PROVE  bindings'[s].expires <= now' + AffinityTTL
  BY <1>1, <1>5 DEF ReportSuccess, TypeOK
<1>6. ASSUME NEW session, NEW account, NEW class, ReportFailure(session, account, class)
      PROVE  bindings'[s].expires <= now' + AffinityTTL
  <2>1. bindings'[s] \in {NoBinding, bindings[s]} /\ now' = now
    BY <1>6 DEF ReportFailure, TypeOK
  <2> QED BY <1>1, <2>1
<1>7. ASSUME \/ \E ids : ResetCooldown(ids)
             \/ \E accounts \in Pools : ReplaceAccounts(accounts)
             \/ Tick \/ UNCHANGED vars
      PROVE  bindings'[s].expires <= now' + AffinityTTL
  <2>1. bindings'[s] = bindings[s] /\ now' \in {now, now + 1}
    BY <1>7 DEF ResetCooldown, ReplaceAccounts, Tick, vars
  <2> QED BY <1>1, <2>1
<1> QED BY <1>3, <1>4, <1>5, <1>6, <1>7 DEF Call

LEMMA TimelyInit == Init => Timely
  BY ConductorAssumption DEF Init, Timely, NoBinding

LEMMA TimelyInvariant == Spec => []Timely
<1>1. ConductorInv /\ Timely /\ [Next]_vars => Timely'
  BY TimelyStep, NextIsCall DEF ConductorInv
<1> QED BY <1>1, TimelyInit, ConductorInvariant, PTL DEF Spec

(* A live binding is released, or stays. *)
Kept ==
    \A s \in Sessions : Alive(s) =>
        \/ bindings'[s] = NoBinding
        \/ /\ bindings'[s].account = bindings[s].account
           /\ bindings'[s].model = bindings[s].model
           /\ bindings'[s].expires >= bindings[s].expires

LEMMA KeptStep == ConductorInv /\ Timely /\ [Call]_vars => Kept
<1> SUFFICES ASSUME ConductorInv, Timely, [Call]_vars, NEW s \in Sessions, Alive(s)
             PROVE  \/ bindings'[s] = NoBinding
                    \/ /\ bindings'[s].account = bindings[s].account
                       /\ bindings'[s].model = bindings[s].model
                       /\ bindings'[s].expires >= bindings[s].expires
  BY DEF Kept
<1> USE DEF ConductorInv
<1>0. bindings[s].expires \in Nat
  BY DEF TypeOK, NoBinding
<1>1. CASE bindings'[s] = bindings[s]
  BY <1>0, <1>1
<1>2. ASSUME NEW req, NEW result, Returns(req, result) PROVE bindings'[s] = bindings[s]
  <2>1. Unexpired[s] = bindings[s]
    BY DEF Unexpired
  <2>2. \A id : Bound(req, id)[s] = bindings[s]
    BY <2>1 DEF Bound, Unexpired
  <2> QED BY <1>2, <2>1, <2>2 DEF Returns, Refuse, Stick, Rotate
<1>3. ASSUME NEW req, HasEligible(req) PROVE bindings'[s] = bindings[s]
  BY <1>3 DEF HasEligible, Unexpired
<1>4. ASSUME NEW session \in Sessions, NEW account \in Accounts, ReportSuccess(session, account)
      PROVE  /\ bindings'[s].account = bindings[s].account
             /\ bindings'[s].model = bindings[s].model
             /\ bindings'[s].expires >= bindings[s].expires
  <2>1. bindings[s].expires <= now + AffinityTTL
    BY DEF Timely
  <2> QED BY <1>0, <1>4, <2>1 DEF ReportSuccess, TypeOK
<1>5. ASSUME NEW session \in Sessions \cup {None}, NEW account \in Accounts, NEW class,
             ReportFailure(session, account, class)
      PROVE  bindings'[s] \in {NoBinding, bindings[s]}
  BY <1>5 DEF ReportFailure, TypeOK
<1>6. ASSUME \/ \E ids : ResetCooldown(ids)
             \/ \E accounts \in Pools : ReplaceAccounts(accounts)
             \/ Tick \/ UNCHANGED vars
      PROVE  bindings'[s] = bindings[s]
  BY <1>6 DEF ResetCooldown, ReplaceAccounts, Tick, vars
<1> QED BY <1>1, <1>2, <1>3, <1>4, <1>5, <1>6 DEF Call

(* No step hands a session's live binding to another account or shortens    *)
(* it, whichever concurrent request of the session takes it.                *)
THEOREM BindingsKept == Spec => BindingsAreKept
<1>1. ConductorInv /\ Timely /\ [Next]_vars => [Kept]_vars
  BY KeptStep, NextIsCall
<1> QED BY <1>1, ConductorInvariant, TimelyInvariant, PTL DEF Spec, BindingsAreKept, Kept

(* The selected account has had its rest. *)
LEMMA SelectedRested ==
    ASSUME ConductorInv, NEW req \in SelectRequest, NEW a \in Accounts,
           Returns(req, Granted(a)), failed[a] >= 0
    PROVE  \E rest \in Rests : now >= failed[a] + rest
<1>1. \E i \in Eligible(req) : Granted(a) = Granted(pool[i].id)
  <2>1. CASE Refuse(req, Granted(a))
    BY <2>1 DEF Refuse, Refused, Granted
  <2>2. CASE Stick(req, Granted(a))
    BY <2>2, StickyIsEligible DEF Stick
  <2>3. CASE Rotate(req, Granted(a))
    BY <2>3 DEF Rotate
  <2> QED BY <2>1, <2>2, <2>3 DEF Returns
<1>2. cooldown[a] <= now
  BY <1>1, EligibleRows DEF ConductorInv, Granted
<1>3. PICK rest \in Rests : cooldown[a] >= failed[a] + rest \/ now >= failed[a] + rest
  BY DEF ConductorInv, Rested
<1>4. cooldown[a] \in Nat /\ now \in Nat /\ failed[a] \in Int /\ rest \in Nat
  BY ConductorAssumption DEF ConductorInv, TypeOK, Rests
<1> QED BY <1>2, <1>3, <1>4

(* A reported account is left alone for at least the shortest cooldown. *)
THEOREM RestBeforeReuse == Spec => RestsAfterFailure
<1> DEFINE Rest ==
        \A req \in Requests, a \in Accounts :
            Select(req) /\ outcome' = Granted(a) /\ failed[a] >= 0 =>
                \E rest \in {AuthCooldown, QuotaCooldown, TransientCooldown} : now >= failed[a] + rest
<1>1. ConductorInv => Rest
  <2> SUFFICES ASSUME ConductorInv, NEW req \in Requests, NEW a \in Accounts,
                      Select(req), outcome' = Granted(a), failed[a] >= 0
               PROVE  \E rest \in {AuthCooldown, QuotaCooldown, TransientCooldown} : now >= failed[a] + rest
    OBVIOUS
  <2>1. req \in SelectRequest /\ Returns(req, Granted(a))
    BY ConductorAssumption DEF Select
  <2> QED BY <2>1, SelectedRested DEF Rests
<1>2. ConductorInv /\ [Next]_vars => [Rest]_vars
  BY <1>1
<1> QED BY <1>2, ConductorInvariant, PTL DEF Spec, RestsAfterFailure

-----------------------------------------------------------------------------
(* Remainders, for the cursor of the round robin *)

(* A multiple of n that is smaller than n is zero. *)
LEMMA SmallMultiple ==
    ASSUME NEW n \in Nat \ {0}, NEW d \in Int, -n < n * d, n * d < n
    PROVE  d = 0
  OBVIOUS

(* What is added in whole turns leaves the remainder. *)
LEMMA WholeTurns ==
    ASSUME NEW n \in Nat \ {0}, NEW z \in Int, NEW k \in Int
    PROVE  (z + n * k) % n = z % n
<1> DEFINE q == z \div n
           r == z % n
           p == (z + n * k) \div n
           s == (z + n * k) % n
<1>0. n * k \in Int
  OBVIOUS
<1>1. /\ q \in Int /\ r \in 0 .. n - 1 /\ z = n * q + r
      /\ p \in Int /\ s \in 0 .. n - 1 /\ z + n * k = n * p + s
  BY <1>0
<1> HIDE DEF q, r, p, s
<1>2. n * (p - q - k) = n * p - n * q - n * k
  BY <1>1
<1>3. n * (p - q - k) = r - s
  <2>1. n * p \in Int /\ n * q \in Int
    BY <1>1
  <2> QED BY <1>0, <1>1, <1>2, <2>1
<1>4. p - q - k = 0
  BY <1>1, <1>3, SmallMultiple
<1>5. r = s
  BY <1>1, <1>3, <1>4
<1> QED BY <1>5 DEF r, s

LEMMA Remainder ==
    ASSUME NEW n \in Nat \ {0}, NEW z \in Int, -n <= z, z < n
    PROVE  z % n = IF z < 0 THEN z + n ELSE z
  OBVIOUS

LEMMA Residue ==
    ASSUME NEW n \in Nat \ {0}, NEW z \in Int, NEW c \in Nat
    PROVE  (z - c) % n = (z - (c % n)) % n
<1> DEFINE q == c \div n
           r == c % n
<1>1. q \in Int /\ r \in 0 .. n - 1 /\ c = n * q + r
  OBVIOUS
<1> HIDE DEF q, r
<1>2. (z - c) + n * q = z - r /\ n * q \in Int
  BY <1>1
<1> DEFINE y == z - c
<1>3. y \in Int /\ y + n * q = z - r
  BY <1>2
<1> HIDE DEF y
<1>4. (y + n * q) % n = y % n
  BY <1>1, <1>3, WholeTurns
<1> QED BY <1>3, <1>4 DEF r, y

(* A cursor at c, moved behind i, the first that is picked: those that were *)
(* further ahead keep their order, and i is last.                           *)
Distance(x, c, n) == (x - 1 - c) % n

LEMMA PickedIsLast ==
    ASSUME NEW n \in Nat \ {0}, NEW c \in Nat, NEW i \in 1 .. n, NEW x \in 1 .. n
    PROVE  /\ Distance(x, c, n) \in 0 .. n - 1
           /\ Distance(i, i % n, n) = n - 1
           /\ x # i => Distance(x, i % n, n) < n - 1
           /\ x # i => Distance(x, c, n) # Distance(i, c, n)
           /\ Distance(x, c, n) > Distance(i, c, n) =>
                Distance(x, i % n, n) = Distance(x, c, n) - Distance(i, c, n) - 1
<1>1. PICK r \in 0 .. n - 1 : r = c % n
  OBVIOUS
<1>2. Distance(x, c, n) = (x - 1 - r) % n /\ Distance(i, c, n) = (i - 1 - r) % n
  <2> DEFINE y == x - 1
             j == i - 1
  <2>1. y \in Int /\ j \in Int
    OBVIOUS
  <2> HIDE DEF y, j
  <2>2. (y - c) % n = (y - (c % n)) % n /\ (j - c) % n = (j - (c % n)) % n
    BY <2>1, Residue
  <2> QED BY <1>1, <2>2 DEF Distance, y, j
<1>3. /\ (x - 1 - r) % n = IF x - 1 - r < 0 THEN x - 1 - r + n ELSE x - 1 - r
      /\ (i - 1 - r) % n = IF i - 1 - r < 0 THEN i - 1 - r + n ELSE i - 1 - r
  <2> DEFINE y == x - 1 - r
             j == i - 1 - r
  <2>1. y \in Int /\ j \in Int /\ -n <= y /\ y < n /\ -n <= j /\ j < n
    OBVIOUS
  <2> HIDE DEF y, j
  <2>2. y % n = (IF y < 0 THEN y + n ELSE y) /\ j % n = IF j < 0 THEN j + n ELSE j
    BY <2>1, Remainder
  <2> QED BY <2>2 DEF y, j
<1>4. PICK e \in 0 .. n - 1 : e = i % n /\ e = IF i = n THEN 0 ELSE i
  <2>1. n % n = 0
   <3>1. (0 + n * 1) % n = 0 % n
     BY WholeTurns
   <3>2. 0 % n = 0
     BY Remainder
   <3> QED BY <3>1, <3>2
  <2>2. i # n => i % n = i
    BY Remainder
  <2> QED BY <2>1, <2>2
<1>5. Distance(x, i % n, n) = (x - 1 - e) % n /\ Distance(i, i % n, n) = (i - 1 - e) % n
  BY <1>4 DEF Distance
<1>6. /\ (x - 1 - e) % n = IF x - 1 - e < 0 THEN x - 1 - e + n ELSE x - 1 - e
      /\ (i - 1 - e) % n = IF i - 1 - e < 0 THEN i - 1 - e + n ELSE i - 1 - e
  <2> DEFINE y == x - 1 - e
             j == i - 1 - e
  <2>1. y \in Int /\ j \in Int /\ -n <= y /\ y < n /\ -n <= j /\ j < n
    OBVIOUS
  <2> HIDE DEF y, j
  <2>2. y % n = (IF y < 0 THEN y + n ELSE y) /\ j % n = IF j < 0 THEN j + n ELSE j
    BY <2>1, Remainder
  <2> QED BY <2>2 DEF y, j
<1> QED BY <1>2, <1>3, <1>4, <1>5, <1>6

-----------------------------------------------------------------------------
(* The round robin's turns *)

(* The positions of the pool, and no account at two of them. *)
LEMMA PoolPositions ==
    ASSUME TypeOK
    PROVE  /\ DOMAIN pool = 1 .. Cardinality(DOMAIN pool)
           /\ \A i, j \in DOMAIN pool : pool[i].id = pool[j].id => i = j
<1>1. PICK accounts \in Pools : pool \in Sortings(accounts)
  BY DEF TypeOK
<1>2. /\ accounts \subseteq Account /\ IsFiniteSet(accounts)
      /\ \A a, b \in accounts : a.id = b.id => a = b
  BY <1>1, ConductorAssumption
<1>3. Cardinality(accounts) \in Nat
  BY <1>2, FS_CardinalityType
<1>4. /\ pool \in [1 .. Cardinality(accounts) -> accounts]
      /\ \A i, j \in DOMAIN pool : i < j => Before(pool[i], pool[j])
  BY <1>1 DEF Sortings
<1>5. Cardinality(DOMAIN pool) = Cardinality(accounts)
  <2>1. Cardinality(1 .. Cardinality(accounts)) =
            IF 1 > Cardinality(accounts) THEN 0 ELSE Cardinality(accounts) - 1 + 1
    BY <1>3, FS_Interval
  <2>2. (IF 1 > Cardinality(accounts) THEN 0 ELSE Cardinality(accounts) - 1 + 1) = Cardinality(accounts)
    BY <1>3
  <2> QED BY <1>4, <2>1, <2>2
<1>6. ASSUME NEW i \in DOMAIN pool, NEW j \in DOMAIN pool, pool[i].id = pool[j].id
      PROVE  i = j
  <2>1. pool[i] = pool[j] /\ pool[i] \in Account /\ i \in Nat /\ j \in Nat
    BY <1>2, <1>3, <1>4, <1>6
  <2>2. pool[i].priority \in Int /\ pool[i].id \in Nat
    BY <2>1, ConductorAssumption DEF Account
  <2>3. ~Before(pool[i], pool[i])
    BY <2>2 DEF Before
  <2> QED BY <1>4, <2>1, <2>3
<1>7. DOMAIN pool = 1 .. Cardinality(DOMAIN pool)
  BY <1>4, <1>5
<1> QED BY <1>6, <1>7

(* Who had its turn is further ahead of the cursor than who had not, and    *)
(* somebody has not.                                                        *)
InTurn(among, picks) ==
    \A j, k \in DOMAIN pool :
        /\ pool[j] \in among /\ picks[pool[j].id] = 1
        /\ pool[k] \in among /\ picks[pool[k].id] = 0
        => Ahead(k) < Ahead(j)

TurnInv ==
    /\ tally.among \subseteq {pool[j] : j \in DOMAIN pool}
    /\ \A a \in tally.among : tally.picks[a.id] \in {0, 1}
    /\ tally.among # {} => \E a \in tally.among : tally.picks[a.id] = 0
    /\ InTurn(tally.among, tally.picks)

LEMMA NoTallyInTurn == tally' = NoTally => TurnInv'
  BY DEF TurnInv, InTurn, NoTally

(* A turn of the round robin goes to one that had none. *)
LEMMA RoundRobinTurn ==
    ASSUME TypeOK, TurnInv, Strategy # "weighted-round-robin", UNCHANGED pool,
           NEW req \in SelectRequest, NEW i \in Eligible(req), RoundRobin(req, i), Count(req, i)
    PROVE  TurnInv'
<1> DEFINE n == Cardinality(DOMAIN pool)
           among == {pool[j] : j \in Eligible(req)}
           before == IF tally.among = among THEN tally.picks ELSE NoTally.picks
           picks == [before EXCEPT ![pool[i].id] = @ + 1]
<1>1. /\ n \in Nat \ {0} /\ DOMAIN pool = 1 .. n /\ cursor \in Nat
      /\ Eligible(req) \subseteq DOMAIN pool /\ i \in 1 .. n
      /\ \A j, k \in DOMAIN pool : pool[j].id = pool[k].id => j = k
      /\ \A j \in DOMAIN pool : pool[j].id \in Accounts
  <2>1. Eligible(req) \subseteq DOMAIN pool
    BY DEF Eligible
  <2>2. DOMAIN pool = 1 .. n /\ \A j, k \in DOMAIN pool : pool[j].id = pool[k].id => j = k
    BY PoolPositions
  <2>3. /\ n \in Nat /\ i \in DOMAIN pool /\ n > 0
        /\ \A j \in DOMAIN pool : pool[j].id \in Accounts
    BY <2>1, PoolRows
  <2>4. cursor \in Nat
    BY DEF TypeOK
  <2> QED BY <2>1, <2>2, <2>3, <2>4
<1>2. /\ \A j \in Eligible(req) : Ahead(i) <= Ahead(j)
      /\ cursor' = i % n
  BY DEF RoundRobin
<1>3. tally' = IF \A a \in among : picks[a.id] = 1 THEN NoTally ELSE [among |-> among, picks |-> picks]
  BY DEF Count, Share
<1>4. /\ before \in [Accounts -> Nat]
      /\ \A a \in among : before[a.id] \in {0, 1}
      /\ \E a \in among : before[a.id] = 0
      /\ InTurn(among, before)
  <2>1. CASE tally.among = among
    <3>1. among # {}
      OBVIOUS
    <3>2. before = tally.picks
      BY <2>1
    <3> HIDE DEF among, before
    <3> QED BY <2>1, <3>1, <3>2 DEF TurnInv, TypeOK
  <2>2. CASE tally.among # among
    <3>1. before = [a \in Accounts |-> 0]
      BY <2>2 DEF NoTally
    <3>2. \A a \in among : a.id \in Accounts
      BY <1>1
    <3>3. pool[i] \in among
      OBVIOUS
    <3> HIDE DEF among, before
    <3> QED BY <3>1, <3>2, <3>3, <1>1 DEF InTurn
  <2> QED BY <2>1, <2>2
<1> HIDE DEF before
<1>5. /\ \A j \in DOMAIN pool : pool[j] \in among <=> j \in Eligible(req)
      /\ among \subseteq {pool[j] : j \in DOMAIN pool}
  BY <1>1
<1>6. pool[i] \in among
  OBVIOUS
<1> HIDE DEF among
<1>7. before[pool[i].id] = 0
  <2> SUFFICES ASSUME before[pool[i].id] = 1 PROVE FALSE
    BY <1>4, <1>6
  <2>1. PICK a \in among : before[a.id] = 0
    BY <1>4
  <2>2. PICK k \in DOMAIN pool : pool[k] = a
    BY <1>5
  <2>3. k \in Eligible(req) /\ Ahead(k) < Ahead(i)
    BY <1>1, <1>4, <1>5, <1>6, <2>1, <2>2 DEF InTurn
  <2>4. Ahead(i) \in Nat /\ Ahead(k) \in Nat
    BY <1>1, <2>2 DEF Ahead
  <2> QED BY <1>2, <2>3, <2>4
<1>8. picks \in [Accounts -> Nat]
      /\ \A j \in DOMAIN pool : picks[pool[j].id] = IF j = i THEN 1 ELSE before[pool[j].id]
  BY <1>1, <1>4, <1>7
<1> HIDE DEF picks
<1>9. CASE \A a \in among : picks[a.id] = 1
  BY <1>3, <1>9, NoTallyInTurn
<1>10. CASE ~\A a \in among : picks[a.id] = 1
  <2>1. tally'.among = among /\ tally'.picks = picks
    BY <1>3, <1>10
  <2>2. \A a \in among : picks[a.id] \in {0, 1}
    BY <1>4, <1>5, <1>8
  <2>3. \E a \in among : picks[a.id] = 0
    BY <1>10, <2>2
  <2>4. ASSUME NEW j \in DOMAIN pool, NEW k \in DOMAIN pool,
               pool[j] \in among, picks[pool[j].id] = 1, pool[k] \in among, picks[pool[k].id] = 0
        PROVE  Distance(k, i % n, n) < Distance(j, i % n, n)
    <3> HIDE DEF n
    <3>0. n \in Nat \ {0} /\ cursor \in Nat /\ i \in 1 .. n /\ j \in 1 .. n /\ k \in 1 .. n
      BY <1>1, <2>4
    <3>1. k # i /\ before[pool[k].id] = 0
      BY <1>8, <2>4
    <3>2. j \in Eligible(req) /\ k \in Eligible(req)
      BY <1>5, <2>4
    <3>3. /\ Ahead(j) = Distance(j, cursor, n) /\ Ahead(k) = Distance(k, cursor, n)
          /\ Ahead(i) = Distance(i, cursor, n)
      BY DEF Ahead, Distance, n
    <3>4. \A x \in 1 .. n :
              /\ Distance(x, cursor, n) \in 0 .. n - 1
              /\ Distance(i, i % n, n) = n - 1
              /\ x # i => Distance(x, i % n, n) < n - 1
              /\ x # i => Distance(x, cursor, n) # Distance(i, cursor, n)
              /\ Distance(x, cursor, n) > Distance(i, cursor, n) =>
                   Distance(x, i % n, n) = Distance(x, cursor, n) - Distance(i, cursor, n) - 1
      BY <3>0, PickedIsLast
    <3>5. CASE j = i
      BY <3>0, <3>1, <3>4, <3>5
    <3>6. CASE j # i
      <4>1. before[pool[j].id] = 1
        BY <1>8, <2>4, <3>6
      <4>2. Ahead(k) < Ahead(j)
        BY <1>4, <2>4, <3>1, <4>1 DEF InTurn
      <4>3. Distance(i, cursor, n) < Distance(k, cursor, n) /\ Distance(i, cursor, n) < Distance(j, cursor, n)
        BY <1>2, <3>0, <3>1, <3>2, <3>3, <3>4, <3>6
      <4> QED BY <3>0, <3>3, <3>4, <4>2, <4>3
    <3> QED BY <3>5, <3>6
  <2>5. InTurn(tally.among, tally.picks)'
    <3>1. \A j \in DOMAIN pool : Ahead(j)' = Distance(j, i % n, n)
      BY <1>2 DEF Ahead, Distance
    <3> QED BY <2>1, <2>4, <3>1 DEF InTurn
  <2> QED BY <1>5, <2>1, <2>2, <2>3, <2>5 DEF TurnInv
<1> QED BY <1>9, <1>10

-----------------------------------------------------------------------------
(***************************************************************************)
(* The turns of the weighted strategy.  WeightUpTo is a sum, and a sum of  *)
(* weights is the number of turns they stand for.                          *)
(***************************************************************************)

(* Every non-empty set of natural numbers has a least one: induction, by    *)
(* the least counterexample.                                                *)
LEMMA LeastNumber ==
    ASSUME NEW S \in SUBSET Nat, S # {}
    PROVE  \E n \in S : \A k \in S : n <= k
<1> DEFINE Less == OpToRel(<, Nat)
<1>1. IsWellFoundedOn(Less, Nat)
  BY NatLessThanWellFounded
<1>2. PICK n \in S : \A k \in S : ~(<<k, n>> \in Less)
  <2> HIDE DEF Less
  <2> QED BY <1>1, WFMin
<1>3. ASSUME NEW k \in S PROVE n <= k
  <2>1. k \in Nat /\ n \in Nat
    OBVIOUS
  <2>2. k < n => <<k, n>> \in Less
    BY <2>1 DEF OpToRel
  <2> HIDE DEF Less
  <2> QED BY <1>2, <2>1, <2>2
<1> QED BY <1>3

(* Positions of accounts that the strategy gives turns. *)
Weighed(s) == IsFiniteSet(s) /\ \A j \in s : pool[j].weight \in 1 .. MaxWeight

(* One element for each turn of an account at one of the positions. *)
Turns(s) == {t \in s \X (1 .. MaxWeight) : t[2] <= pool[t[1]].weight}

LEMMA TurnsFinite ==
    ASSUME NEW s, Weighed(s)
    PROVE  /\ IsFiniteSet(Turns(s)) /\ Cardinality(Turns(s)) \in Nat
           /\ \A u \in SUBSET s : Weighed(u) /\ Cardinality(Turns(u)) <= Cardinality(Turns(s))
<1>1. IsFiniteSet(1 .. MaxWeight)
  <2>1. MaxWeight \in Nat
    BY ConductorAssumption
  <2> QED BY <2>1, FS_Interval
<1> DEFINE all == 1 .. MaxWeight
<1>2. IsFiniteSet(s \X all)
  <2>1. IsFiniteSet(all) /\ IsFiniteSet(s)
    BY <1>1 DEF Weighed
  <2> HIDE DEF all
  <2> QED BY <2>1, FS_Product
<1>3. IsFiniteSet(Turns(s))
  BY <1>2, FS_Subset DEF Turns
<1>4. ASSUME NEW u \in SUBSET s PROVE Weighed(u) /\ Cardinality(Turns(u)) <= Cardinality(Turns(s))
  <2>1. Turns(u) \in SUBSET Turns(s)
    BY DEF Turns
  <2>2. Weighed(u)
    BY FS_Subset DEF Weighed
  <2> QED BY <1>3, <2>1, <2>2, FS_Subset
<1> QED BY <1>3, <1>4, FS_CardinalityType

LEMMA TurnsAdd ==
    ASSUME NEW s, Weighed(s), NEW x \in s
    PROVE  Cardinality(Turns(s)) = pool[x].weight + Cardinality(Turns(s \ {x}))
<1> DEFINE w == pool[x].weight
           one == {x}
           own == 1 .. w
           rest == Turns(s \ {x})
<1>1. w \in 1 .. MaxWeight /\ MaxWeight \in Nat
  BY ConductorAssumption DEF Weighed
<1>2. Turns(s) = (one \X own) \cup rest
  BY <1>1 DEF Turns
<1>3. (one \X own) \cap rest = {}
  BY DEF Turns
<1>4. IsFiniteSet(one) /\ Cardinality(one) = 1 /\ IsFiniteSet(own) /\ Cardinality(own) = w
  <2>1. IsFiniteSet(own) /\ Cardinality(own) = w
    <3>1. IsFiniteSet(own) /\ Cardinality(own) = IF 1 > w THEN 0 ELSE w - 1 + 1
      BY <1>1, FS_Interval
    <3> QED BY <1>1, <3>1
  <2>2. IsFiniteSet(one) /\ Cardinality(one) = 1
    BY FS_Singleton
  <2> QED BY <2>1, <2>2
<1>5. IsFiniteSet(rest) /\ Cardinality(rest) \in Nat
  <2>1. Weighed(s \ {x})
    BY TurnsFinite
  <2> QED BY <2>1, TurnsFinite
<1> HIDE DEF w, one, own, rest
<1>6. IsFiniteSet(one \X own) /\ Cardinality(one \X own) = Cardinality(one) * Cardinality(own)
  BY <1>4, FS_Product
<1>7. Cardinality(one \X own) = w
  BY <1>1, <1>4, <1>6
<1> DEFINE mine == one \X own
<1>8. Cardinality(mine \cup rest) = Cardinality(mine) + Cardinality(rest) - Cardinality(mine \cap rest)
  <2>1. IsFiniteSet(mine)
    BY <1>6
  <2> HIDE DEF mine
  <2> QED BY <1>5, <2>1, FS_Union
<1>9. Cardinality(mine \cap rest) = 0
  BY <1>3, FS_EmptySet
<1>10. Cardinality(mine \cup rest) = w + Cardinality(rest)
  <2>1. Cardinality(mine) = w
    BY <1>7
  <2> HIDE DEF mine
  <2> QED BY <1>1, <1>5, <1>8, <1>9, <2>1
<1> QED BY <1>2, <1>10 DEF w, rest, mine

Pick(s) == CHOOSE x \in s : TRUE

(* g adds up the weights of each set of positions. *)
AddsUp(g, R) ==
    g = [s \in SUBSET R |-> IF s = {} THEN 0 ELSE pool[Pick(s)].weight + g[s \ {Pick(s)}]]

LEMMA WeightsAre ==
    ASSUME NEW R, Weighed(R)
    PROVE  MapThenSumSet(LAMBDA j : pool[j].weight, R) = Cardinality(Turns(R))
<1> DEFINE h == [s \in SUBSET R |-> Cardinality(Turns(s))]
<1>1. AddsUp(h, R)
  <2>1. ASSUME NEW s \in SUBSET R, s # {} PROVE h[s] = pool[Pick(s)].weight + h[s \ {Pick(s)}]
    <3>1. Pick(s) \in s
      BY <2>1 DEF Pick
    <3>2. s \ {Pick(s)} \in SUBSET R /\ Weighed(s)
      BY TurnsFinite
    <3>3. Cardinality(Turns(s)) = pool[Pick(s)].weight + Cardinality(Turns(s \ {Pick(s)}))
      BY <3>1, <3>2, TurnsAdd
    <3> QED BY <3>2, <3>3
  <2>2. h[{}] = 0
    <3>1. Turns({}) = {}
      BY DEF Turns
    <3> QED BY <3>1, FS_EmptySet
  <2> DEFINE g == [s \in SUBSET R |-> IF s = {} THEN 0 ELSE pool[Pick(s)].weight + h[s \ {Pick(s)}]]
  <2>3. \A s \in SUBSET R : h[s] = g[s]
    <3> SUFFICES ASSUME NEW s \in SUBSET R PROVE h[s] = g[s]
      OBVIOUS
    <3> HIDE DEF h
    <3> QED BY <2>1, <2>2
  <2>4. h = [s \in SUBSET R |-> h[s]] /\ g = [s \in SUBSET R |-> g[s]]
    OBVIOUS
  <2>5. h = g
    <3> HIDE DEF h, g
    <3> QED BY <2>3, <2>4
  <2> HIDE DEF h
  <2> QED BY <2>5 DEF AddsUp
<1>2. h[R] = Cardinality(Turns(R))
  OBVIOUS
<1> HIDE DEF h
<1>3. ASSUME NEW g, AddsUp(g, R), NEW q, AddsUp(q, R) PROVE \A s \in SUBSET R : g[s] = q[s]
  <2> DEFINE Bad == {s \in SUBSET R : g[s] # q[s]}
             Sizes == {Cardinality(s) : s \in Bad}
  <2> SUFFICES ASSUME Bad # {} PROVE FALSE
    OBVIOUS
  <2>1. \A s \in SUBSET R : IsFiniteSet(s) /\ Cardinality(s) \in Nat
    BY TurnsFinite, FS_CardinalityType DEF Weighed
  <2>2. PICK s \in Bad : \A t \in Bad : Cardinality(s) <= Cardinality(t)
    <3>1. Sizes \in SUBSET Nat /\ Sizes # {}
      BY <2>1
    <3>2. PICK n \in Sizes : \A k \in Sizes : n <= k
      <4> HIDE DEF Sizes
      <4> QED BY <3>1, LeastNumber
    <3> QED BY <3>2
  <2>3. s \in SUBSET R /\ g[s] # q[s]
    OBVIOUS
  <2>4. s # {}
    BY <1>3, <2>3 DEF AddsUp
  <2> DEFINE less == s \ {Pick(s)}
  <2>5. Pick(s) \in s
    BY <2>4 DEF Pick
  <2>6. less \in SUBSET R /\ ~(Cardinality(s) <= Cardinality(less))
    BY <2>1, <2>3, <2>5, FS_RemoveElement
  <2>7. g[less] = q[less]
    BY <2>2, <2>6
  <2>8. g[s] = pool[Pick(s)].weight + g[less]
    BY <1>3, <2>3, <2>4 DEF AddsUp
  <2>9. q[s] = pool[Pick(s)].weight + q[less]
    BY <1>3, <2>3, <2>4 DEF AddsUp
  <2> QED BY <2>3, <2>7, <2>8, <2>9
<1>4. AddsUp(CHOOSE g : AddsUp(g, R), R)
  BY <1>1
<1>5. (CHOOSE g : AddsUp(g, R))[R] = h[R]
  BY <1>1, <1>3, <1>4
<1>6. MapThenSumSet(LAMBDA j : pool[j].weight, R) = (CHOOSE g : AddsUp(g, R))[R]
  BY DEF MapThenSumSet, MapThenFoldSet, AddsUp, Pick
<1> QED BY <1>2, <1>5, <1>6

(* The turns of a round begin behind those of the positions before i, and   *)
(* end with its own.                                                        *)
Begins(s, i) == Cardinality(Turns({j \in s : j < i}))
Ends(s, i) == Cardinality(Turns({j \in s : j <= i}))

LEMMA Intervals ==
    ASSUME NEW s \in SUBSET Nat, Weighed(s), NEW i \in s
    PROVE  /\ Begins(s, i) \in Nat /\ Ends(s, i) = Begins(s, i) + pool[i].weight
           /\ pool[i].weight \in Nat \ {0} /\ Ends(s, i) \in Nat
           /\ Ends(s, i) <= Cardinality(Turns(s)) /\ Cardinality(Turns(s)) \in Nat
           /\ \A j \in s : i < j => Ends(s, i) <= Begins(s, j)
<1> DEFINE below == {j \in s : j < i}
           upto == {j \in s : j <= i}
<1>1. upto \in SUBSET s /\ below \in SUBSET s /\ i \in upto /\ below = upto \ {i}
  <2>1. \A j \in s : (j < i <=> j <= i /\ j # i) /\ i <= i
    <3>1. \A j \in s : j \in Nat
      OBVIOUS
    <3> QED BY <3>1
  <2>2. below = upto \ {i}
    BY <2>1
  <2> QED BY <2>1, <2>2
<1>2. Weighed(upto) /\ Weighed(below)
  BY <1>1, TurnsFinite
<1>3. Cardinality(Turns(below)) \in Nat /\ Cardinality(Turns(upto)) <= Cardinality(Turns(s))
      /\ Cardinality(Turns(s)) \in Nat
  BY <1>1, <1>2, TurnsFinite
<1>4. Cardinality(Turns(upto)) = pool[i].weight + Cardinality(Turns(below))
  BY <1>1, <1>2, TurnsAdd
<1>5. pool[i].weight \in Nat \ {0}
  BY ConductorAssumption DEF Weighed
<1>6. ASSUME NEW j \in s, i < j PROVE Cardinality(Turns(upto)) <= Begins(s, j)
  <2> DEFINE later == {k \in s : k < j}
  <2>1. upto \in SUBSET later
    <3>1. \A k \in s : k <= i => k < j
      <4>1. \A k \in s : k \in Nat
        OBVIOUS
      <4> QED BY <1>6, <4>1
    <3> QED BY <3>1
  <2>2. Weighed(later)
    BY TurnsFinite
  <2> HIDE DEF upto
  <2>3. Cardinality(Turns(upto)) <= Cardinality(Turns(later))
    BY <2>1, <2>2, TurnsFinite
  <2> QED BY <2>3 DEF Begins
<1> HIDE DEF below, upto
<1>7. Begins(s, i) = Cardinality(Turns(below)) /\ Ends(s, i) = Cardinality(Turns(upto))
  BY DEF Begins, Ends, below, upto
<1> QED BY <1>3, <1>4, <1>5, <1>6, <1>7

LEMMA Greatest ==
    ASSUME NEW n \in Nat, NEW S \in SUBSET (1 .. n), S # {}
    PROVE  \E m \in S : \A k \in S : k <= m
<1> DEFINE T == {n - k : k \in S}
<1>1. T \in SUBSET Nat /\ T # {}
  <2>1. \A k \in S : n - k \in Nat
    OBVIOUS
  <2> QED BY <2>1
<1>2. PICK t \in T : \A u \in T : t <= u
  <2> HIDE DEF T
  <2> QED BY <1>1, LeastNumber
<1>3. PICK m \in S : t = n - m
  OBVIOUS
<1>4. ASSUME NEW k \in S PROVE k <= m
  <2>1. n - m <= n - k
    BY <1>2, <1>3
  <2> QED BY <2>1
<1> QED BY <1>4

(* The turns of a round that are an account's own. *)
Owns(s, i, r) == Begins(s, i) <= r /\ r < Ends(s, i)

(* Each turn of a round is owned by the account that is the first to end    *)
(* behind it, and by no other.                                              *)
LEMMA OneOwner ==
    ASSUME NEW n \in Nat, NEW s \in SUBSET (1 .. n), Weighed(s), s # {},
           NEW r \in Nat, r < Cardinality(Turns(s)),
           NEW i, i = First({j \in s : r < Ends(s, j)})
    PROVE  i \in s /\ \A j \in s : Owns(s, j, r) <=> j = i
<1> DEFINE S == {j \in s : r < Ends(s, j)}
<1>0. s \in SUBSET Nat
  OBVIOUS
<1>1. \A j \in s :
          /\ Begins(s, j) \in Nat /\ Ends(s, j) \in Nat
          /\ \A k \in s : j < k => Ends(s, j) <= Begins(s, k)
  BY <1>0, Intervals
<1>2. S # {}
  <2>1. PICK m \in s : \A k \in s : k <= m
    BY Greatest
  <2>2. {j \in s : j <= m} = s
    BY <2>1
  <2>3. Ends(s, m) = Cardinality(Turns(s))
    BY <2>2 DEF Ends
  <2> QED BY <2>1, <2>3
<1>3. S \in SUBSET Nat /\ S \in SUBSET s
  <2>1. \A j \in S : j \in s /\ j \in Nat
    OBVIOUS
  <2> QED BY <2>1
<1>4. i = CHOOSE x \in S : \A y \in S : x <= y
  BY DEF First
<1>5. i \in S /\ \A y \in S : i <= y
  <2> HIDE DEF S
  <2>1. \E x \in S : \A y \in S : x <= y
    BY <1>2, <1>3, LeastNumber
  <2> QED BY <1>4, <2>1
<1>6. i \in s /\ r < Ends(s, i) /\ \A j \in s : j < i => Ends(s, j) <= r
  <2>1. ASSUME NEW j \in s, j < i PROVE Ends(s, j) <= r
    <3>1. ~(r < Ends(s, j))
      BY <1>5, <2>1
    <3> QED BY <1>1, <3>1
  <2> QED BY <1>5, <2>1
<1>7. Begins(s, i) <= r
  <2> DEFINE below == {j \in s : j < i}
  <2>1. CASE below = {}
    <3>1. Turns({}) = {}
      BY DEF Turns
    <3>2. Begins(s, i) = 0
      BY <2>1, <3>1, FS_EmptySet DEF Begins
    <3> QED BY <3>2
  <2>2. CASE below # {}
    <3>1. below \in SUBSET (1 .. n)
      OBVIOUS
    <3>2. PICK m \in below : \A k \in below : k <= m
      <4> HIDE DEF below
      <4> QED BY <2>2, <3>1, Greatest
    <3>3. m \in s /\ m < i
      OBVIOUS
    <3>4. below = {j \in s : j <= m}
      <4>1. \A j \in s : j < i <=> j <= m
        BY <1>3, <1>5, <3>2, <3>3
      <4> QED BY <4>1
    <3>5. Begins(s, i) = Ends(s, m)
      BY <3>4 DEF Begins, Ends
    <3> QED BY <1>6, <3>3, <3>5
  <2> QED BY <2>1, <2>2
<1>8. ASSUME NEW j \in s, j # i PROVE ~Owns(s, j, r)
  <2>1. j < i \/ i < j
    BY <1>6, <1>8
  <2>2. CASE j < i
    BY <1>1, <1>6, <2>2 DEF Owns
  <2>3. CASE i < j
    BY <1>1, <1>6, <2>3 DEF Owns
  <2> QED BY <2>1, <2>2, <2>3
<1> QED BY <1>6, <1>7, <1>8 DEF Owns

(* A round is any T steps of the cursor in a row: each turn comes once.     *)
LEMMA OncePerRound ==
    ASSUME NEW T \in Nat \ {0}, NEW p \in Nat, NEW q \in Nat, p % T = q % T, p - q < T, q - p < T
    PROVE  p = q
<1> DEFINE a == p \div T
           b == q \div T
           r == p % T
<1>1. a \in Int /\ b \in Int /\ r \in 0 .. T - 1 /\ p = T * a + r /\ q = T * b + r
  OBVIOUS
<1> HIDE DEF a, b, r
<1>2. T * (a - b) = T * a - T * b
  BY <1>1
<1>3. T * a \in Int /\ T * b \in Int
  BY <1>1
<1>4. T * (a - b) = p - q
  BY <1>1, <1>2, <1>3
<1>5. a - b = 0
  BY <1>1, <1>4, SmallMultiple
<1> QED BY <1>1, <1>4, <1>5

LEMMA EveryTurnComes ==
    ASSUME NEW T \in Nat \ {0}, NEW c \in Nat, NEW r \in 0 .. T - 1
    PROVE  \E q \in c .. c + T - 1 : q % T = r
<1> DEFINE a == (r - c) \div T
           m == (r - c) % T
<1>1. r - c \in Int
  OBVIOUS
<1>2. a \in Int /\ m \in 0 .. T - 1 /\ r - c = T * a + m
  BY <1>1
<1> HIDE DEF a, m
<1> DEFINE k == -a
<1>3. T * k = -(T * a) /\ T * a \in Int /\ k \in Int /\ r \in Int
  BY <1>2
<1> HIDE DEF k
<1>4. c + m = r + T * k
  BY <1>2, <1>3
<1>5. (r + T * k) % T = r % T
  BY <1>3, WholeTurns
<1>6. r % T = r
  BY Remainder
<1>7. c + m \in c .. c + T - 1
  BY <1>2
<1> QED BY <1>4, <1>5, <1>6, <1>7

(* When the account at i has its turns while the cursor goes from c to d.   *)
Taken(s, i, c, d) == {q \in c .. d - 1 : Owns(s, i, q % Cardinality(Turns(s)))}

LEMMA TakenFinite ==
    ASSUME NEW s, NEW i, NEW c \in Nat, NEW d \in Nat
    PROVE  IsFiniteSet(Taken(s, i, c, d)) /\ Cardinality(Taken(s, i, c, d)) \in Nat
<1>1. IsFiniteSet(c .. d - 1)
  BY FS_Interval
<1> QED BY <1>1, FS_Subset, FS_CardinalityType DEF Taken

LEMMA TurnTaken ==
    ASSUME NEW s, NEW i, NEW c \in Nat, NEW d \in Nat, c <= d
    PROVE  Cardinality(Taken(s, i, c, d + 1)) =
               Cardinality(Taken(s, i, c, d)) + (IF Owns(s, i, d % Cardinality(Turns(s))) THEN 1 ELSE 0)
<1> DEFINE T == Cardinality(Turns(s))
           old == Taken(s, i, c, d)
<1>1. \A q : q \in c .. (d + 1) - 1 <=> q \in c .. d - 1 \/ q = d
  OBVIOUS
<1>2. d \notin old
  BY DEF Taken
<1>3. Taken(s, i, c, d + 1) = IF Owns(s, i, d % T) THEN old \cup {d} ELSE old
  BY <1>1 DEF Taken
<1>4. IsFiniteSet(old) /\ Cardinality(old) \in Nat
  BY TakenFinite
<1> HIDE DEF old
<1>5. Cardinality(old \cup {d}) = Cardinality(old) + 1
  BY <1>2, <1>4, FS_AddElement
<1> QED BY <1>3, <1>4, <1>5 DEF old

(* Nobody has more turns than its weight within a round, and at its end     *)
(* everybody has had as many.                                               *)
LEMMA RoundIsFair ==
    ASSUME NEW s \in SUBSET Nat, Weighed(s), NEW i \in s, NEW c \in Nat, NEW d \in Nat,
           c <= d, d <= c + Cardinality(Turns(s))
    PROVE  /\ Cardinality(Taken(s, i, c, d)) <= pool[i].weight
           /\ d = c + Cardinality(Turns(s)) => Cardinality(Taken(s, i, c, d)) = pool[i].weight
<1> DEFINE T == Cardinality(Turns(s))
           w == pool[i].weight
           b == Begins(s, i)
           e == Ends(s, i)
           own == b .. e - 1
           taken == Taken(s, i, c, d)
           f == [q \in taken |-> q % T]
<1>1. /\ b \in Nat /\ e = b + w /\ w \in Nat \ {0} /\ e \in Nat /\ e <= T /\ T \in Nat
  BY Intervals
<1>2. T \in Nat \ {0}
  BY <1>1
<1> HIDE DEF T, w, b, e
<1>3. IsFiniteSet(own) /\ Cardinality(own) = w
  <2>1. IsFiniteSet(b .. e - 1) /\ Cardinality(b .. e - 1) = IF b > e - 1 THEN 0 ELSE (e - 1) - b + 1
    BY <1>1, FS_Interval
  <2>2. (IF b > e - 1 THEN 0 ELSE (e - 1) - b + 1) = w
    BY <1>1
  <2> QED BY <2>1, <2>2
<1>4. \A q : q \in taken <=> q \in c .. d - 1 /\ b <= q % T /\ q % T < e
  BY DEF Taken, Owns, T, b, e
<1>5. \A q \in c .. d - 1 : q \in Nat /\ q % T \in 0 .. T - 1
  BY <1>2
<1> HIDE DEF taken
<1>6. \A q \in taken : q \in Nat /\ q \in c .. d - 1 /\ q % T \in own
  BY <1>1, <1>4, <1>5
<1>7. \A p, q \in taken : p % T = q % T => p = q
  <2> SUFFICES ASSUME NEW p \in taken, NEW q \in taken, p % T = q % T PROVE p = q
    OBVIOUS
  <2>1. p \in Nat /\ q \in Nat /\ p - q < T /\ q - p < T
    <3>1. d <= c + T
      BY DEF T
    <3>2. p \in c .. d - 1 /\ q \in c .. d - 1
      BY <1>6
    <3> QED BY <1>2, <3>1, <3>2
  <2> QED BY <1>2, <2>1, OncePerRound
<1>8. f \in Injection(taken, own)
  <2> HIDE DEF own
  <2> QED BY <1>6, <1>7 DEF Injection, IsInjective
<1>9. ASSUME d = c + T PROVE f \in Surjection(taken, own)
  <2>1. ASSUME NEW r \in own PROVE \E q \in taken : f[q] = r
    <3>1. r \in 0 .. T - 1 /\ b <= r /\ r < e
      BY <1>1
    <3>2. PICK q \in c .. c + T - 1 : q % T = r
      BY <1>2, <3>1, EveryTurnComes
    <3>3. q \in taken
      <4>1. q \in c .. d - 1
        BY <1>2, <1>9, <3>2
      <4> QED BY <1>4, <3>1, <3>2, <4>1
    <3>4. f[q] = q % T
      BY <3>3
    <3> HIDE DEF f, own
    <3> QED BY <3>2, <3>3, <3>4
  <2>2. f \in [taken -> own]
    BY <1>6
  <2> HIDE DEF f, own
  <2> QED BY <2>1, <2>2 DEF Surjection
<1> HIDE DEF f, own
<1>10. Cardinality(taken) <= Cardinality(own)
       /\ (Cardinality(taken) = Cardinality(own) <=> f \in Surjection(taken, own))
  BY <1>3, <1>8, FS_Injection
<1>11. Cardinality(taken) <= w /\ (d = c + T => Cardinality(taken) = w)
  BY <1>3, <1>9, <1>10
<1> QED BY <1>11 DEF taken, w, T

(* Whose turns are counted, by position. *)
Among(accounts) == {j \in DOMAIN pool : pool[j] \in accounts}

(* The picks are the turns of a round that has begun and not ended. *)
RoundFrom(c, s, picks) ==
    /\ c <= cursor /\ cursor < c + Cardinality(Turns(s))
    /\ \A j \in s : picks[pool[j].id] = Cardinality(Taken(s, j, c, cursor))

RoundInv ==
    /\ tally.among \subseteq {pool[j] : j \in DOMAIN pool}
    /\ tally.among # {} =>
          LET s == Among(tally.among)
          IN  Weighed(s) /\ \E c \in Nat : RoundFrom(c, s, tally.picks)

LEMMA NoTallyInRound == tally' = NoTally => RoundInv'
  BY DEF RoundInv, NoTally

(* The weights of those the strategy may take are sound. *)
LEMMA EligibleWeighed ==
    ASSUME TypeOK, Strategy = "weighted-round-robin", NEW req \in SelectRequest
    PROVE  /\ Eligible(req) \in SUBSET (1 .. Cardinality(DOMAIN pool)) /\ Weighed(Eligible(req))
           /\ \A s \in SUBSET Eligible(req) :
                 MapThenSumSet(LAMBDA j : pool[j].weight, s) = Cardinality(Turns(s))
<1>1. DOMAIN pool = 1 .. Cardinality(DOMAIN pool) /\ Cardinality(DOMAIN pool) \in Nat
  BY PoolPositions, PoolRows
<1>2. Eligible(req) \in SUBSET (1 .. Cardinality(DOMAIN pool))
  BY <1>1 DEF Eligible
<1>3. \A j \in Eligible(req) : pool[j].weight \in 1 .. MaxWeight
  BY DEF Eligible, Admits, Qualified
<1>4. IsFiniteSet(Eligible(req))
  <2>1. IsFiniteSet(1 .. Cardinality(DOMAIN pool))
    BY <1>1, FS_Interval
  <2> QED BY <1>2, <2>1, FS_Subset
<1>5. Weighed(Eligible(req))
  BY <1>3, <1>4 DEF Weighed
<1>6. \A s \in SUBSET Eligible(req) : Weighed(s)
  BY <1>5, TurnsFinite
<1> QED BY <1>2, <1>5, <1>6, WeightsAre

(* A pick of the weighted round robin is the next turn of its round. *)
LEMMA WeightedTurn ==
    ASSUME TypeOK, RoundInv, Strategy = "weighted-round-robin", UNCHANGED pool,
           NEW req \in SelectRequest, NEW i \in Eligible(req), Weighted(req, i), Count(req, i)
    PROVE  RoundInv'
<1>0. PICK s : s = Eligible(req)
  OBVIOUS
<1> DEFINE T == Cardinality(Turns(s))
           among == {pool[j] : j \in s}
           before == IF tally.among = among THEN tally.picks ELSE NoTally.picks
           picks == [before EXCEPT ![pool[i].id] = @ + 1]
           n == Cardinality(DOMAIN pool)
<1>1. /\ n \in Nat /\ s \in SUBSET (1 .. n) /\ s \in SUBSET Nat /\ Weighed(s) /\ cursor \in Nat
      /\ s \in SUBSET DOMAIN pool /\ i \in s
      /\ \A j, k \in DOMAIN pool : pool[j].id = pool[k].id => j = k
      /\ \A j \in DOMAIN pool : pool[j].id \in Accounts
  <2>1. s \in SUBSET DOMAIN pool
    BY <1>0 DEF Eligible
  <2>2. n \in Nat /\ \A j \in DOMAIN pool : j \in Nat
    BY PoolRows
  <2> QED BY <1>0, <2>1, <2>2, EligibleWeighed, PoolPositions, PoolRows DEF TypeOK
<1>2. Among(among) = s
  BY <1>1 DEF Among
<1>3. T \in Nat \ {0}
  BY <1>1, Intervals
<1>4. /\ i = First({j \in s : cursor % T < Ends(s, j)})
      /\ cursor' = cursor + 1
  <2>1. MapThenSumSet(LAMBDA j : pool[j].weight, s) = T
    BY <1>0, EligibleWeighed
  <2>2. \A j \in s : WeightUpTo(req, j) = Ends(s, j)
    <3> SUFFICES ASSUME NEW j \in s PROVE WeightUpTo(req, j) = Ends(s, j)
      OBVIOUS
    <3>1. {k \in s : k <= j} \in SUBSET s
      OBVIOUS
    <3> QED BY <1>0, <3>1, EligibleWeighed DEF WeightUpTo, Ends
  <2>3. {j \in s : cursor % T < WeightUpTo(req, j)} = {j \in s : cursor % T < Ends(s, j)}
    BY <2>2
  <2>4. /\ i = First({j \in s : cursor % T < WeightUpTo(req, j)})
        /\ cursor' = cursor + 1
    BY <1>0, <2>1 DEF Weighted
  <2> QED BY <2>3, <2>4
<1>5. \A j \in s : Owns(s, j, cursor % T) <=> j = i
  <2> DEFINE r == cursor % T
  <2>1. r \in Nat /\ r < T
    BY <1>1, <1>3
  <2>2. i = First({j \in s : r < Ends(s, j)}) /\ s # {}
    BY <1>1, <1>4
  <2>3. n \in Nat /\ s \in SUBSET (1 .. n) /\ Weighed(s)
    BY <1>1
  <2> HIDE DEF r, n
  <2>4. \A j \in s : Owns(s, j, r) <=> j = i
    BY <2>1, <2>2, <2>3, OneOwner
  <2> QED BY <2>4 DEF r
<1>6. tally' = IF \A a \in among : picks[a.id] = a.weight THEN NoTally ELSE [among |-> among, picks |-> picks]
  BY <1>0 DEF Count, Share
<1>7. /\ before \in [Accounts -> Nat]
      /\ \E c \in Nat : RoundFrom(c, s, before)
  <2>1. CASE tally.among = among
    <3>1. among # {} /\ before = tally.picks
      BY <1>1, <2>1
    <3> HIDE DEF among, before
    <3> QED BY <1>2, <2>1, <3>1 DEF RoundInv, TypeOK
  <2>2. CASE tally.among # among
    <3>1. before = [a \in Accounts |-> 0]
      BY <2>2 DEF NoTally
    <3>2. \A j : Taken(s, j, cursor, cursor) = {}
      BY <1>1 DEF Taken
    <3>3. \A j : Cardinality(Taken(s, j, cursor, cursor)) = 0
      BY <3>2, FS_EmptySet
    <3>4. \A j \in s : before[pool[j].id] = 0
      BY <1>1, <3>1
    <3> HIDE DEF before
    <3>5. RoundFrom(cursor, s, before)
      BY <1>1, <1>3, <3>3, <3>4 DEF RoundFrom
    <3> QED BY <1>1, <3>1, <3>5
  <2> QED BY <2>1, <2>2
<1> HIDE DEF before
<1>8. PICK c \in Nat : RoundFrom(c, s, before)
  BY <1>7
<1>9. /\ picks \in [Accounts -> Nat]
      /\ \A j \in s : picks[pool[j].id] = before[pool[j].id] + (IF j = i THEN 1 ELSE 0)
  BY <1>1, <1>7
<1> HIDE DEF picks
<1>10. \A j \in s : picks[pool[j].id] = Cardinality(Taken(s, j, c, cursor + 1))
  <2> SUFFICES ASSUME NEW j \in s PROVE picks[pool[j].id] = Cardinality(Taken(s, j, c, cursor + 1))
    OBVIOUS
  <2>1. c <= cursor /\ before[pool[j].id] = Cardinality(Taken(s, j, c, cursor))
    BY <1>8 DEF RoundFrom
  <2>2. Cardinality(Taken(s, j, c, cursor + 1)) =
            Cardinality(Taken(s, j, c, cursor)) + (IF Owns(s, j, cursor % T) THEN 1 ELSE 0)
    BY <1>1, <2>1, TurnTaken
  <2> QED BY <1>5, <1>9, <2>1, <2>2
<1>11. CASE \A a \in among : picks[a.id] = a.weight
  BY <1>6, <1>11, NoTallyInRound
<1>12. CASE ~\A a \in among : picks[a.id] = a.weight
  <2>1. PICK j \in s : picks[pool[j].id] # pool[j].weight
    BY <1>12
  <2>2. c <= cursor /\ cursor + 1 <= c + T
    BY <1>1, <1>3, <1>8 DEF RoundFrom
  <2>3. cursor + 1 # c + T
    <3>1. cursor + 1 \in Nat /\ c <= cursor + 1
      BY <1>1, <2>2
    <3>2. cursor + 1 = c + T => Cardinality(Taken(s, j, c, cursor + 1)) = pool[j].weight
      BY <1>1, <2>1, <2>2, <3>1, RoundIsFair
    <3> QED BY <1>10, <2>1, <3>2
  <2>4. tally'.among = among /\ tally'.picks = picks
    BY <1>6, <1>12
  <2>5. c <= cursor + 1 /\ cursor + 1 < c + T
    BY <1>1, <1>3, <2>2, <2>3
  <2>6. Among(tally.among)' = s
    BY <1>2, <2>4 DEF Among
  <2>7. /\ Weighed(Among(tally.among))'
        /\ Turns(Among(tally.among))' = Turns(s)
        /\ \A k : Taken(Among(tally.among), k, c, cursor)' = Taken(s, k, c, cursor + 1)
    BY <1>1, <1>4, <2>6 DEF Weighed, Turns, Taken, Owns, Begins, Ends
  <2>8. RoundFrom(c, Among(tally.among), tally.picks)'
    <3> DEFINE mine == tally'.picks
    <3>1. \A k \in s : mine[pool'[k].id] = Cardinality(Taken(s, k, c, cursor + 1))
      BY <1>10, <2>4
    <3>2. c <= cursor' /\ cursor' < c + Cardinality(Turns(Among(tally.among))')
      BY <1>4, <2>5, <2>7
    <3>3. \A k \in Among(tally.among)' : mine[pool'[k].id] = Cardinality(Taken(Among(tally.among), k, c, cursor)')
      BY <2>6, <2>7, <3>1
    <3> QED BY <3>2, <3>3 DEF RoundFrom
  <2>9. (tally.among \subseteq {pool[k] : k \in DOMAIN pool})'
    BY <1>1, <2>4
  <2> QED BY <2>6, <2>7, <2>8, <2>9 DEF RoundInv
<1> QED BY <1>11, <1>12

LEMMA RoundIsShared ==
    ASSUME TypeOK, Strategy = "weighted-round-robin", RoundInv
    PROVE  FairShare
<1> SUFFICES ASSUME NEW a \in tally.among PROVE tally.picks[a.id] <= a.weight
  BY DEF FairShare, Share
<1> DEFINE s == Among(tally.among)
<1>1. PICK c \in Nat : RoundFrom(c, s, tally.picks)
  BY DEF RoundInv
<1>2. PICK j \in DOMAIN pool : pool[j] = a
  BY DEF RoundInv
<1>3. j \in s /\ Weighed(s) /\ s \in SUBSET Nat /\ cursor \in Nat
  BY <1>2, PoolRows DEF RoundInv, Among, TypeOK
<1>4. c <= cursor /\ cursor < c + Cardinality(Turns(s)) /\ tally.picks[a.id] = Cardinality(Taken(s, j, c, cursor))
  BY <1>1, <1>2, <1>3 DEF RoundFrom
<1>5. cursor <= c + Cardinality(Turns(s))
  BY <1>3, <1>4, TurnsFinite
<1>6. Cardinality(Taken(s, j, c, cursor)) <= pool[j].weight
  <2> HIDE DEF s
  <2> QED BY <1>3, <1>4, <1>5, RoundIsFair
<1> QED BY <1>2, <1>4, <1>6

-----------------------------------------------------------------------------
(* Every strategy *)

ShareInv == IF Strategy = "weighted-round-robin" THEN RoundInv ELSE TurnInv

LEMMA ShareInvStep == ConductorInv /\ ShareInv /\ [Call]_vars => ShareInv'
<1> SUFFICES ASSUME ConductorInv, ShareInv, [Call]_vars
             PROVE  ShareInv'
  OBVIOUS
<1>1. CASE UNCHANGED <<pool, cursor, tally>>
  <2>1. RoundInv => RoundInv'
    <3>1. PICK s : s = Among(tally.among)
      OBVIOUS
    <3>2. s = Among(tally.among)' /\ pool' = pool /\ cursor' = cursor /\ tally' = tally
      BY <1>1, <3>1 DEF Among
    <3>3. /\ Weighed(Among(tally.among))' <=> Weighed(s)
          /\ \A c : RoundFrom(c, Among(tally.among), tally.picks)' <=> RoundFrom(c, s, tally.picks)
      BY <3>2 DEF RoundFrom, Weighed, Turns, Taken, Owns, Begins, Ends
    <3> QED BY <3>1, <3>2, <3>3 DEF RoundInv
  <2>2. TurnInv => TurnInv'
    BY <1>1 DEF TurnInv, InTurn, Ahead
  <2> QED BY <2>1, <2>2 DEF ShareInv
<1>2. ASSUME tally' = NoTally PROVE ShareInv'
  BY <1>2, NoTallyInTurn, NoTallyInRound DEF ShareInv
<1>3. ASSUME NEW req \in SelectRequest, NEW result, Returns(req, result) PROVE ShareInv'
  <2>1. TypeOK /\ UNCHANGED pool
    BY <1>3 DEF ConductorInv, Returns
  <2>2. \/ UNCHANGED <<cursor, tally>>
        \/ Strategy = "round-robin" /\ \E i \in Eligible(req) : RoundRobin(req, i) /\ Count(req, i)
        \/ Strategy = "weighted-round-robin" /\ \E i \in Eligible(req) : Weighted(req, i) /\ Count(req, i)
    BY <1>3 DEF Returns, Refuse, Stick, Rotate
  <2>3. CASE Strategy = "round-robin" /\ \E i \in Eligible(req) : RoundRobin(req, i) /\ Count(req, i)
    BY <2>1, <2>3, RoundRobinTurn DEF ShareInv
  <2>4. CASE Strategy = "weighted-round-robin" /\ \E i \in Eligible(req) : Weighted(req, i) /\ Count(req, i)
    BY <2>1, <2>4, WeightedTurn DEF ShareInv
  <2> QED BY <1>1, <2>1, <2>2, <2>3, <2>4
<1>4. ASSUME NEW accounts, ReplaceAccounts(accounts) PROVE ShareInv'
  BY <1>2, <1>4 DEF ReplaceAccounts
<1>5. ASSUME \/ \E req : HasEligible(req)
             \/ \E session, account : ReportSuccess(session, account)
             \/ \E session, account, class : ReportFailure(session, account, class)
             \/ \E ids : ResetCooldown(ids)
             \/ Tick \/ UNCHANGED vars
      PROVE  UNCHANGED <<pool, cursor, tally>>
  BY <1>5 DEF HasEligible, ReportSuccess, ReportFailure, ResetCooldown, Tick, vars
<1> QED BY <1>1, <1>3, <1>4, <1>5 DEF Call

LEMMA ShareInvInit == Init => ShareInv
  BY DEF Init, ShareInv, RoundInv, TurnInv, InTurn, NoTally

LEMMA SharesAreFair == TypeOK /\ ShareInv => FairShare
<1>1. CASE Strategy = "weighted-round-robin"
  BY <1>1, RoundIsShared DEF ShareInv
<1>2. CASE Strategy # "weighted-round-robin"
  BY <1>2 DEF ShareInv, TurnInv, FairShare, Share
<1> QED BY <1>1, <1>2

(* While the same accounts are eligible the strategy takes none of them     *)
(* more often than its share before each had its own, with weights and      *)
(* without: whatever the cursor and the pool were when the round began, and *)
(* whatever else the requests and reports do.                               *)
THEOREM TurnsAreShared == Spec => []FairShare
<1>1. ConductorInv /\ ShareInv /\ [Next]_vars => ShareInv'
  BY ShareInvStep, NextIsCall
<1>2. ConductorInv /\ ShareInv => FairShare
  BY SharesAreFair DEF ConductorInv
<1> QED BY <1>1, <1>2, ShareInvInit, ConductorInvariant, PTL DEF Spec
=============================================================================

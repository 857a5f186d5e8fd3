---------------------------- MODULE Reputation ----------------------------
(***************************************************************************)
(* The reputation manager of safe mode (src/src/mempool/                   *)
(* reputationManager.ts).  A record [entries, count] holds, per entity,    *)
(* how many of its ops were seen and included, and how many it has in the  *)
(* mempool.  Every operator is one method: the record before, the record   *)
(* after.  An op names its entities in the fields "sender", "paymaster"    *)
(* and "factory"; the white list and the black list are always empty.      *)
(***************************************************************************)
EXTENDS UserOps, Integers, FiniteSets

CONSTANTS
  Staked,                     \* entities with enough stake and unstake delay
  NoEntity,                   \* an op without a paymaster or a factory
  MinInclusionDenominator,
  ThrottlingSlack,
  BanSlack,
  ThrottledEntityMinMempoolCount,
  MaxMempoolUserOpsPerSender,
  MaxMempoolUserOpsPerNewUnstakedEntity,
  InclusionRateFactor,
  MaxIncludedBonus            \* 10000

ASSUME ReputationAssumption ==
  /\ MinInclusionDenominator \in Nat \ {0}
  /\ ThrottlingSlack \in Nat /\ BanSlack \in Nat /\ ThrottlingSlack <= BanSlack
  /\ ThrottledEntityMinMempoolCount \in Nat
  /\ MaxMempoolUserOpsPerSender \in Nat
  /\ MaxMempoolUserOpsPerNewUnstakedEntity \in Nat
  /\ InclusionRateFactor \in Nat /\ MaxIncludedBonus \in Nat

AllRoles == {"sender", "paymaster", "factory"}

NewEntry == [seen |-> 0, included |-> 0]

EntitiesIn(o, roles) == { UserOp[o][r] : r \in roles } \ {NoEntity}

\* In how many of the roles an entity serves the op.
TimesIn(o, roles, e) == Cardinality({ r \in roles : UserOp[o][r] = e })

\* BigInt division truncates towards zero.
TruncDiv(a, b) ==
  LET abs(x) == IF x < 0 THEN 0 - x ELSE x
      q == abs(a) \div abs(b)
  IN IF (a < 0) = (b < 0) THEN q ELSE 0 - q

-----------------------------------------------------------------------------
(* Seen and included.  An entity gets an entry when it is first seen or    *)
(* included; lowering an entity without one changes nothing.               *)

IncreaseSeen(r, o, roles) ==
  [r EXCEPT !.entries =
     [e \in DOMAIN @ \cup EntitiesIn(o, roles) |->
        LET old == IF e \in DOMAIN @ THEN @[e] ELSE NewEntry
        IN [old EXCEPT !.seen = @ + TimesIn(o, roles, e)]]]

DecreaseSeen(r, o, roles) ==
  [r EXCEPT !.entries =
     [e \in DOMAIN @ |-> [@[e] EXCEPT !.seen = @ - TimesIn(o, roles, e)]]]

RolesSeen(o) == {"paymaster", "factory"} \cup
                { r \in {"sender"} : UserOp[o].sender \in Staked }

IncreaseUserOpSeenStatus(r, o) == IncreaseSeen(r, o, RolesSeen(o))

\* replaceUserOpSeenStatus
ReplaceUserOpSeenStatus(r, o) == DecreaseSeen(r, o, RolesSeen(o))

\* After a failed second validation; an AA3x error of an unstaked sender is
\* held against the paymaster.
DecreaseUserOpSeenStatus(r, o, isAA3) ==
  DecreaseSeen(r, o, {"factory"}
    \cup { x \in {"sender"} : UserOp[o].sender \notin Staked }
    \cup { x \in {"paymaster"} : UserOp[o].sender \in Staked \/ ~isAA3 })

UpdateUserOpIncludedStatus(r, o, accountDeployed) ==
  LET roles == {"sender", "paymaster"} \cup { x \in {"factory"} : accountDeployed }
  IN [r EXCEPT !.entries =
        [e \in DOMAIN @ \cup EntitiesIn(o, roles) |->
           LET old == IF e \in DOMAIN @ THEN @[e] ELSE NewEntry
           IN [old EXCEPT !.included = @ + TimesIn(o, roles, e)]]]

-----------------------------------------------------------------------------
(* The count of an entity's ops in the mempool.                            *)

IncreaseUserOpCount(r, o) ==
  [r EXCEPT !.count = [e \in DOMAIN @ |-> @[e] + TimesIn(o, AllRoles, e)]]

DecreaseUserOpCount(r, o) ==
  [r EXCEPT !.count =
     [e \in DOMAIN @ |-> LET n == @[e] - TimesIn(o, AllRoles, e)
                         IN IF n < 0 THEN 0 ELSE n]]

-----------------------------------------------------------------------------
(* Verdicts.                                                               *)

GetStatus(r, e) ==
  IF e = NoEntity \/ e \notin DOMAIN r.entries
    THEN "ok"
    ELSE LET expected == TruncDiv(r.entries[e].seen, MinInclusionDenominator)
             included == r.entries[e].included
         IN CASE expected <= included + ThrottlingSlack -> "ok"
              [] expected > included + ThrottlingSlack
                 /\ expected <= included + BanSlack -> "throttled"
              [] OTHER -> "banned"

CalculateMaxMempoolUserOpsPerEntity(r, e) ==
  IF e \notin DOMAIN r.entries
    THEN MaxMempoolUserOpsPerNewUnstakedEntity
    ELSE LET x == r.entries[e]
             rate == IF x.seen = 0 THEN 0 ELSE TruncDiv(x.included, x.seen)
         IN MaxMempoolUserOpsPerNewUnstakedEntity + rate * InclusionRateFactor
            + (IF x.included > MaxIncludedBonus THEN MaxIncludedBonus ELSE x.included)

\* checkReputationStatus: checkBanned, checkThrottled past a count, checkStake
\* past the maximum.
PassesReputation(r, e, max) ==
  /\ GetStatus(r, e) # "banned"
  /\ r.count[e] > ThrottledEntityMinMempoolCount => GetStatus(r, e) # "throttled"
  /\ r.count[e] > max => e \in Staked

\* checkReputation of a record whose counts already include the op.
CheckReputation(r, o) ==
  /\ PassesReputation(r, UserOp[o].sender, MaxMempoolUserOpsPerSender)
  /\ \A e \in EntitiesIn(o, {"paymaster", "factory"}) :
       PassesReputation(r, e, CalculateMaxMempoolUserOpsPerEntity(r, e))
=============================================================================

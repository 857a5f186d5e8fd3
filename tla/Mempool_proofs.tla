--------------------------- MODULE Mempool_proofs ---------------------------
(***************************************************************************)
(* Proofs about the mempool for any ops, clients, caps, deposits and       *)
(* number of passes and bundles:                                           *)
(*   - the ops of one sender and key never sit in two bundles of one pass, *)
(*     and an op in a store of picked ops is in a bundle (SlotInv and the  *)
(*     two Owned invariants: the pass remembers the slots it has handed    *)
(*     over, and the stores are told apart);                               *)
(*   - a pass neither loses nor multiplies ops, and what is reported as    *)
(*     pending is somewhere (HeldInv: the copies of an op are counted      *)
(*     place by place, and the op in hand, the carry and the calls say     *)
(*     which of them is whose);                                            *)
(*   - a bundle obeys the caps and never overdraws a paymaster (AllCapped, *)
(*     BudgetInv: what the pass remembers of a deposit is what the bundle  *)
(*     leaves of it).                                                      *)
(***************************************************************************)
EXTENDS Mempool, SlotQueue_proofs

\* What the argument needs of the types; ops themselves are of no account.
PassFields == {"pc", "hand", "fromCarry", "carry", "empty", "stop", "seen", "prior", "n",
               "bundle", "deposit", "staked", "senders", "known"}

PassTypes ==
  /\ PassFields \subseteq DOMAIN pass
  /\ pass.bundle \in Seq(OpsOf(pass.bundle))
  /\ passes \in Nat
  /\ \A b \in executing : /\ {"pass", "n", "ops", "stage"} \subseteq DOMAIN b
                          /\ b.pass \in Nat /\ b.pass <= passes

\* Between bundles, and when it throws, a pass has none in progress.
NoneBetween == pass.pc \in {"idle", "setup", "returning", "finish"} => pass.bundle = <<>>

\* An op that is judged is of no slot that an earlier bundle holds, ...
HandIsFree == pass.pc \in {"validate", "deposit", "sponsor"} => SlotOf(pass.hand) \notin pass.prior

\* ... nor is what is packed.
BundleIsFree == \A o \in OpsOf(pass.bundle) : SlotOf(o) \notin pass.prior

\* The pass remembers the slots of its bundles.
PriorHolds ==
  pass.pc # "idle" =>
    \A b \in executing : b.pass = passes => \A o \in OpsOf(b.ops) : SlotOf(o) \in pass.prior

\* The bundles of one pass have no slot in common.
SentApart ==
  \A b, d \in executing : b # d /\ b.pass = d.pass =>
    \A o \in OpsOf(b.ops), p \in OpsOf(d.ops) : SlotOf(o) # SlotOf(p)

SlotInv == NoneBetween /\ HandIsFree /\ BundleIsFree /\ PriorHolds /\ SentApart

InStage(o, stage) == \E b \in executing : b.stage = stage /\ o \in OpsOf(b.ops)

ProcessingOwned ==
  \A o \in processing : InStage(o, "processing") \/ o \in OpsOf(pass.bundle) \/ o \in stranded

SubmittedOwned == \A o \in submitted : InStage(o, "submitted")

IInv == PassTypes /\ SlotInv /\ ProcessingOwned /\ SubmittedOwned

-----------------------------------------------------------------------------

\* An appended op is one of the sequence's, and the others were.
LEMMA AppendAddsOne ==
  ASSUME NEW s, s \in Seq(OpsOf(s)), NEW o
  PROVE  /\ OpsOf(Append(s, o)) = OpsOf(s) \cup {o}
         /\ Append(s, o) \in Seq(OpsOf(Append(s, o)))
<1> DEFINE S == OpsOf(s) \cup {o}
           t == Append(s, o)
<1>1. s \in Seq(S) /\ o \in S
  <2>1. Len(s) \in Nat /\ s \in [1 .. Len(s) -> OpsOf(s)]
    OBVIOUS
  <2>2. s \in [1 .. Len(s) -> S]
    BY <2>1
  <2>3. QED
    BY <2>1, <2>2
<1>2. t \in Seq(S) /\ DOMAIN t = 1 .. (Len(s) + 1) /\ DOMAIN s = 1 .. Len(s) /\ Len(s) \in Nat
  BY <1>1
<1>3. t[Len(s) + 1] = o /\ \A i \in 1 .. Len(s) : t[i] = s[i]
  BY <1>1
<1> HIDE DEF t
<1>4. OpsOf(t) \subseteq S
  BY <1>2 DEF OpsOf
<1>5. S \subseteq OpsOf(t)
  <2>1. o \in OpsOf(t)
    BY <1>2, <1>3 DEF OpsOf
  <2>2. \A i \in DOMAIN s : i \in DOMAIN t /\ t[i] = s[i]
    BY <1>2, <1>3
  <2>3. OpsOf(s) \subseteq OpsOf(t)
    BY <2>2 DEF OpsOf
  <2>4. QED
    BY <2>1, <2>3
<1>6. OpsOf(t) = S
  BY <1>4, <1>5
<1>7. QED
  BY <1>2, <1>6 DEF t

\* An empty bundle has no ops.
LEMMA EmptyHasNone == OpsOf(<<>>) = {} /\ <<>> \in Seq(OpsOf(<<>>))
BY DEF OpsOf

\* It holds at first.
LEMMA InitIInv == Init => IInv
<1> SUFFICES ASSUME Init PROVE IInv
  OBVIOUS
<1>1. /\ pass.pc = "idle" /\ pass.bundle = <<>> /\ PassFields \subseteq DOMAIN pass
      /\ executing = {} /\ processing = {} /\ submitted = {} /\ passes = 0
  BY DEF Init, NoPass, PassFields
<1>2. QED
  BY <1>1, EmptyHasNone
     DEF IInv, PassTypes, SlotInv, NoneBetween, HandIsFree, BundleIsFree, PriorHolds, SentApart,
         ProcessingOwned, SubmittedOwned

\* A step of the pass with an op in hand, or between two.
LEMMA PassMoves ==
  ASSUME IInv, UNCHANGED <<executing, processing, submitted, stranded, passes>>,
         PassFields \subseteq DOMAIN pass', pass.pc # "idle", pass'.pc # "idle",
         pass'.bundle = pass.bundle, pass'.prior = pass.prior,
         HandIsFree', NoneBetween'
  PROVE  IInv'
<1>1. PassTypes'
  BY DEF IInv, PassTypes
<1>2. SlotInv'
  BY DEF IInv, SlotInv, BundleIsFree, PriorHolds, SentApart
<1>3. ProcessingOwned' /\ SubmittedOwned'
  BY DEF IInv, ProcessingOwned, SubmittedOwned, InStage
<1>4. QED
  BY <1>1, <1>2, <1>3 DEF IInv

\* The pass without a change, the stores with less.
LEMMA StoresShrink ==
  ASSUME IInv, UNCHANGED <<executing, pass, stranded, passes>>,
         processing' \subseteq processing, submitted' \subseteq submitted
  PROVE  IInv'
BY DEF IInv, PassTypes, SlotInv, NoneBetween, HandIsFree, BundleIsFree, PriorHolds, SentApart,
       ProcessingOwned, SubmittedOwned, InStage

\* The op is handed back, and the pass selects.
LEMMA HandBackKeeps ==
  ASSUME IInv, NEW q, HandBack(q), pass.pc \notin {"idle", "setup", "returning", "finish"},
         UNCHANGED <<executing, processing, submitted, stranded, passes>>
  PROVE  IInv'
<1>1. PassFields \subseteq DOMAIN pass
  BY DEF IInv, PassTypes
<1>2. /\ PassFields \subseteq DOMAIN pass' /\ pass'.pc = "select"
      /\ pass'.bundle = pass.bundle /\ pass'.prior = pass.prior
  BY <1>1 DEF HandBack, PassFields
<1>3. QED
  BY <1>2, PassMoves DEF HandIsFree, NoneBetween

\* What becomes of a selected op.
LEMMA JudgeKeeps ==
  ASSUME IInv, NEW o, NEW q, NEW p, Judge(o, q, p),
         PassFields \subseteq DOMAIN p, p.pc = "select", pass.pc = "select",
         p.bundle = pass.bundle, p.prior = pass.prior,
         UNCHANGED <<executing, processing, submitted, stranded, passes>>
  PROVE  IInv'
<1>1. /\ PassFields \subseteq DOMAIN pass'
      /\ pass'.bundle = pass.bundle /\ pass'.prior = pass.prior
      /\ \/ pass'.pc \in {"bundled", "select"}
         \/ pass'.pc = "validate" /\ pass'.hand = o /\ SlotOf(o) \notin p.prior
  BY DEF Judge, PassFields
<1>2. HandIsFree' /\ NoneBetween'
  BY <1>1 DEF HandIsFree, NoneBetween
<1>3. QED
  BY <1>1, <1>2, PassMoves

-----------------------------------------------------------------------------
(* The steps of the pass.                                                  *)

\* No step of the pass loses it.
LEMMA PassKeeps == ASSUME IInv, PassStep PROVE IInv'
<1>a. /\ PassFields \subseteq DOMAIN pass /\ passes \in Nat /\ SlotInv
      /\ pass.bundle \in Seq(OpsOf(pass.bundle))
  BY DEF IInv, PassTypes
<1>1. CASE StartPass
  <2>1. /\ PassFields \subseteq DOMAIN pass' /\ pass'.pc = "setup" /\ pass'.bundle = <<>>
        /\ passes' = passes + 1 /\ pass.bundle = <<>>
        /\ UNCHANGED <<executing, processing, submitted, stranded>>
    BY <1>1, <1>a DEF StartPass, NoPass, PassFields, stores, history, SlotInv, NoneBetween
  <2>2. \A b \in executing : b.pass \in Nat /\ b.pass < passes'
    BY <2>1 DEF IInv, PassTypes
  <2>3. PassTypes'
    BY <2>1, <2>2, EmptyHasNone DEF IInv, PassTypes
  <2>4. SlotInv'
    BY <1>a, <2>1, <2>2, EmptyHasNone
       DEF SlotInv, NoneBetween, HandIsFree, BundleIsFree, PriorHolds, SentApart
  <2>5. ProcessingOwned' /\ SubmittedOwned'
    BY <2>1 DEF IInv, ProcessingOwned, SubmittedOwned, InStage
  <2>6. QED
    BY <2>3, <2>4, <2>5 DEF IInv
<1>2. CASE SetupBundle
  <2>1. /\ PassFields \subseteq DOMAIN pass' /\ pass'.pc = "select" /\ pass.pc = "setup"
        /\ pass'.bundle = <<>> /\ pass'.prior = pass.prior /\ pass.bundle = <<>>
        /\ UNCHANGED <<executing, processing, submitted, stranded, passes>>
    BY <1>2, <1>a DEF SetupBundle, PassFields, stores, history, counters, SlotInv, NoneBetween
  <2>2. QED
    BY <2>1, PassMoves DEF HandIsFree, NoneBetween
<1>3. CASE Finish
  <2>1. /\ PassFields \subseteq DOMAIN pass' /\ pass'.pc = "idle" /\ pass'.bundle = <<>>
        /\ pass.bundle = <<>>
        /\ UNCHANGED <<executing, processing, submitted, stranded, passes>>
    BY <1>3, <1>a DEF Finish, NoPass, PassFields, history, counters, SlotInv, NoneBetween
  <2>2. PassTypes'
    BY <2>1 DEF IInv, PassTypes
  <2>3. SlotInv'
    BY <1>a, <2>1, EmptyHasNone
       DEF SlotInv, NoneBetween, HandIsFree, BundleIsFree, PriorHolds, SentApart
  <2>4. ProcessingOwned' /\ SubmittedOwned'
    BY <2>1 DEF IInv, ProcessingOwned, SubmittedOwned, InStage
  <2>5. QED
    BY <2>2, <2>3, <2>4 DEF IInv
<1>4. CASE SelectNothing
  <2>1. /\ PassFields \subseteq DOMAIN pass' /\ pass'.pc = "bundled" /\ pass.pc = "select"
        /\ pass'.bundle = pass.bundle /\ pass'.prior = pass.prior
        /\ UNCHANGED <<executing, processing, submitted, stranded, passes>>
    BY <1>4, <1>a DEF SelectNothing, PassFields, stores, history, counters
  <2>2. QED
    BY <2>1, PassMoves DEF HandIsFree, NoneBetween
<1>5. CASE SelectCarried
  <2> DEFINE p == [pass EXCEPT !.fromCarry = TRUE]
  <2>1. /\ PassFields \subseteq DOMAIN p /\ p.pc = pass.pc
        /\ p.bundle = pass.bundle /\ p.prior = pass.prior
    BY <1>a DEF PassFields
  <2>2. /\ Judge(pass.carry, outstanding, p) /\ pass.pc = "select"
        /\ UNCHANGED <<executing, processing, submitted, stranded, passes>>
    BY <1>5 DEF SelectCarried, counters
  <2>3. QED
    BY <2>1, <2>2, JudgeKeeps
<1>6. CASE SelectPopped
  <2> DEFINE o == Head(outstanding.priorityQueue)
             q == Popped(outstanding)
             p == [pass EXCEPT !.seen = @ \cup {o}, !.fromCarry = FALSE]
  <2>1. pass.pc = "select" /\ UNCHANGED <<executing, processing, submitted, stranded, passes>>
    BY <1>6 DEF SelectPopped, counters
  <2>2. CASE pass' = [pass EXCEPT !.stop = TRUE, !.pc = "bundled"]
    <3>1. /\ PassFields \subseteq DOMAIN pass' /\ pass'.pc = "bundled"
          /\ pass'.bundle = pass.bundle /\ pass'.prior = pass.prior
      BY <1>a, <2>2 DEF PassFields
    <3>2. QED
      BY <2>1, <3>1, PassMoves DEF HandIsFree, NoneBetween
  <2>3. CASE Judge(o, q, p)
    <3>1. /\ PassFields \subseteq DOMAIN p /\ p.pc = pass.pc
          /\ p.bundle = pass.bundle /\ p.prior = pass.prior
      BY <1>a DEF PassFields
    <3> HIDE DEF o, q, p
    <3>2. QED
      BY <2>1, <2>3, <3>1, JudgeKeeps
  <2>4. QED
    BY <1>6, <2>2, <2>3 DEF SelectPopped
<1>7. CASE ValidationFails
  BY <1>7, HandBackKeeps DEF ValidationFails, Fault, counters, history
<1>8. CASE Validated
  <2>1. pass.pc = "validate" /\ UNCHANGED <<executing, processing, submitted, stranded, passes>>
    BY <1>8 DEF Validated, counters, history
  <2>2. CASE HandBack(outstanding)
    BY <2>1, <2>2, HandBackKeeps
  <2>3. CASE \E pc \in {"sponsor", "deposit"} : pass' = [pass EXCEPT !.pc = pc]
    <3>1. /\ PassFields \subseteq DOMAIN pass' /\ pass'.pc \in {"sponsor", "deposit"}
          /\ pass'.bundle = pass.bundle /\ pass'.prior = pass.prior /\ pass'.hand = pass.hand
      BY <1>a, <2>3 DEF PassFields
    <3>2. HandIsFree' /\ NoneBetween'
      BY <1>a, <2>1, <3>1 DEF SlotInv, HandIsFree, NoneBetween
    <3>3. QED
      BY <2>1, <3>1, <3>2, PassMoves
  <2>4. QED
    BY <1>8, <2>2, <2>3 DEF Validated
<1>9. CASE ReadDeposit
  <2>1. pass.pc = "deposit" /\ UNCHANGED <<executing, processing, submitted, stranded, passes>>
    BY <1>9 DEF ReadDeposit, stores, counters, history
  <2>2. /\ PassFields \subseteq DOMAIN pass' /\ pass'.pc = "sponsor"
        /\ pass'.bundle = pass.bundle /\ pass'.prior = pass.prior /\ pass'.hand = pass.hand
    BY <1>9, <1>a DEF ReadDeposit, PassFields
  <2>3. HandIsFree' /\ NoneBetween'
    BY <1>a, <2>1, <2>2 DEF SlotInv, HandIsFree, NoneBetween
  <2>4. QED
    BY <2>1, <2>2, <2>3, PassMoves
<1>10. CASE DepositReadFails
  <2>1. /\ PassFields \subseteq DOMAIN pass' /\ pass'.pc = "finish" /\ pass'.bundle = <<>>
        /\ pass'.prior = pass.prior /\ pass.pc = "deposit"
        /\ stranded' = stranded \cup OpsOf(pass.bundle)
        /\ UNCHANGED <<executing, processing, submitted, passes>>
    BY <1>10, <1>a DEF DepositReadFails, Fault, PassFields, stores
  <2>2. PassTypes'
    BY <2>1, EmptyHasNone DEF IInv, PassTypes
  <2>3. SlotInv'
    BY <1>a, <2>1, EmptyHasNone
       DEF SlotInv, NoneBetween, HandIsFree, BundleIsFree, PriorHolds, SentApart
  <2>4. ProcessingOwned' /\ SubmittedOwned'
    BY <2>1 DEF IInv, ProcessingOwned, SubmittedOwned, InStage
  <2>5. QED
    BY <2>2, <2>3, <2>4 DEF IInv
<1>11. CASE SkipUnsponsored
  BY <1>11, HandBackKeeps DEF SkipUnsponsored, counters, history
<1>b. ASSUME NEW o PROVE LET p == Sponsored(pass, o)
                         IN  /\ PassFields \subseteq DOMAIN p
                             /\ p.bundle = pass.bundle /\ p.prior = pass.prior
  BY <1>a DEF Sponsored, PassFields
<1>12. CASE Defer
  <2> DEFINE p == Sponsored(pass, pass.hand)
  <2>1. /\ pass' = [p EXCEPT !.carry = pass.hand, !.hand = NoOp, !.pc = "bundled"]
        /\ pass.pc = "sponsor"
        /\ UNCHANGED <<executing, processing, submitted, stranded, passes>>
    BY <1>12 DEF Defer, stores, counters, history
  <2>2. PassFields \subseteq DOMAIN p /\ p.bundle = pass.bundle /\ p.prior = pass.prior
    BY <1>b
  <2> HIDE DEF p
  <2>3. /\ PassFields \subseteq DOMAIN pass' /\ pass'.pc = "bundled"
        /\ pass'.bundle = pass.bundle /\ pass'.prior = pass.prior
    BY <2>1, <2>2 DEF PassFields
  <2>4. QED
    BY <2>1, <2>3, PassMoves DEF HandIsFree, NoneBetween
<1>13. CASE Accept
  <2> DEFINE p == Sponsored(pass, pass.hand)
  <2>1. /\ pass' = [p EXCEPT !.carry = NoOp, !.hand = NoOp, !.pc = "select",
                             !.bundle = Append(@, pass.hand)]
        /\ pass.pc = "sponsor" /\ processing' = processing \cup {pass.hand}
        /\ UNCHANGED <<executing, submitted, stranded, passes>>
    BY <1>13 DEF Accept, counters, history
  <2>2. PassFields \subseteq DOMAIN p /\ p.bundle = pass.bundle /\ p.prior = pass.prior
    BY <1>b
  <2> HIDE DEF p
  <2>3. /\ PassFields \subseteq DOMAIN pass' /\ pass'.pc = "select"
        /\ pass'.bundle = Append(pass.bundle, pass.hand) /\ pass'.prior = pass.prior
    BY <2>1, <2>2 DEF PassFields
  <2>4. /\ OpsOf(pass'.bundle) = OpsOf(pass.bundle) \cup {pass.hand}
        /\ pass'.bundle \in Seq(OpsOf(pass'.bundle))
    BY <1>a, <2>3, AppendAddsOne
  <2>5. PassTypes'
    BY <2>1, <2>3, <2>4 DEF IInv, PassTypes
  <2>6. SlotInv'
    BY <1>a, <2>1, <2>3, <2>4
       DEF SlotInv, NoneBetween, HandIsFree, BundleIsFree, PriorHolds, SentApart
  <2>7. ProcessingOwned' /\ SubmittedOwned'
    BY <2>1, <2>4 DEF IInv, ProcessingOwned, SubmittedOwned, InStage
  <2>8. QED
    BY <2>5, <2>6, <2>7 DEF IInv
<1>c. /\ PassFields \subseteq DOMAIN NextBundle(pass)
      /\ NextBundle(pass).bundle = <<>> /\ NextBundle(pass).pc = "setup"
      /\ NextBundle(pass).prior = pass.prior \cup SlotsOf(pass.bundle)
  BY <1>a DEF NextBundle, PassFields
<1>14. CASE HandOver
  <2>1. /\ pass.pc = "bundled" /\ UNCHANGED <<processing, submitted, stranded, passes>>
    BY <1>14 DEF HandOver, stores, counters, history
  <2>2. CASE pass.bundle = <<>>
    <3>1. pass' = [pass EXCEPT !.pc = "setup"] /\ UNCHANGED executing
      BY <1>14, <2>2 DEF HandOver
    <3>2. /\ PassFields \subseteq DOMAIN pass' /\ pass'.pc = "setup"
          /\ pass'.bundle = pass.bundle /\ pass'.prior = pass.prior
      BY <1>a, <3>1 DEF PassFields
    <3>3. QED
      BY <2>1, <2>2, <3>1, <3>2, PassMoves DEF HandIsFree, NoneBetween
  <2>3. CASE pass.bundle # <<>>
    <3> DEFINE b == [pass |-> passes, n |-> pass.n, ops |-> pass.bundle, stage |-> "processing"]
    <3>1. executing' = executing \cup {b} /\ pass' = NextBundle(pass)
      BY <1>14, <2>3 DEF HandOver
    <3>2. /\ b.pass = passes /\ b.ops = pass.bundle /\ b.stage = "processing"
          /\ {"pass", "n", "ops", "stage"} \subseteq DOMAIN b
      OBVIOUS
    <3> HIDE DEF b
    <3>3. \A o \in OpsOf(pass.bundle) : SlotOf(o) \in pass'.prior
      BY <1>c, <3>1 DEF SlotsOf
    <3>4. PassTypes'
      <4>1. \A d \in executing' : /\ {"pass", "n", "ops", "stage"} \subseteq DOMAIN d
                                  /\ d.pass \in Nat /\ d.pass <= passes
        BY <1>a, <3>1, <3>2 DEF IInv, PassTypes
      <4>2. PassFields \subseteq DOMAIN pass' /\ pass'.bundle = <<>>
        BY <1>c, <3>1
      <4>3. QED
        BY <1>a, <2>1, <4>1, <4>2, EmptyHasNone DEF PassTypes
    <3>5. \A d \in executing : d.pass = passes =>
            \A o \in OpsOf(b.ops), p \in OpsOf(d.ops) : SlotOf(o) # SlotOf(p)
      BY <1>a, <2>1, <3>2 DEF SlotInv, BundleIsFree, PriorHolds
    <3>6. SentApart'
      BY <1>a, <3>1, <3>2, <3>5 DEF SlotInv, SentApart
    <3>7. PriorHolds'
      BY <1>a, <1>c, <2>1, <3>1, <3>2, <3>3 DEF SlotInv, PriorHolds
    <3>8. NoneBetween' /\ HandIsFree' /\ BundleIsFree'
      BY <1>c, <3>1, EmptyHasNone DEF NoneBetween, HandIsFree, BundleIsFree
    <3>9. ProcessingOwned' /\ SubmittedOwned'
      BY <2>1, <3>1, <3>2 DEF IInv, ProcessingOwned, SubmittedOwned, InStage
    <3>10. QED
      BY <3>4, <3>6, <3>7, <3>8, <3>9 DEF IInv, SlotInv
  <2>4. QED
    BY <2>2, <2>3
<1>15. CASE HandOverFails
  <2>1. /\ pass.pc = "bundled" /\ pass' = [NextBundle(pass) EXCEPT !.pc = "returning"]
        /\ processing' = processing \ OpsOf(pass.bundle)
        /\ submitted' \subseteq submitted
        /\ UNCHANGED <<executing, stranded, passes>>
    BY <1>15 DEF HandOverFails, Resubmit, Fault, history
  <2>2. /\ PassFields \subseteq DOMAIN pass' /\ pass'.bundle = <<>> /\ pass'.pc = "returning"
        /\ pass.prior \subseteq pass'.prior
    BY <1>c, <2>1 DEF PassFields
  <2>3. PassTypes'
    BY <2>1, <2>2, EmptyHasNone DEF IInv, PassTypes
  <2>4. SlotInv'
    BY <1>a, <2>1, <2>2, EmptyHasNone
       DEF SlotInv, NoneBetween, HandIsFree, BundleIsFree, PriorHolds, SentApart
  <2>5. ProcessingOwned' /\ SubmittedOwned'
    BY <2>1 DEF IInv, ProcessingOwned, SubmittedOwned, InStage
  <2>6. QED
    BY <2>3, <2>4, <2>5 DEF IInv
<1>16. CASE BundleReturned
  <2>1. /\ PassFields \subseteq DOMAIN pass' /\ pass'.pc = "finish" /\ pass.pc = "returning"
        /\ pass'.bundle = pass.bundle /\ pass'.prior = pass.prior
        /\ UNCHANGED <<executing, processing, submitted, stranded, passes>>
    BY <1>16, <1>a DEF BundleReturned, PassFields, stores, history, counters
  <2>2. QED
    BY <1>a, <2>1, PassMoves DEF HandIsFree, NoneBetween, SlotInv
<1>17. QED
  BY <1>1, <1>2, <1>3, <1>4, <1>5, <1>6, <1>7, <1>8, <1>9, <1>10, <1>11, <1>12, <1>13,
     <1>14, <1>15, <1>16 DEF PassStep

-----------------------------------------------------------------------------
(* The steps of requests and of bundles.                                   *)

\* A request leaves bundles and pass alone.
LEMMA CallKeeps ==
  ASSUME IInv, NEW c, CallStep(c) \/ \E o \in Ops : Receive(c, o)
  PROVE  IInv'
<1>1. /\ UNCHANGED <<executing, pass, stranded, passes>>
      /\ processing' \subseteq processing /\ submitted' \subseteq submitted
  <2>1. CASE Check(c)
    BY <2>1 DEF Check, Refuse, stores, counters
  <2>2. CASE Admit(c) \/ Replace(c) \/ \E o \in Ops : Receive(c, o)
    BY <2>2 DEF Admit, Replace, Receive, stores, counters, history
  <2>3. CASE Queue(c) \/ StakeReadFails(c)
    BY <2>3 DEF Queue, StakeReadFails, Fault, stores, counters
  <2>4. QED
    BY <2>1, <2>2, <2>3 DEF CallStep
<1>2. QED
  BY <1>1, StoresShrink

\* The executor marks a bundle as submitted, or takes it out with its records.
LEMMA BundleKeeps == ASSUME IInv, NEW b \in executing, BundleStep(b) PROVE IInv'
<1>a. PassTypes /\ SlotInv /\ ProcessingOwned /\ SubmittedOwned
  BY DEF IInv
<1>1. CASE MarkSubmitted(b)
  <2> DEFINE d == [b EXCEPT !.stage = "submitted"]
  <2>1. /\ b.stage = "processing" /\ executing' = (executing \ {b}) \cup {d}
        /\ processing' = processing \ OpsOf(b.ops) /\ submitted' = submitted \cup OpsOf(b.ops)
        /\ UNCHANGED <<pass, passes, stranded>>
    BY <1>1 DEF MarkSubmitted, counters, history
  <2>2. /\ d.pass = b.pass /\ d.ops = b.ops /\ d.stage = "submitted"
        /\ {"pass", "n", "ops", "stage"} \subseteq DOMAIN d
    BY <1>a DEF PassTypes
  <2> HIDE DEF d
  <2>3. PassTypes'
    BY <1>a, <2>1, <2>2 DEF PassTypes
  <2>4. SlotInv'
    BY <1>a, <2>1, <2>2
       DEF SlotInv, NoneBetween, HandIsFree, BundleIsFree, PriorHolds, SentApart
  <2>5. ProcessingOwned'
    BY <1>a, <2>1 DEF ProcessingOwned, InStage
  <2>6. SubmittedOwned'
    BY <1>a, <2>1, <2>2 DEF SubmittedOwned, InStage
  <2>7. QED
    BY <2>3, <2>4, <2>5, <2>6 DEF IInv
<1>2. CASE /\ executing' = executing \ {b} /\ UNCHANGED <<pass, passes, stranded>>
           /\ \/ processing' = processing \ OpsOf(b.ops)
              \/ b.stage = "submitted" /\ UNCHANGED processing
           /\ submitted' = submitted \ OpsOf(b.ops)
  <2>1. PassTypes'
    BY <1>a, <1>2 DEF PassTypes
  <2>2. SlotInv'
    BY <1>a, <1>2 DEF SlotInv, NoneBetween, HandIsFree, BundleIsFree, PriorHolds, SentApart
  <2>3. ProcessingOwned' /\ SubmittedOwned'
    BY <1>a, <1>2 DEF ProcessingOwned, SubmittedOwned, InStage
  <2>4. QED
    BY <2>1, <2>2, <2>3 DEF IInv
<1>3. CASE Requeue(b)
  BY <1>2, <1>3 DEF Requeue, Resubmit, Fault, history
<1>4. CASE Drop(b)
  BY <1>2, <1>4 DEF Drop, Fault, history
<1>5. CASE Settle(b)
  BY <1>2, <1>5 DEF Settle, counters, history
<1>6. QED
  BY <1>1, <1>3, <1>4, <1>5 DEF BundleStep

\* No step loses it.
LEMMA NextIInv == IInv /\ [Next]_vars => IInv'
<1> SUFFICES ASSUME IInv, [Next]_vars PROVE IInv'
  OBVIOUS
<1>1. CASE UNCHANGED vars
  BY <1>1, StoresShrink DEF vars, stores, counters, history
<1>2. QED
  BY <1>1, PassKeeps, CallKeeps, BundleKeeps DEF Next

\* It is an invariant.
LEMMA AlwaysIInv == Spec => []IInv
BY InitIInv, NextIInv, PTL DEF Spec

\* ADR 0005 for any ops and any number of bundles: those of one pass, with the one
\* in progress, have no slot in common.
THEOREM ChainsNeverSpan == Spec => []ChainsDoNotSpan
<1>1. IInv => ChainsDoNotSpan
  <2> SUFFICES ASSUME IInv PROVE ChainsDoNotSpan
    OBVIOUS
  <2>1. ASSUME NEW b \in executing, NEW d \in executing, b # d, b.pass = d.pass
        PROVE  SlotsOf(b.ops) \cap SlotsOf(d.ops) = {}
    BY <2>1 DEF IInv, SlotInv, SentApart, SlotsOf
  <2>2. ASSUME NEW b \in executing, b.pass = passes
        PROVE  SlotsOf(b.ops) \cap SlotsOf(pass.bundle) = {}
    <3>1. CASE pass.pc = "idle"
      BY <3>1, EmptyHasNone DEF IInv, SlotInv, NoneBetween, SlotsOf
    <3>2. CASE pass.pc # "idle"
      BY <2>2, <3>2 DEF IInv, SlotInv, PriorHolds, BundleIsFree, SlotsOf
    <3>3. QED
      BY <3>1, <3>2
  <2>3. QED
    BY <2>1, <2>2 DEF ChainsDoNotSpan
<1>2. QED
  BY <1>1, AlwaysIInv, PTL

\* No record outlives its bundle, whatever fails, is returned or is dropped.
THEOREM StoresAlwaysOwned == Spec => []StoresHaveOwners
<1>1. IInv => StoresHaveOwners
  <2> SUFFICES ASSUME IInv PROVE StoresHaveOwners
    OBVIOUS
  <2>1. pass.bundle \in Bundles /\ \A b \in executing : b.ops \in Bundles
    BY DEF Bundles
  <2>2. ASSUME NEW o \in processing
        PROVE  o \in stranded \/ \E ops \in Bundles : o \in OpsOf(ops)
    <3>1. CASE InStage(o, "processing")
      <4>1. PICK b \in executing : o \in OpsOf(b.ops)
        BY <3>1 DEF InStage
      <4>2. QED
        BY <2>1, <4>1
    <3>2. CASE o \in OpsOf(pass.bundle)
      BY <2>1, <3>2
    <3>3. CASE o \in stranded
      BY <3>3
    <3>4. QED
      BY <3>1, <3>2, <3>3 DEF IInv, ProcessingOwned
  <2>3. ASSUME NEW o \in submitted
        PROVE  \E b \in { d \in executing : d.stage = "submitted" } : o \in OpsOf(b.ops)
    BY DEF IInv, SubmittedOwned, InStage
  <2>4. processing \subseteq (UNION { OpsOf(ops) : ops \in Bundles }) \cup stranded
    BY <2>2
  <2>5. submitted \subseteq
          UNION { OpsOf(b.ops) : b \in { d \in executing : d.stage = "submitted" } }
    BY <2>3
  <2>6. QED
    BY <2>4, <2>5 DEF StoresHaveOwners
<1>2. QED
  BY <1>1, AlwaysIInv, PTL

-----------------------------------------------------------------------------
(* Counting the copies of an op.                                           *)

\* The positions of an op in a sequence.
Places(s, o) == { i \in DOMAIN s : s[i] = o }

\* How often an op is in a sequence is a number, positive if it is one of its ops.
LEMMA PlacesFinite ==
  ASSUME NEW S, NEW s \in Seq(S), NEW o
  PROVE  /\ IsFiniteSet(Places(s, o)) /\ TimesInSeq(s, o) = Cardinality(Places(s, o))
         /\ TimesInSeq(s, o) \in Nat
         /\ TimesInSeq(s, o) > 0 <=> o \in OpsOf(s)
<1>1. DOMAIN s = 1 .. Len(s) /\ Len(s) \in Nat
  BY LenProperties
<1>2. IsFiniteSet(Places(s, o))
  <2>1. Places(s, o) \subseteq 1 .. Len(s) /\ IsFiniteSet(1 .. Len(s))
    BY <1>1, FS_Interval DEF Places
  <2>2. QED
    BY <2>1, FS_Subset
<1>3. TimesInSeq(s, o) = Cardinality(Places(s, o))
  BY DEF TimesInSeq, Places
<1>4. Cardinality(Places(s, o)) \in Nat
  BY <1>2, FS_CardinalityType
<1>5. Cardinality(Places(s, o)) = 0 <=> Places(s, o) = {}
  BY <1>2, FS_EmptySet
<1>6. Places(s, o) # {} <=> o \in OpsOf(s)
  BY DEF Places, OpsOf
<1>7. QED
  BY <1>2, <1>3, <1>4, <1>5, <1>6

\* An empty sequence has no copy.
LEMMA TimesInNone == ASSUME NEW o PROVE TimesInSeq(<<>>, o) = 0
<1>1. { i \in DOMAIN <<>> : <<>>[i] = o } = {}
  OBVIOUS
<1>2. QED
  BY <1>1, FS_EmptySet DEF TimesInSeq

\* An appended op is there once more.
LEMMA TimesInAppend ==
  ASSUME NEW S, NEW s \in Seq(S), NEW x \in S, NEW o
  PROVE  TimesInSeq(Append(s, x), o) = TimesInSeq(s, o) + (IF x = o THEN 1 ELSE 0)
<1> DEFINE t == Append(s, x)
           n == Len(s) + 1
<1>1. /\ t \in Seq(S) /\ Len(t) = n /\ DOMAIN s = 1 .. Len(s) /\ DOMAIN t = 1 .. n
      /\ Len(s) \in Nat /\ t[n] = x /\ \A i \in 1 .. Len(s) : t[i] = s[i]
  BY AppendProperties, LenProperties
<1> HIDE DEF t
<1>2. CASE x = o
  <2>1. Places(t, o) = Places(s, o) \cup {n}
    BY <1>1, <1>2 DEF Places
  <2>2. n \notin Places(s, o)
    BY <1>1 DEF Places
  <2>3. Cardinality(Places(s, o) \cup {n}) = Cardinality(Places(s, o)) + 1
    BY <2>2, PlacesFinite, FS_AddElement
  <2>4. TimesInSeq(t, o) = Cardinality(Places(t, o)) /\ TimesInSeq(s, o) = Cardinality(Places(s, o))
    BY <1>1, PlacesFinite
  <2>5. QED
    BY <1>2, <2>1, <2>3, <2>4 DEF t
<1>3. CASE x # o
  <2>1. Places(t, o) = Places(s, o)
    BY <1>1, <1>3 DEF Places
  <2>2. /\ TimesInSeq(t, o) = Cardinality(Places(t, o))
        /\ TimesInSeq(s, o) = Cardinality(Places(s, o)) /\ TimesInSeq(s, o) \in Nat
    BY <1>1, PlacesFinite
  <2>3. QED
    BY <1>3, <2>1, <2>2 DEF t
<1>4. QED
  BY <1>2, <1>3

\* An op taken from the front is there once less.
LEMMA TimesInTail ==
  ASSUME NEW S, NEW s \in Seq(S), s # <<>>, NEW o
  PROVE  TimesInSeq(s, o) = TimesInSeq(Tail(s), o) + (IF Head(s) = o THEN 1 ELSE 0)
<1> DEFINE t == Tail(s)
           L == Len(s)
           Shifted == { i + 1 : i \in Places(t, o) }
<1>1. /\ t \in Seq(S) /\ Len(t) = L - 1 /\ DOMAIN s = 1 .. L /\ DOMAIN t = 1 .. L - 1
      /\ L \in Nat \ {0} /\ Head(s) = s[1] /\ \A i \in 1 .. L - 1 : t[i] = s[i + 1]
  <2>1. L \in Nat /\ L # 0
    BY LenProperties, EmptySeq
  <2>2. /\ t \in Seq(S) /\ Len(t) = L - 1 /\ Head(s) = s[1]
        /\ \A i \in 1 .. L - 1 : t[i] = s[i + 1]
    BY HeadTailProperties, <2>1
  <2>3. QED
    BY <2>1, <2>2, LenProperties
<1>2. /\ IsFiniteSet(Places(t, o)) /\ TimesInSeq(t, o) = Cardinality(Places(t, o))
      /\ TimesInSeq(s, o) = Cardinality(Places(s, o)) /\ TimesInSeq(t, o) \in Nat
  BY <1>1, PlacesFinite
<1> HIDE DEF t, L
<1>3. Places(t, o) \subseteq Nat
  BY <1>1 DEF Places
<1>4. Cardinality(Shifted) = Cardinality(Places(t, o)) /\ IsFiniteSet(Shifted)
  <2> DEFINE f == [i \in Places(t, o) |-> i + 1]
  <2>1. f \in Bijection(Places(t, o), Shifted)
    BY <1>3 DEF Bijection, Injection, Surjection, IsInjective
  <2>2. QED
    BY <1>2, <2>1, FS_Bijection DEF ExistsBijection
<1>5. CASE Head(s) = o
  <2>1. Places(s, o) = Shifted \cup {1}
    <3>1. ASSUME NEW i \in Places(s, o) PROVE i \in Shifted \cup {1}
      <4>1. CASE i = 1
        BY <4>1
      <4>2. CASE i # 1
        <5>1. i - 1 \in Places(t, o) /\ i = (i - 1) + 1
          BY <1>1, <3>1, <4>2 DEF Places
        <5>2. QED
          BY <5>1
      <4>3. QED
        BY <4>1, <4>2
    <3>2. ASSUME NEW i \in Shifted \cup {1} PROVE i \in Places(s, o)
      BY <1>1, <1>5, <3>2 DEF Places
    <3>3. QED
      BY <3>1, <3>2
  <2>2. 1 \notin Shifted
    BY <1>1 DEF Places
  <2> HIDE DEF Shifted
  <2>3. Cardinality(Places(s, o)) = Cardinality(Shifted) + 1
    BY <1>4, <2>1, <2>2, FS_AddElement
  <2>4. QED
    BY <1>2, <1>4, <1>5, <2>3 DEF t
<1>6. CASE Head(s) # o
  <2>1. Places(s, o) = Shifted
    <3>1. ASSUME NEW i \in Places(s, o) PROVE i \in Shifted
      <4>1. i - 1 \in Places(t, o) /\ i = (i - 1) + 1
        BY <1>1, <1>6, <3>1 DEF Places
      <4>2. QED
        BY <4>1
    <3>2. ASSUME NEW i \in Shifted PROVE i \in Places(s, o)
      BY <1>1, <3>2 DEF Places
    <3>3. QED
      BY <3>1, <3>2
  <2>2. QED
    BY <1>2, <1>4, <1>6, <2>1 DEF t
<1>7. QED
  BY <1>5, <1>6

\* What the executor has of an op.
InExecutor(E, o) == Total([b \in E |-> TimesInSeq(b.ops, o)])

\* It is a number, positive if a bundle has the op.
LEMMA ExecutorCounts ==
  ASSUME NEW E, IsFiniteSet(E), \A b \in E : b.ops \in Seq(Ops), NEW o
  PROVE  /\ InExecutor(E, o) \in Nat
         /\ InExecutor(E, o) > 0 <=> \E b \in E : o \in OpsOf(b.ops)
<1> DEFINE f == [b \in E |-> TimesInSeq(b.ops, o)]
<1>1. DOMAIN f = E /\ \A b \in E : f[b] = TimesInSeq(b.ops, o) /\ f[b] \in Nat
  BY PlacesFinite
<1>2. Total(f) = InExecutor(E, o)
  BY DEF InExecutor
<1> HIDE DEF f
<1>3. InExecutor(E, o) \in Nat
  BY <1>1, <1>2, TotalNatural
<1>4. ASSUME NEW b \in E, o \in OpsOf(b.ops) PROVE InExecutor(E, o) > 0
  <2> DEFINE g == [i \in DOMAIN f \ {b} |-> f[i]]
  <2>1. Total(f) = f[b] + Total(g)
    BY <1>1, TotalTake
  <2>2. DOMAIN g = E \ {b} /\ IsFiniteSet(E \ {b}) /\ \A i \in DOMAIN g : g[i] \in Nat
    BY <1>1, FS_Subset
  <2> HIDE DEF g
  <2>3. Total(g) \in Nat
    BY <2>2, TotalNatural
  <2>4. f[b] > 0
    BY <1>1, <1>4, PlacesFinite
  <2>5. QED
    BY <1>1, <1>2, <2>1, <2>3, <2>4
<1>5. ASSUME \A b \in E : o \notin OpsOf(b.ops) PROVE InExecutor(E, o) = 0
  <2>1. \A b \in E : f[b] = 0
    <3> SUFFICES ASSUME NEW b \in E PROVE f[b] = 0
      OBVIOUS
    <3>1. b.ops \in Seq(Ops) /\ o \notin OpsOf(b.ops)
      BY <1>5
    <3>2. TimesInSeq(b.ops, o) \in Nat /\ ~(TimesInSeq(b.ops, o) > 0)
      BY <3>1, PlacesFinite
    <3>3. QED
      BY <1>1, <3>2
  <2>2. QED
    BY <1>1, <1>2, <2>1, TotalOfZeros
<1>6. QED
  BY <1>3, <1>4, <1>5

\* A bundle more adds its ops, unless it is there already.
LEMMA ExecutorTakes ==
  ASSUME NEW E, IsFiniteSet(E), \A b \in E : b.ops \in Seq(Ops), NEW o,
         NEW d, d.ops \in Seq(Ops)
  PROVE  InExecutor(E \cup {d}, o) <= InExecutor(E, o) + TimesInSeq(d.ops, o)
<1>1. InExecutor(E, o) \in Nat /\ TimesInSeq(d.ops, o) \in Nat
  BY ExecutorCounts, PlacesFinite
<1>2. CASE d \in E
  <2>1. E \cup {d} = E
    BY <1>2
  <2>2. InExecutor(E \cup {d}, o) = InExecutor(E, o)
    BY ONLY <2>1
  <2>3. QED
    BY <1>1, <2>2
<1>3. CASE d \notin E
  <2> DEFINE f == [b \in E \cup {d} |-> TimesInSeq(b.ops, o)]
             g == [b \in E |-> TimesInSeq(b.ops, o)]
  <2>1. \A b \in E \cup {d} : b.ops \in Seq(Ops)
    OBVIOUS
  <2>2. /\ DOMAIN f = E \cup {d} /\ IsFiniteSet(DOMAIN f)
        /\ \A b \in DOMAIN f : f[b] \in Nat
        /\ f[d] = TimesInSeq(d.ops, o)
    BY <2>1, PlacesFinite, FS_AddElement
  <2>3. [i \in DOMAIN f \ {d} |-> f[i]] = g
    BY <1>3
  <2>4. Total(f) = InExecutor(E \cup {d}, o) /\ Total(g) = InExecutor(E, o)
    BY DEF InExecutor
  <2> HIDE DEF f, g
  <2>5. Total(f) = f[d] + Total(g)
    BY <2>2, <2>3, TotalTake
  <2>6. QED
    BY <1>1, <2>2, <2>4, <2>5
<1>4. QED
  BY <1>2, <1>3

-----------------------------------------------------------------------------
(* Where an op is.                                                         *)

InQueue(q, o) == TimesInSeq(q.pendingOps[SlotOf(o)], o)

InHands(p, o) == Cardinality({ x \in {p.hand, p.carry} : x = o })

InFlow(q, p, o) == InQueue(q, o) + InHands(p, o) + TimesInSeq(p.bundle, o)

InCall(c, o) == IF c[o].pc = "idle" THEN 0 ELSE 1

\* A pass holds an op while it judges it, be it popped or carried.
HandOK ==
  /\ PassFields \subseteq DOMAIN pass
  /\ pass.bundle \in Seq(Ops)
  /\ pass.carry \in Ops \cup {NoOp}
  /\ IF pass.pc \in {"validate", "deposit", "sponsor"}
       THEN pass.hand \in Ops /\ pass.carry \in {NoOp, pass.hand}
       ELSE pass.hand = NoOp
  /\ pass.pc = "idle" => pass.carry = NoOp

ExecutingOK ==
  /\ IsFiniteSet(executing)
  /\ \A b \in executing : b.ops \in Seq(Ops) /\ {"pass", "n", "ops", "stage"} \subseteq DOMAIN b

\* The call of an op adds that op, and is past its checks.
CallsOK ==
  /\ DOMAIN call = Clients \cup Ops
  /\ \A c \in Clients \cup Ops :
       /\ {"pc", "op", "queued", "displaced"} \subseteq DOMAIN call[c]
       /\ call[c].pc # "idle" => call[c].op \in Ops
       /\ call[c].pc = "replace" => call[c].displaced \in Ops
  /\ \A o \in Ops : call[o].pc # "received" /\ (call[o].pc # "idle" => call[o].op = o)

HeldTypes == QueueOK(outstanding) /\ HandOK /\ NoneBetween /\ ExecutingOK /\ CallsOK

Conserved(o) ==
  /\ Copies(o)' <= Copies(o)
  /\ Copies(o) > 0 => Copies(o)' > 0 \/ o \in forsaken'

\* Fees are numbers.
LEMMA NaturalFees == FeesAreNatural
BY OpsAssumption DEF FeesAreNatural

\* The absent op is no op, and clients are none.
LEMMA NoOpIsNone == NoOp \notin Ops /\ Clients \cap Ops = {}
BY MempoolAssumption

\* An op that is both in hand and carried is there once.
LEMMA InHandsIs ==
  ASSUME NEW p, NEW o
  PROVE  InHands(p, o) = IF o \in {p.hand, p.carry} THEN 1 ELSE 0
<1>1. CASE o \in {p.hand, p.carry}
  <2>1. { x \in {p.hand, p.carry} : x = o } = {o}
    BY <1>1
  <2>2. QED
    BY <1>1, <2>1, FS_Singleton DEF InHands
<1>2. CASE o \notin {p.hand, p.carry}
  <2>1. { x \in {p.hand, p.carry} : x = o } = {}
    BY <1>2
  <2>2. QED
    BY <1>2, <2>1, FS_EmptySet DEF InHands
<1>3. QED
  BY <1>1, <1>2

\* Every op has a backlog.
LEMMA BacklogOf ==
  ASSUME NEW q, QueueOK(q), NEW o \in Ops
  PROVE  /\ SlotOf(o) \in Slots /\ SlotOf(o) \in DOMAIN q.pendingOps
         /\ q.pendingOps[SlotOf(o)] \in Seq(Ops)
         /\ InQueue(q, o) \in Nat
         /\ InQueue(q, o) > 0 <=> Queued(q, o)
<1>1. SlotOf(o) \in Slots /\ q.pendingOps \in [Slots -> Seq(Ops)]
  BY SlotsOfOps DEF QueueOK, Backlogs
<1>2. q.pendingOps[SlotOf(o)] \in Seq(Ops) /\ SlotOf(o) \in DOMAIN q.pendingOps
  BY <1>1
<1>3. InQueue(q, o) \in Nat /\ (InQueue(q, o) > 0 <=> o \in OpsOf(q.pendingOps[SlotOf(o)]))
  BY <1>2, PlacesFinite DEF InQueue
<1>4. o \in OpsOf(q.pendingOps[SlotOf(o)]) <=> Queued(q, o)
  BY DEF OpsOf, Queued, Holds
<1>5. QED
  BY <1>1, <1>2, <1>3, <1>4

\* add leaves one copy more, ...
LEMMA InQueueAdded ==
  ASSUME NEW q, QueueOK(q), NEW x \in Ops
  PROVE  /\ QueueOK(Added(q, x))
         /\ \A o \in Ops : InQueue(Added(q, x), o) = InQueue(q, o) + (IF o = x THEN 1 ELSE 0)
<1> DEFINE r == Added(q, x)
<1>1. QueueOK(r) /\ r.pendingOps = [q.pendingOps EXCEPT ![SlotOf(x)] = Append(@, x)]
  BY AddedKeeps, NaturalFees
<1> HIDE DEF r
<1>2. ASSUME NEW o \in Ops PROVE InQueue(r, o) = InQueue(q, o) + (IF o = x THEN 1 ELSE 0)
  <2>1. /\ SlotOf(x) \in DOMAIN q.pendingOps /\ q.pendingOps[SlotOf(x)] \in Seq(Ops)
        /\ SlotOf(o) \in DOMAIN q.pendingOps
        /\ InQueue(q, o) \in Nat
    BY BacklogOf
  <2>2. CASE SlotOf(o) = SlotOf(x)
    <3>1. r.pendingOps[SlotOf(o)] = Append(q.pendingOps[SlotOf(o)], x)
      BY <1>1, <2>1, <2>2
    <3>2. QED
      BY <2>1, <2>2, <3>1, TimesInAppend DEF InQueue
  <2>3. CASE SlotOf(o) # SlotOf(x)
    <3>1. r.pendingOps[SlotOf(o)] = q.pendingOps[SlotOf(o)] /\ o # x
      BY <1>1, <2>1, <2>3
    <3>2. QED
      BY <2>1, <3>1 DEF InQueue
  <2>4. QED
    BY <2>2, <2>3
<1>3. QED
  BY <1>1, <1>2 DEF r

\* The head of a backlog leaves it.
LEMMA InQueueTaken ==
  ASSUME NEW q, QueueOK(q), NEW x \in Ops, q.pendingOps[SlotOf(x)] # <<>>,
         Head(q.pendingOps[SlotOf(x)]) = x,
         NEW r, QueueOK(r), r.pendingOps = [q.pendingOps EXCEPT ![SlotOf(x)] = Tail(@)]
  PROVE  \A o \in Ops : InQueue(q, o) = InQueue(r, o) + (IF o = x THEN 1 ELSE 0)
<1> SUFFICES ASSUME NEW o \in Ops
             PROVE  InQueue(q, o) = InQueue(r, o) + (IF o = x THEN 1 ELSE 0)
  OBVIOUS
<1>1. /\ SlotOf(x) \in DOMAIN q.pendingOps /\ q.pendingOps[SlotOf(x)] \in Seq(Ops)
      /\ SlotOf(o) \in DOMAIN q.pendingOps
      /\ InQueue(r, o) \in Nat
  BY BacklogOf
<1>2. CASE SlotOf(o) = SlotOf(x)
  <2>1. r.pendingOps[SlotOf(o)] = Tail(q.pendingOps[SlotOf(o)])
    BY <1>1, <1>2
  <2>2. QED
    BY <1>1, <1>2, <2>1, TimesInTail DEF InQueue
<1>3. CASE SlotOf(o) # SlotOf(x)
  <2>1. r.pendingOps[SlotOf(o)] = q.pendingOps[SlotOf(o)] /\ o # x
    BY <1>1, <1>3
  <2>2. QED
    BY <1>1, <2>1 DEF InQueue
<1>4. QED
  BY <1>2, <1>3

\* pop takes one copy, ...
LEMMA InQueuePopped ==
  ASSUME NEW q, QueueOK(q), q.priorityQueue # <<>>
  PROVE  LET x == Head(q.priorityQueue)
         IN  /\ x \in Ops /\ QueueOK(Popped(q))
             /\ \A o \in Ops : InQueue(q, o) = InQueue(Popped(q), o) + (IF o = x THEN 1 ELSE 0)
<1> DEFINE x == Head(q.priorityQueue)
           r == Popped(q)
<1>1. /\ QueueOK(r) /\ r.pendingOps = [q.pendingOps EXCEPT ![SlotOf(x)] = Tail(@)]
      /\ x \in Ops /\ q.pendingOps[SlotOf(x)] # <<>> /\ Head(q.pendingOps[SlotOf(x)]) = x
  BY PoppedKeeps, NaturalFees
<1> HIDE DEF x, r
<1>2. \A o \in Ops : InQueue(q, o) = InQueue(r, o) + (IF o = x THEN 1 ELSE 0)
  BY <1>1, InQueueTaken
<1>3. QED
  BY <1>1, <1>2 DEF x, r

\* and remove at most one, of its op.
LEMMA InQueueRemoved ==
  ASSUME NEW q, QueueOK(q), NEW x
  PROVE  /\ QueueOK(Removed(q, x))
         /\ \A o \in Ops : /\ InQueue(Removed(q, x), o) <= InQueue(q, o)
                           /\ o # x => InQueue(Removed(q, x), o) = InQueue(q, o)
<1> DEFINE r == Removed(q, x)
<1>1. /\ QueueOK(r)
      /\ ~IsReady(q, x) => r = q
      /\ IsReady(q, x) =>
           /\ r.pendingOps = [q.pendingOps EXCEPT ![SlotOf(x)] = Tail(@)]
           /\ x \in Ops /\ q.pendingOps[SlotOf(x)] # <<>> /\ Head(q.pendingOps[SlotOf(x)]) = x
  BY RemovedKeeps, NaturalFees
<1> HIDE DEF r
<1>2. ASSUME NEW o \in Ops PROVE InQueue(r, o) <= InQueue(q, o) /\ (o # x => InQueue(r, o) = InQueue(q, o))
  <2>1. InQueue(q, o) \in Nat /\ InQueue(r, o) \in Nat
    BY <1>1, BacklogOf
  <2>2. CASE ~IsReady(q, x)
    BY <1>1, <2>1, <2>2
  <2>3. CASE IsReady(q, x)
    <3>1. InQueue(q, o) = InQueue(r, o) + (IF o = x THEN 1 ELSE 0)
      BY <1>1, <2>3, InQueueTaken
    <3>2. QED
      BY <2>1, <3>1
  <2>4. QED
    BY <2>2, <2>3
<1>3. QED
  BY <1>1, <1>2 DEF r

\* The sum of the copies, place by place.
LEMMA CopiesSplit ==
  ASSUME HeldTypes, NEW o \in Ops
  PROVE  /\ Copies(o) = InFlow(outstanding, pass, o) + InExecutor(executing, o) + InCall(call, o)
         /\ InFlow(outstanding, pass, o) =
              InQueue(outstanding, o) + InHands(pass, o) + TimesInSeq(pass.bundle, o)
         /\ InQueue(outstanding, o) \in Nat /\ InHands(pass, o) \in Nat
         /\ TimesInSeq(pass.bundle, o) \in Nat
         /\ InFlow(outstanding, pass, o) \in Nat /\ InExecutor(executing, o) \in Nat
         /\ InCall(call, o) \in Nat
<1>1. InQueue(outstanding, o) \in Nat /\ TimesInSeq(pass.bundle, o) \in Nat
  BY BacklogOf, PlacesFinite DEF HeldTypes, HandOK
<1>2. InHands(pass, o) \in Nat /\ InCall(call, o) \in Nat
  BY InHandsIs DEF InCall
<1>3. InExecutor(executing, o) \in Nat
  BY ExecutorCounts DEF HeldTypes, ExecutingOK
<1>4. Copies(o) = InQueue(outstanding, o) + InHands(pass, o) + TimesInSeq(pass.bundle, o)
                  + InExecutor(executing, o) + InCall(call, o)
  BY DEF Copies, InQueue, InHands, InExecutor, InCall
<1>5. InFlow(outstanding, pass, o) =
        InQueue(outstanding, o) + InHands(pass, o) + TimesInSeq(pass.bundle, o)
  BY DEF InFlow
<1>6. QED
  BY <1>1, <1>2, <1>3, <1>4, <1>5

\* The same of the next state.
LEMMA CopiesSplitNext ==
  ASSUME HeldTypes', NEW o \in Ops
  PROVE  /\ Copies(o)' = InFlow(outstanding', pass', o) + InExecutor(executing', o) + InCall(call', o)
         /\ InFlow(outstanding', pass', o) =
              InQueue(outstanding', o) + InHands(pass', o) + TimesInSeq(pass'.bundle, o)
         /\ InQueue(outstanding', o) \in Nat /\ InHands(pass', o) \in Nat
         /\ TimesInSeq(pass'.bundle, o) \in Nat
         /\ InFlow(outstanding', pass', o) \in Nat /\ InExecutor(executing', o) \in Nat
         /\ InCall(call', o) \in Nat
<1>1. InQueue(outstanding', o) \in Nat /\ TimesInSeq(pass'.bundle, o) \in Nat
  BY BacklogOf, PlacesFinite DEF HeldTypes, HandOK
<1>2. InHands(pass', o) \in Nat /\ InCall(call', o) \in Nat
  BY InHandsIs DEF InCall
<1>3. InExecutor(executing', o) \in Nat
  BY ExecutorCounts DEF HeldTypes, ExecutingOK
<1>4. Copies(o)' = InQueue(outstanding', o) + InHands(pass', o) + TimesInSeq(pass'.bundle, o)
                  + InExecutor(executing', o) + InCall(call', o)
  BY DEF Copies, InQueue, InHands, InExecutor, InCall
<1>5. InFlow(outstanding', pass', o) =
        InQueue(outstanding', o) + InHands(pass', o) + TimesInSeq(pass'.bundle, o)
  BY DEF InFlow
<1>6. QED
  BY <1>1, <1>2, <1>3, <1>4, <1>5

-----------------------------------------------------------------------------
(* What the steps of the pass do to the copies.                            *)

\* A step that leaves bundles and calls alone conserves what the flow conserves.
LEMMA FlowConserves ==
  ASSUME HeldTypes, HeldTypes', UNCHANGED <<executing, call>>, NEW o \in Ops,
         InFlow(outstanding', pass', o) <= InFlow(outstanding, pass, o),
         InFlow(outstanding, pass, o) > 0 => InFlow(outstanding', pass', o) > 0 \/ o \in forsaken'
  PROVE  Conserved(o)
<1>1. /\ Copies(o) = InFlow(outstanding, pass, o) + InExecutor(executing, o) + InCall(call, o)
      /\ Copies(o)' = InFlow(outstanding', pass', o) + InExecutor(executing, o) + InCall(call, o)
      /\ InFlow(outstanding, pass, o) \in Nat /\ InExecutor(executing, o) \in Nat
      /\ InCall(call, o) \in Nat /\ InFlow(outstanding', pass', o) \in Nat
  BY CopiesSplit, CopiesSplitNext
<1>2. QED
  BY <1>1 DEF Conserved

\* Such a step keeps the types, if queue and pass keep theirs.
LEMMA FlowTypes ==
  ASSUME HeldTypes, UNCHANGED <<executing, call>>, QueueOK(outstanding)', HandOK', NoneBetween'
  PROVE  HeldTypes'
BY DEF HeldTypes, ExecutingOK, CallsOK

\* A step that moves nothing.
LEMMA PassStays ==
  ASSUME HeldTypes, UNCHANGED <<outstanding, executing, call>>, HandOK', NoneBetween',
         pass'.bundle = pass.bundle, {pass'.hand, pass'.carry} \ {NoOp} = {pass.hand, pass.carry} \ {NoOp}
  PROVE  HeldTypes' /\ \A o \in Ops : Conserved(o)
<1>1. HeldTypes'
  BY FlowTypes DEF HeldTypes
<1>2. ASSUME NEW o \in Ops PROVE Conserved(o)
  <2>1. InHands(pass', o) = InHands(pass, o)
    BY InHandsIs, NoOpIsNone
  <2>2. InFlow(outstanding', pass', o) = InFlow(outstanding, pass, o)
    BY <2>1 DEF InFlow
  <2>3. InFlow(outstanding, pass, o) \in Nat
    BY CopiesSplit
  <2>4. QED
    BY <1>1, <2>2, <2>3, FlowConserves
<1>3. QED
  BY <1>1, <1>2

\* The op in hand goes back.
LEMMA HandBackHeld ==
  ASSUME HeldTypes, pass.pc \in {"validate", "sponsor"}, UNCHANGED <<executing, call>>,
         NEW q, QueueOK(q), HandBack(q),
         \A o \in Ops : /\ InQueue(q, o) <= InQueue(outstanding, o)
                        /\ o # pass.hand => InQueue(q, o) = InQueue(outstanding, o)
  PROVE  HeldTypes' /\ \A o \in Ops : Conserved(o)
<1>1. /\ pass.hand \in Ops /\ pass.carry \in {NoOp, pass.hand} /\ PassFields \subseteq DOMAIN pass
      /\ pass.bundle \in Seq(Ops)
  BY DEF HeldTypes, HandOK
<1>2. /\ outstanding' = Added(q, pass.hand)
      /\ PassFields \subseteq DOMAIN pass' /\ pass'.pc = "select" /\ pass'.hand = NoOp
      /\ pass'.carry = NoOp /\ pass'.bundle = pass.bundle
  BY <1>1 DEF HandBack, PassFields
<1>3. /\ QueueOK(outstanding')
      /\ \A o \in Ops : InQueue(outstanding', o) = InQueue(q, o) + (IF o = pass.hand THEN 1 ELSE 0)
  BY <1>1, <1>2, InQueueAdded
<1>4. HandOK' /\ NoneBetween' /\ QueueOK(outstanding)'
  BY <1>1, <1>2, <1>3 DEF HandOK, NoneBetween
<1>5. HeldTypes'
  BY <1>4, FlowTypes
<1>6. ASSUME NEW o \in Ops PROVE Conserved(o)
  <2>1. InHands(pass', o) = 0 /\ InHands(pass, o) = IF o = pass.hand THEN 1 ELSE 0
    BY <1>1, <1>2, InHandsIs, NoOpIsNone
  <2>2. /\ InFlow(outstanding, pass, o) =
             InQueue(outstanding, o) + InHands(pass, o) + TimesInSeq(pass.bundle, o)
        /\ InFlow(outstanding', pass', o) =
             InQueue(outstanding', o) + InHands(pass', o) + TimesInSeq(pass.bundle, o)
        /\ InQueue(outstanding, o) \in Nat /\ TimesInSeq(pass.bundle, o) \in Nat
    BY <1>2, <1>5, CopiesSplit, CopiesSplitNext
  <2>3. InQueue(q, o) \in Nat
    BY BacklogOf
  <2>4. QED
    BY <1>3, <1>5, <2>1, <2>2, <2>3, FlowConserves
<1>7. QED
  BY <1>5, <1>6

\* What becomes of a selected op: x has left the queue or the carry.
LEMMA JudgeHeld ==
  ASSUME HeldTypes, pass.pc = "select", UNCHANGED <<executing, call>>,
         NEW x \in Ops, NEW q, QueueOK(q), NEW p, Judge(x, q, p),
         PassFields \subseteq DOMAIN p, p.pc = "select", p.hand = NoOp, p.carry \in {NoOp, x},
         p.bundle = pass.bundle,
         \A o \in Ops : InQueue(q, o) + (IF o = x THEN 1 ELSE 0)
                          = InQueue(outstanding, o) + InHands(pass, o)
  PROVE  HeldTypes' /\ \A o \in Ops : Conserved(o)
<1>1. pass.bundle \in Seq(Ops)
  BY DEF HeldTypes, HandOK
<1>2. /\ PassFields \subseteq DOMAIN pass' /\ pass'.bundle = pass.bundle
      /\ \/ /\ outstanding' = Added(q, x) /\ pass'.carry = NoOp /\ pass'.hand = NoOp
            /\ pass'.pc \in {"select", "bundled"}
         \/ /\ outstanding' = q /\ pass'.carry = NoOp /\ pass'.hand = NoOp
            /\ x \in forsaken' /\ pass'.pc = "select"
         \/ outstanding' = q /\ pass'.hand = x /\ pass'.carry = p.carry /\ pass'.pc = "validate"
  BY DEF Judge, PassFields
<1>3. /\ QueueOK(Added(q, x))
      /\ \A o \in Ops : InQueue(Added(q, x), o) = InQueue(q, o) + (IF o = x THEN 1 ELSE 0)
  BY InQueueAdded
<1>4. HandOK' /\ NoneBetween' /\ QueueOK(outstanding)'
  BY <1>1, <1>2, <1>3 DEF HandOK, NoneBetween
<1>5. HeldTypes'
  BY <1>4, FlowTypes
<1>6. ASSUME NEW o \in Ops PROVE Conserved(o)
  <2>1. /\ InFlow(outstanding, pass, o) =
             InQueue(outstanding, o) + InHands(pass, o) + TimesInSeq(pass.bundle, o)
        /\ InFlow(outstanding', pass', o) =
             InQueue(outstanding', o) + InHands(pass', o) + TimesInSeq(pass.bundle, o)
        /\ InQueue(outstanding, o) \in Nat /\ TimesInSeq(pass.bundle, o) \in Nat
        /\ InHands(pass, o) \in Nat /\ InQueue(q, o) \in Nat
    BY <1>2, <1>5, CopiesSplit, CopiesSplitNext, BacklogOf
  <2>2. \/ /\ InQueue(outstanding', o) = InQueue(q, o) + (IF o = x THEN 1 ELSE 0)
           /\ InHands(pass', o) = 0
        \/ InQueue(outstanding', o) = InQueue(q, o) /\ InHands(pass', o) = 0 /\ x \in forsaken'
        \/ /\ InQueue(outstanding', o) = InQueue(q, o)
           /\ InHands(pass', o) = IF o = x THEN 1 ELSE 0
    BY <1>2, <1>3, InHandsIs, NoOpIsNone
  <2>3. /\ InFlow(outstanding', pass', o) <= InFlow(outstanding, pass, o)
        /\ InFlow(outstanding, pass, o) > 0 => InFlow(outstanding', pass', o) > 0 \/ o \in forsaken'
    BY <2>1, <2>2
  <2>4. QED
    BY <1>5, <2>3, FlowConserves
<1>7. QED
  BY <1>5, <1>6

\* The calls of resubmitted ops.
LEMMA ResubmitCalls ==
  ASSUME CallsOK, NEW ops \in SUBSET Ops, Resubmit(ops)
  PROVE  /\ CallsOK'
         /\ \A o \in Ops : InCall(call', o) = IF o \in ops THEN 1 ELSE InCall(call, o)
         /\ \A o \in ops : InCall(call, o) = 0
<1> DEFINE fresh(c) == [NoCall EXCEPT !.pc = "check", !.op = c]
<1>1. /\ \A o \in ops : call[o].pc = "idle"
      /\ call' = [c \in DOMAIN call |-> IF c \in ops THEN fresh(c) ELSE call[c]]
  BY DEF Resubmit
<1>2. \A c : /\ fresh(c).pc = "check" /\ fresh(c).op = c
             /\ {"pc", "op", "queued", "displaced"} \subseteq DOMAIN fresh(c)
  BY DEF NoCall
<1> HIDE DEF fresh
<1>3. /\ DOMAIN call' = Clients \cup Ops
      /\ \A c \in Clients \cup Ops : call'[c] = IF c \in ops THEN fresh(c) ELSE call[c]
  BY <1>1 DEF CallsOK
<1>4. CallsOK'
  BY <1>2, <1>3 DEF CallsOK
<1>5. \A o \in Ops : InCall(call', o) = IF o \in ops THEN 1 ELSE InCall(call, o)
  BY <1>2, <1>3 DEF InCall
<1>6. \A o \in ops : InCall(call, o) = 0
  BY <1>1 DEF InCall
<1>7. QED
  BY <1>4, <1>5, <1>6

\* Every step of the pass keeps the types and conserves every op.
LEMMA PassHeld == ASSUME HeldTypes, PassStep PROVE HeldTypes' /\ \A o \in Ops : Conserved(o)
<1>a. /\ PassFields \subseteq DOMAIN pass /\ pass.bundle \in Seq(Ops) /\ HandOK /\ NoneBetween
      /\ QueueOK(outstanding) /\ ExecutingOK /\ CallsOK /\ NoOp \notin Ops
  BY NoOpIsNone DEF HeldTypes, HandOK
<1>1. CASE StartPass
  <2>1. /\ PassFields \subseteq DOMAIN pass' /\ pass'.pc = "setup" /\ pass'.bundle = <<>>
        /\ pass'.hand = NoOp /\ pass'.carry = NoOp /\ pass.bundle = <<>>
        /\ pass.hand = NoOp /\ pass.carry = NoOp
        /\ UNCHANGED <<outstanding, executing, call>>
    BY <1>1, <1>a DEF StartPass, NoPass, PassFields, stores, HandOK, NoneBetween
  <2>2. HandOK' /\ NoneBetween'
    BY <2>1 DEF HandOK, NoneBetween
  <2>3. QED
    BY <2>1, <2>2, PassStays
<1>2. CASE SetupBundle
  <2>1. /\ PassFields \subseteq DOMAIN pass' /\ pass'.pc = "select" /\ pass'.bundle = <<>>
        /\ pass'.hand = NoOp /\ pass'.carry = pass.carry /\ pass.bundle = <<>> /\ pass.hand = NoOp
        /\ UNCHANGED <<outstanding, executing, call>>
    BY <1>2, <1>a DEF SetupBundle, PassFields, stores, HandOK, NoneBetween
  <2>2. HandOK' /\ NoneBetween'
    BY <1>a, <2>1 DEF HandOK, NoneBetween
  <2>3. QED
    BY <2>1, <2>2, PassStays
<1>3. CASE Finish
  <2>1. /\ PassFields \subseteq DOMAIN pass' /\ pass'.pc = "idle" /\ pass'.bundle = <<>>
        /\ pass'.hand = NoOp /\ pass'.carry = NoOp /\ pass.bundle = <<>> /\ pass.hand = NoOp
        /\ outstanding' = IF pass.carry = NoOp THEN outstanding ELSE Added(outstanding, pass.carry)
        /\ UNCHANGED <<executing, call>>
    BY <1>3, <1>a DEF Finish, NoPass, PassFields, HandOK, NoneBetween
  <2>2. HandOK' /\ NoneBetween'
    BY <2>1 DEF HandOK, NoneBetween
  <2>3. CASE pass.carry = NoOp
    BY <2>1, <2>2, <2>3, PassStays
  <2>4. CASE pass.carry # NoOp
    <3>1. /\ pass.carry \in Ops /\ QueueOK(outstanding')
          /\ \A o \in Ops : InQueue(outstanding', o)
                              = InQueue(outstanding, o) + (IF o = pass.carry THEN 1 ELSE 0)
      BY <1>a, <2>1, <2>4, InQueueAdded DEF HandOK
    <3>2. HeldTypes'
      BY <2>1, <2>2, <3>1, FlowTypes
    <3>3. ASSUME NEW o \in Ops PROVE Conserved(o)
      <4>1. InHands(pass', o) = 0 /\ InHands(pass, o) = IF o = pass.carry THEN 1 ELSE 0
        BY <1>a, <2>1, InHandsIs
      <4>2. /\ InFlow(outstanding, pass, o) =
                 InQueue(outstanding, o) + InHands(pass, o) + TimesInSeq(pass.bundle, o)
            /\ InFlow(outstanding', pass', o) =
                 InQueue(outstanding', o) + InHands(pass', o) + TimesInSeq(pass.bundle, o)
            /\ InQueue(outstanding, o) \in Nat /\ TimesInSeq(pass.bundle, o) \in Nat
        BY <2>1, <3>2, CopiesSplit, CopiesSplitNext
      <4>3. InFlow(outstanding', pass', o) = InFlow(outstanding, pass, o)
        BY <3>1, <4>1, <4>2
      <4>4. QED
        BY <2>1, <3>2, <4>2, <4>3, FlowConserves, CopiesSplit
    <3>4. QED
      BY <3>2, <3>3
  <2>5. QED
    BY <2>3, <2>4
<1>4. CASE SelectNothing
  <2>1. /\ PassFields \subseteq DOMAIN pass' /\ pass'.pc = "bundled" /\ pass'.bundle = pass.bundle
        /\ pass'.hand = NoOp /\ pass'.carry = pass.carry /\ pass.hand = NoOp
        /\ UNCHANGED <<outstanding, executing, call>>
    BY <1>4, <1>a DEF SelectNothing, PassFields, stores, HandOK
  <2>2. HandOK' /\ NoneBetween'
    BY <1>a, <2>1 DEF HandOK, NoneBetween
  <2>3. QED
    BY <2>1, <2>2, PassStays
<1>5. CASE SelectCarried
  <2> DEFINE p == [pass EXCEPT !.fromCarry = TRUE]
  <2>1. /\ PassFields \subseteq DOMAIN p /\ p.pc = pass.pc /\ p.hand = pass.hand
        /\ p.carry = pass.carry /\ p.bundle = pass.bundle
    BY <1>a DEF PassFields
  <2>2. /\ Judge(pass.carry, outstanding, p) /\ pass.pc = "select" /\ pass.carry \in Ops
        /\ pass.hand = NoOp
        /\ UNCHANGED <<executing, call>>
    BY <1>5, <1>a DEF SelectCarried, HandOK
  <2> HIDE DEF p
  <2>3. \A o \in Ops : InQueue(outstanding, o) + (IF o = pass.carry THEN 1 ELSE 0)
                         = InQueue(outstanding, o) + InHands(pass, o)
    <3> SUFFICES ASSUME NEW o \in Ops
                 PROVE  InHands(pass, o) = IF o = pass.carry THEN 1 ELSE 0
      OBVIOUS
    <3>1. QED
      BY <1>a, <2>2, InHandsIs
  <2>4. QED
    BY <1>a, <2>1, <2>2, <2>3, JudgeHeld
<1>6. CASE SelectPopped
  <2> DEFINE x == Head(outstanding.priorityQueue)
             q == Popped(outstanding)
             p == [pass EXCEPT !.seen = @ \cup {x}, !.fromCarry = FALSE]
  <2>1. /\ pass.pc = "select" /\ pass.carry = NoOp /\ pass.hand = NoOp
        /\ outstanding.priorityQueue # <<>> /\ UNCHANGED <<executing, call>>
    BY <1>6, <1>a DEF SelectPopped, HandOK
  <2>2. /\ x \in Ops /\ QueueOK(q)
        /\ \A o \in Ops : InQueue(outstanding, o) = InQueue(q, o) + (IF o = x THEN 1 ELSE 0)
    BY <1>a, <2>1, InQueuePopped
  <2>3. /\ PassFields \subseteq DOMAIN p /\ p.pc = pass.pc /\ p.hand = pass.hand
        /\ p.carry = pass.carry /\ p.bundle = pass.bundle
    BY <1>a DEF PassFields
  <2>4. \/ /\ outstanding' = Added(q, x)
           /\ pass' = [pass EXCEPT !.stop = TRUE, !.pc = "bundled"]
        \/ Judge(x, q, p)
    BY <1>6 DEF SelectPopped
  <2> HIDE DEF x, q, p
  <2>5. \A o \in Ops : InHands(pass, o) = 0
    BY <1>a, <2>1, InHandsIs
  <2>6. CASE Judge(x, q, p)
    <3>1. \A o \in Ops : InQueue(q, o) + (IF o = x THEN 1 ELSE 0)
                           = InQueue(outstanding, o) + InHands(pass, o)
      BY <2>2, <2>5, <1>a, BacklogOf
    <3>2. QED
      BY <1>a, <2>1, <2>2, <2>3, <2>6, <3>1, JudgeHeld
  <2>7. CASE /\ outstanding' = Added(q, x)
             /\ pass' = [pass EXCEPT !.stop = TRUE, !.pc = "bundled"]
    <3>1. /\ PassFields \subseteq DOMAIN pass' /\ pass'.pc = "bundled" /\ pass'.hand = NoOp
          /\ pass'.carry = NoOp /\ pass'.bundle = pass.bundle
      BY <1>a, <2>1, <2>7 DEF PassFields
    <3>2. /\ QueueOK(outstanding')
          /\ \A o \in Ops : InQueue(outstanding', o) = InQueue(q, o) + (IF o = x THEN 1 ELSE 0)
      BY <2>2, <2>7, InQueueAdded
    <3>3. HandOK' /\ NoneBetween'
      BY <1>a, <3>1 DEF HandOK, NoneBetween
    <3>4. HeldTypes'
      BY <2>1, <3>2, <3>3, FlowTypes
    <3>5. ASSUME NEW o \in Ops PROVE Conserved(o)
      <4>1. InHands(pass', o) = 0 /\ InHands(pass, o) = 0
        BY <1>a, <2>5, <3>1, InHandsIs
      <4>2. InQueue(outstanding', o) = InQueue(outstanding, o)
        BY <2>2, <3>2
      <4>3. InFlow(outstanding', pass', o) = InFlow(outstanding, pass, o)
        BY <3>1, <4>1, <4>2 DEF InFlow
      <4>4. QED
        BY <2>1, <3>4, <4>3, FlowConserves, CopiesSplit
    <3>6. QED
      BY <3>4, <3>5
  <2>8. QED
    BY <2>4, <2>6, <2>7
<1>7. CASE ValidationFails
  <2>1. /\ pass.pc = "validate" /\ HandBack(Removed(outstanding, pass.hand))
        /\ UNCHANGED <<executing, call>>
    BY <1>7 DEF ValidationFails
  <2>2. QED
    BY <1>a, <2>1, InQueueRemoved, HandBackHeld
<1>b. \A o \in Ops : InQueue(outstanding, o) <= InQueue(outstanding, o)
  BY <1>a, BacklogOf
<1>8. CASE Validated
  <2>1. pass.pc = "validate" /\ UNCHANGED <<executing, call>>
    BY <1>8 DEF Validated
  <2>2. CASE HandBack(outstanding)
    BY <1>a, <1>b, <2>1, <2>2, HandBackHeld
  <2>3. CASE /\ \E pc \in {"sponsor", "deposit"} : pass' = [pass EXCEPT !.pc = pc]
             /\ UNCHANGED outstanding
    <3>1. /\ PassFields \subseteq DOMAIN pass' /\ pass'.pc \in {"sponsor", "deposit"}
          /\ pass'.bundle = pass.bundle /\ pass'.hand = pass.hand /\ pass'.carry = pass.carry
      BY <1>a, <2>3 DEF PassFields
    <3>2. HandOK' /\ NoneBetween'
      BY <1>a, <2>1, <3>1 DEF HandOK, NoneBetween
    <3>3. QED
      BY <2>1, <2>3, <3>1, <3>2, PassStays
  <2>4. QED
    BY <1>8, <2>2, <2>3 DEF Validated
<1>9. CASE ReadDeposit
  <2>1. /\ PassFields \subseteq DOMAIN pass' /\ pass'.pc = "sponsor" /\ pass.pc = "deposit"
        /\ pass'.bundle = pass.bundle /\ pass'.hand = pass.hand /\ pass'.carry = pass.carry
        /\ UNCHANGED <<outstanding, executing, call>>
    BY <1>9, <1>a DEF ReadDeposit, PassFields, stores
  <2>2. HandOK' /\ NoneBetween'
    BY <1>a, <2>1 DEF HandOK, NoneBetween
  <2>3. QED
    BY <2>1, <2>2, PassStays
<1>10. CASE DepositReadFails
  <2>1. /\ PassFields \subseteq DOMAIN pass' /\ pass'.pc = "finish" /\ pass'.bundle = <<>>
        /\ pass'.hand = NoOp /\ pass'.carry = pass.carry /\ pass.carry \in {NoOp, pass.hand}
        /\ OpsOf(pass.bundle) \cup ({pass.hand} \ {pass.carry}) \subseteq forsaken'
        /\ UNCHANGED <<outstanding, executing, call>>
    BY <1>10, <1>a DEF DepositReadFails, PassFields, stores, HandOK
  <2>2. HandOK' /\ NoneBetween'
    BY <1>a, <2>1 DEF HandOK, NoneBetween
  <2>3. HeldTypes'
    BY <1>a, <2>1, <2>2, FlowTypes
  <2>4. ASSUME NEW o \in Ops PROVE Conserved(o)
    <3>1. /\ InHands(pass', o) = IF o = pass.carry THEN 1 ELSE 0
          /\ InHands(pass, o) = IF o \in {pass.hand, pass.carry} THEN 1 ELSE 0
      BY <1>a, <2>1, InHandsIs
    <3>2. TimesInSeq(pass'.bundle, o) = 0
      BY <2>1, TimesInNone
    <3>3. /\ InFlow(outstanding, pass, o) =
               InQueue(outstanding, o) + InHands(pass, o) + TimesInSeq(pass.bundle, o)
          /\ InFlow(outstanding', pass', o) =
               InQueue(outstanding, o) + InHands(pass', o) + TimesInSeq(pass'.bundle, o)
          /\ InQueue(outstanding, o) \in Nat /\ TimesInSeq(pass.bundle, o) \in Nat
          /\ TimesInSeq(pass.bundle, o) > 0 => o \in OpsOf(pass.bundle)
      BY <1>a, <2>1, <2>3, CopiesSplit, CopiesSplitNext, PlacesFinite
    <3>4. /\ InFlow(outstanding', pass', o) <= InFlow(outstanding, pass, o)
          /\ InFlow(outstanding, pass, o) > 0 => InFlow(outstanding', pass', o) > 0 \/ o \in forsaken'
      BY <2>1, <3>1, <3>2, <3>3
    <3>5. QED
      BY <2>1, <2>3, <3>4, FlowConserves
  <2>5. QED
    BY <2>3, <2>4
<1>11. CASE SkipUnsponsored
  <2>1. pass.pc = "sponsor" /\ HandBack(outstanding) /\ UNCHANGED <<executing, call>>
    BY <1>11 DEF SkipUnsponsored
  <2>2. QED
    BY <1>a, <1>b, <2>1, HandBackHeld
<1>c. ASSUME NEW o PROVE LET p == Sponsored(pass, o)
                         IN  PassFields \subseteq DOMAIN p /\ p.bundle = pass.bundle
  BY <1>a DEF Sponsored, PassFields
<1>12. CASE Defer
  <2> DEFINE p == Sponsored(pass, pass.hand)
  <2>1. /\ pass' = [p EXCEPT !.carry = pass.hand, !.hand = NoOp, !.pc = "bundled"]
        /\ pass.pc = "sponsor" /\ UNCHANGED <<outstanding, executing, call>>
    BY <1>12 DEF Defer, stores
  <2>2. PassFields \subseteq DOMAIN p /\ p.bundle = pass.bundle
    BY <1>c
  <2> HIDE DEF p
  <2>3. /\ PassFields \subseteq DOMAIN pass' /\ pass'.pc = "bundled"
        /\ pass'.bundle = pass.bundle /\ pass'.carry = pass.hand /\ pass'.hand = NoOp
    BY <2>1, <2>2 DEF PassFields
  <2>4. HandOK' /\ NoneBetween'
    BY <1>a, <2>1, <2>3 DEF HandOK, NoneBetween
  <2>5. {pass'.hand, pass'.carry} \ {NoOp} = {pass.hand, pass.carry} \ {NoOp}
    BY <1>a, <2>1, <2>3 DEF HandOK
  <2>6. QED
    BY <2>1, <2>3, <2>4, <2>5, PassStays
<1>13. CASE Accept
  <2> DEFINE p == Sponsored(pass, pass.hand)
  <2>1. /\ pass' = [p EXCEPT !.carry = NoOp, !.hand = NoOp, !.pc = "select",
                             !.bundle = Append(@, pass.hand)]
        /\ pass.pc = "sponsor" /\ UNCHANGED <<outstanding, executing, call>>
        /\ pass.hand \in Ops /\ pass.carry \in {NoOp, pass.hand}
    BY <1>13, <1>a DEF Accept, HandOK
  <2>2. PassFields \subseteq DOMAIN p /\ p.bundle = pass.bundle
    BY <1>c
  <2> HIDE DEF p
  <2>3. /\ PassFields \subseteq DOMAIN pass' /\ pass'.pc = "select"
        /\ pass'.bundle = Append(pass.bundle, pass.hand) /\ pass'.carry = NoOp /\ pass'.hand = NoOp
    BY <2>1, <2>2 DEF PassFields
  <2>4. /\ pass'.bundle \in Seq(Ops)
        /\ \A o : TimesInSeq(pass'.bundle, o)
                     = TimesInSeq(pass.bundle, o) + (IF pass.hand = o THEN 1 ELSE 0)
    <3>1. pass.bundle \in Seq(Ops) /\ pass.hand \in Ops
      BY <1>a, <2>1
    <3>2. /\ Append(pass.bundle, pass.hand) \in Seq(Ops)
          /\ \A o : TimesInSeq(Append(pass.bundle, pass.hand), o)
                       = TimesInSeq(pass.bundle, o) + (IF pass.hand = o THEN 1 ELSE 0)
      BY ONLY <3>1, AppendProperties, TimesInAppend
    <3>3. QED
      BY <2>3, <3>2
  <2>5. HandOK' /\ NoneBetween'
    BY <1>a, <2>1, <2>3, <2>4 DEF HandOK, NoneBetween
  <2>6. HeldTypes'
    BY <1>a, <2>1, <2>5, FlowTypes
  <2>7. ASSUME NEW o \in Ops PROVE Conserved(o)
    <3>1. InHands(pass', o) = 0 /\ InHands(pass, o) = IF o = pass.hand THEN 1 ELSE 0
      BY <1>a, <2>1, <2>3, InHandsIs
    <3>2. TimesInSeq(pass'.bundle, o) = TimesInSeq(pass.bundle, o) + (IF pass.hand = o THEN 1 ELSE 0)
      BY <2>4
    <3>3. /\ InFlow(outstanding, pass, o) =
               InQueue(outstanding, o) + InHands(pass, o) + TimesInSeq(pass.bundle, o)
          /\ InFlow(outstanding', pass', o) =
               InQueue(outstanding, o) + InHands(pass', o) + TimesInSeq(pass'.bundle, o)
          /\ InQueue(outstanding, o) \in Nat /\ TimesInSeq(pass.bundle, o) \in Nat
      BY <2>1, <2>6, CopiesSplit, CopiesSplitNext
    <3>4. InFlow(outstanding', pass', o) = InFlow(outstanding, pass, o)
      BY <3>1, <3>2, <3>3
    <3>5. QED
      BY <2>1, <2>6, <3>4, FlowConserves, CopiesSplit
  <2>8. QED
    BY <2>6, <2>7
<1>d. /\ PassFields \subseteq DOMAIN NextBundle(pass) /\ NextBundle(pass).bundle = <<>>
      /\ NextBundle(pass).pc = "setup" /\ NextBundle(pass).hand = pass.hand
      /\ NextBundle(pass).carry = pass.carry
  BY <1>a DEF NextBundle, PassFields
<1>14. CASE HandOver
  <2>1. pass.pc = "bundled" /\ pass.hand = NoOp /\ UNCHANGED <<outstanding, call>>
    BY <1>14, <1>a DEF HandOver, stores, HandOK
  <2>2. CASE pass.bundle = <<>>
    <3>1. pass' = [pass EXCEPT !.pc = "setup"] /\ UNCHANGED executing
      BY <1>14, <2>2 DEF HandOver
    <3>2. /\ PassFields \subseteq DOMAIN pass' /\ pass'.pc = "setup"
          /\ pass'.bundle = pass.bundle /\ pass'.hand = pass.hand /\ pass'.carry = pass.carry
      BY <1>a, <3>1 DEF PassFields
    <3>3. HandOK' /\ NoneBetween'
      BY <1>a, <2>1, <2>2, <3>2 DEF HandOK, NoneBetween
    <3>4. QED
      BY <2>1, <3>1, <3>2, <3>3, PassStays
  <2>3. CASE pass.bundle # <<>>
    <3> DEFINE b == [pass |-> passes, n |-> pass.n, ops |-> pass.bundle, stage |-> "processing"]
    <3>1. executing' = executing \cup {b} /\ pass' = NextBundle(pass)
      BY <1>14, <2>3 DEF HandOver
    <3>2. b.ops = pass.bundle /\ {"pass", "n", "ops", "stage"} \subseteq DOMAIN b
      OBVIOUS
    <3> HIDE DEF b
    <3>3. ExecutingOK'
      <4>1. IsFiniteSet(executing \cup {b})
        BY <1>a, FS_AddElement DEF ExecutingOK
      <4>2. QED
        BY <1>a, <3>1, <3>2, <4>1 DEF ExecutingOK
    <3>4. HandOK' /\ NoneBetween'
      <4>1. pass.carry \in Ops \cup {NoOp} /\ <<>> \in Seq(Ops)
        BY <1>a DEF HandOK
      <4>2. /\ PassFields \subseteq DOMAIN pass' /\ pass'.bundle = <<>> /\ pass'.pc = "setup"
            /\ pass'.hand = NoOp /\ pass'.carry = pass.carry
        BY <1>d, <2>1, <3>1
      <4>3. QED
        BY <4>1, <4>2 DEF HandOK, NoneBetween
    <3>5. HeldTypes'
      BY <1>a, <2>1, <3>3, <3>4 DEF HeldTypes, CallsOK
    <3>6. ASSUME NEW o \in Ops PROVE Conserved(o)
      <4>1. InHands(pass', o) = InHands(pass, o)
        BY <1>d, <3>1 DEF InHands
      <4>2. TimesInSeq(pass'.bundle, o) = 0
        BY <1>d, <3>1, TimesInNone
      <4>3. InExecutor(executing', o) <= InExecutor(executing, o) + TimesInSeq(pass.bundle, o)
        BY <1>a, <3>1, <3>2, ExecutorTakes DEF ExecutingOK
      <4>4. InExecutor(executing, o) > 0 \/ TimesInSeq(pass.bundle, o) > 0
              => InExecutor(executing', o) > 0
        <5>1. /\ InExecutor(executing, o) > 0 <=> \E d \in executing : o \in OpsOf(d.ops)
              /\ InExecutor(executing', o) > 0 <=> \E d \in executing' : o \in OpsOf(d.ops)
              /\ TimesInSeq(pass.bundle, o) > 0 => o \in OpsOf(pass.bundle)
          BY <1>a, <3>3, ExecutorCounts, PlacesFinite DEF ExecutingOK
        <5>2. QED
          BY <3>1, <3>2, <5>1
      <4>5. /\ Copies(o) = InQueue(outstanding, o) + InHands(pass, o) + TimesInSeq(pass.bundle, o)
                           + InExecutor(executing, o) + InCall(call, o)
            /\ Copies(o)' = InQueue(outstanding, o) + InHands(pass', o) + TimesInSeq(pass'.bundle, o)
                           + InExecutor(executing', o) + InCall(call, o)
        BY <2>1, <3>5, CopiesSplit, CopiesSplitNext
      <4>6. /\ InQueue(outstanding, o) \in Nat /\ InHands(pass, o) \in Nat
            /\ TimesInSeq(pass.bundle, o) \in Nat /\ InExecutor(executing, o) \in Nat
            /\ InCall(call, o) \in Nat /\ InExecutor(executing', o) \in Nat
        BY <3>5, CopiesSplit, CopiesSplitNext
      <4>7. QED
        BY <4>1, <4>2, <4>3, <4>4, <4>5, <4>6 DEF Conserved
    <3>7. QED
      BY <3>5, <3>6
  <2>4. QED
    BY <2>2, <2>3
<1>15. CASE HandOverFails
  <2>1. /\ pass.pc = "bundled" /\ pass.hand = NoOp /\ Resubmit(OpsOf(pass.bundle))
        /\ pass' = [NextBundle(pass) EXCEPT !.pc = "returning"]
        /\ UNCHANGED <<outstanding, executing>>
    BY <1>15, <1>a DEF HandOverFails, HandOK
  <2>2. /\ PassFields \subseteq DOMAIN pass' /\ pass'.bundle = <<>> /\ pass'.pc = "returning"
        /\ pass'.hand = pass.hand /\ pass'.carry = pass.carry
    BY <1>d, <2>1 DEF PassFields
  <2>3. HandOK' /\ NoneBetween'
    <3>1. pass.carry \in Ops \cup {NoOp} /\ <<>> \in Seq(Ops)
      BY <1>a DEF HandOK
    <3>2. QED
      BY <2>1, <2>2, <3>1 DEF HandOK, NoneBetween
  <2>4. OpsOf(pass.bundle) \subseteq Ops
    BY <1>a DEF OpsOf
  <2>5. /\ CallsOK'
        /\ \A o \in Ops : InCall(call', o) = IF o \in OpsOf(pass.bundle) THEN 1 ELSE InCall(call, o)
        /\ \A o \in OpsOf(pass.bundle) : InCall(call, o) = 0
    BY <1>a, <2>1, <2>4, ResubmitCalls
  <2>6. HeldTypes'
    BY <1>a, <2>1, <2>3, <2>5 DEF HeldTypes, ExecutingOK
  <2>7. ASSUME NEW o \in Ops PROVE Conserved(o)
    <3>1. InHands(pass', o) = InHands(pass, o)
      BY <2>2 DEF InHands
    <3>2. TimesInSeq(pass'.bundle, o) = 0
      BY <2>2, TimesInNone
    <3>3. /\ Copies(o) = InQueue(outstanding, o) + InHands(pass, o) + TimesInSeq(pass.bundle, o)
                         + InExecutor(executing, o) + InCall(call, o)
          /\ Copies(o)' = InQueue(outstanding, o) + InHands(pass', o) + TimesInSeq(pass'.bundle, o)
                         + InExecutor(executing, o) + InCall(call', o)
      BY <2>1, <2>6, CopiesSplit, CopiesSplitNext
    <3>4. /\ InQueue(outstanding, o) \in Nat /\ InHands(pass, o) \in Nat
          /\ TimesInSeq(pass.bundle, o) \in Nat /\ InExecutor(executing, o) \in Nat
          /\ InCall(call, o) \in Nat
      BY CopiesSplit
    <3>5. TimesInSeq(pass.bundle, o) > 0 <=> o \in OpsOf(pass.bundle)
      BY <1>a, PlacesFinite
    <3>6. QED
      BY <2>5, <3>1, <3>2, <3>3, <3>4, <3>5 DEF Conserved
  <2>8. QED
    BY <2>6, <2>7
<1>16. CASE BundleReturned
  <2>1. /\ PassFields \subseteq DOMAIN pass' /\ pass'.pc = "finish" /\ pass.pc = "returning"
        /\ pass'.bundle = pass.bundle /\ pass'.hand = pass.hand /\ pass'.carry = pass.carry
        /\ UNCHANGED <<outstanding, executing, call>>
    BY <1>16, <1>a DEF BundleReturned, PassFields, stores
  <2>2. HandOK' /\ NoneBetween'
    BY <1>a, <2>1 DEF HandOK, NoneBetween
  <2>3. QED
    BY <2>1, <2>2, PassStays
<1>17. QED
  BY <1>1, <1>2, <1>3, <1>4, <1>5, <1>6, <1>7, <1>8, <1>9, <1>10, <1>11, <1>12, <1>13,
     <1>14, <1>15, <1>16 DEF PassStep

-----------------------------------------------------------------------------
(* What the other steps do to the ops that are accepted.                   *)

Somewhere(q, p, E, c, o) ==
  \/ Queued(q, o)
  \/ o \in {p.hand, p.carry}
  \/ o \in OpsOf(p.bundle)
  \/ \E b \in E : o \in OpsOf(b.ops)
  \/ c[o].pc # "idle"

\* An op has a copy if it is somewhere, now ...
LEMMA HeldSomewhere ==
  ASSUME HeldTypes, NEW o \in Ops
  PROVE  Copies(o) > 0 <=> Somewhere(outstanding, pass, executing, call, o)
<1>1. /\ Copies(o) = InQueue(outstanding, o) + InHands(pass, o) + TimesInSeq(pass.bundle, o)
                     + InExecutor(executing, o) + InCall(call, o)
      /\ InQueue(outstanding, o) \in Nat /\ InHands(pass, o) \in Nat
      /\ TimesInSeq(pass.bundle, o) \in Nat /\ InExecutor(executing, o) \in Nat
      /\ InCall(call, o) \in Nat
  BY CopiesSplit
<1>2. InQueue(outstanding, o) > 0 <=> Queued(outstanding, o)
  BY BacklogOf DEF HeldTypes
<1>3. InHands(pass, o) > 0 <=> o \in {pass.hand, pass.carry}
  BY InHandsIs
<1>4. TimesInSeq(pass.bundle, o) > 0 <=> o \in OpsOf(pass.bundle)
  BY PlacesFinite DEF HeldTypes, HandOK
<1>5. InExecutor(executing, o) > 0 <=> \E b \in executing : o \in OpsOf(b.ops)
  BY ExecutorCounts DEF HeldTypes, ExecutingOK
<1>6. InCall(call, o) > 0 <=> call[o].pc # "idle"
  BY DEF InCall
<1>7. QED
  BY <1>1, <1>2, <1>3, <1>4, <1>5, <1>6 DEF Somewhere

\* ... and next.
LEMMA HeldSomewhereNext ==
  ASSUME HeldTypes', NEW o \in Ops
  PROVE  Copies(o)' > 0 <=> Somewhere(outstanding', pass', executing', call', o)
<1>1. /\ Copies(o)' = InQueue(outstanding', o) + InHands(pass', o) + TimesInSeq(pass'.bundle, o)
                     + InExecutor(executing', o) + InCall(call', o)
      /\ InQueue(outstanding', o) \in Nat /\ InHands(pass', o) \in Nat
      /\ TimesInSeq(pass'.bundle, o) \in Nat /\ InExecutor(executing', o) \in Nat
      /\ InCall(call', o) \in Nat
  BY CopiesSplitNext
<1>2. InQueue(outstanding', o) > 0 <=> Queued(outstanding', o)
  BY BacklogOf DEF HeldTypes
<1>3. InHands(pass', o) > 0 <=> o \in {pass'.hand, pass'.carry}
  BY InHandsIs
<1>4. TimesInSeq(pass'.bundle, o) > 0 <=> o \in OpsOf(pass'.bundle)
  BY PlacesFinite DEF HeldTypes, HandOK
<1>5. InExecutor(executing', o) > 0 <=> \E b \in executing' : o \in OpsOf(b.ops)
  BY ExecutorCounts DEF HeldTypes, ExecutingOK
<1>6. InCall(call', o) > 0 <=> call'[o].pc # "idle"
  BY DEF InCall
<1>7. QED
  BY <1>1, <1>2, <1>3, <1>4, <1>5, <1>6 DEF Somewhere

Pending == {"not_submitted", "submitted"}

HeldInv == HeldTypes /\ DOMAIN status = Ops /\ AcceptedIsHeld

\* An op that stays pending stays where it is, or is queued, or is given up.
LEMMA StaysHeld ==
  ASSUME HeldInv, HeldTypes', DOMAIN status' = Ops,
         \A o \in Ops : status'[o] \in Pending =>
           \/ Somewhere(outstanding', pass', executing', call', o)
           \/ o \in forsaken'
           \/ /\ status[o] \in Pending /\ o \notin forsaken
              /\ ~Somewhere(outstanding, pass, executing, call, o)
  PROVE  HeldInv'
<1>1. ASSUME NEW o \in Ops, status'[o] \in Pending
      PROVE  Copies(o)' > 0 \/ o \in forsaken'
  BY <1>1, HeldSomewhere, HeldSomewhereNext DEF HeldInv, AcceptedIsHeld, Pending
<1>2. QED
  BY <1>1 DEF HeldInv, AcceptedIsHeld, Pending

\* One call changes: its op is another, or it ends.
LEMMA OneCall ==
  ASSUME CallsOK, NEW c \in Clients \cup Ops, NEW r, call' = [call EXCEPT ![c] = r],
         {"pc", "op", "queued", "displaced"} \subseteq DOMAIN r,
         \/ r.pc = "idle"
         \/ r.pc # "received" /\ r.op = call[c].op /\ call[c].pc # "idle"
         \/ c \notin Ops /\ r.op \in Ops,
         r.pc = "replace" => r.displaced \in Ops
  PROVE  CallsOK' /\ \A d \in Clients \cup Ops : d # c => call'[d] = call[d]
<1>1. /\ DOMAIN call' = Clients \cup Ops /\ call'[c] = r
      /\ \A d \in Clients \cup Ops : d # c => call'[d] = call[d]
  BY DEF CallsOK
<1>2. QED
  BY <1>1 DEF CallsOK

\* A step of a request: its op stays in the call, is queued, refused or given up.
LEMMA CallHeld ==
  ASSUME HeldInv, NEW c \in Clients \cup Ops,
         CallStep(c) \/ (c \in Clients /\ \E o \in Ops : Receive(c, o))
  PROVE  HeldInv'
<1>a. /\ HeldTypes /\ CallsOK /\ QueueOK(outstanding) /\ DOMAIN status = Ops
      /\ NoOp \notin Ops /\ Clients \cap Ops = {}
  BY NoOpIsNone DEF HeldInv, HeldTypes
<1>b. UNCHANGED <<pass, executing>>
  <2>1. CASE Check(c) \/ Refuse(c)
    BY <2>1 DEF CallStep, Check, Receive, Admit, Replace, Queue, StakeReadFails
  <2>2. QED
    BY <2>1 DEF CallStep, Receive, Admit, Replace, Queue, StakeReadFails
<1>c. ASSUME CallsOK', QueueOK(outstanding') PROVE HeldTypes'
  BY <1>a, <1>b, <1>c DEF HeldTypes, HandOK, NoneBetween, ExecutingOK
<1>d. /\ {"pc", "op", "queued", "displaced"} \subseteq DOMAIN NoCall /\ NoCall.pc = "idle"
      /\ {"pc", "op", "queued", "displaced"} \subseteq DOMAIN call[c]
  BY <1>a DEF NoCall, CallsOK
<1>1. CASE c \in Clients /\ \E o \in Ops : Receive(c, o)
  <2>1. PICK o \in Ops : Receive(c, o)
    BY <1>1
  <2> DEFINE r == [NoCall EXCEPT !.pc = "received", !.op = o,
                     !.queued = UserOp[o].nonceSeq > nonce[SlotOf(o)] + QueuedUserOps(o)]
  <2>2. call' = [call EXCEPT ![c] = r] /\ UNCHANGED <<outstanding, status, forsaken>>
    BY <2>1 DEF Receive, stores, history
  <2>3. r.op = o /\ r.pc = "received" /\ {"pc", "op", "queued", "displaced"} \subseteq DOMAIN r
    BY DEF NoCall
  <2> HIDE DEF r
  <2>4. CallsOK' /\ \A d \in Clients \cup Ops : d # c => call'[d] = call[d]
    BY <1>1, <1>a, <2>2, <2>3, OneCall
  <2>5. HeldTypes'
    BY <1>a, <1>c, <2>2, <2>4
  <2>6. \A x \in Ops : call'[x] = call[x]
    BY <1>1, <1>a, <2>4
  <2>7. QED
    BY <1>a, <1>b, <2>2, <2>5, <2>6, StaysHeld DEF Somewhere
<1>2. CASE Admit(c)
  <2>1. /\ call[c].pc = "received" /\ UNCHANGED <<outstanding, status, forsaken>>
        /\ \/ call' = [call EXCEPT ![c] = [@ EXCEPT !.pc = "check"]]
           \/ call' = [call EXCEPT ![c] = NoCall]
    BY <1>2 DEF Admit, stores, history
  <2>2. c \notin Ops /\ call[c].op \in Ops
    BY <1>a, <2>1 DEF CallsOK
  <2> DEFINE r == [call[c] EXCEPT !.pc = "check"]
  <2>3. /\ r.pc = "check" /\ r.op = call[c].op
        /\ {"pc", "op", "queued", "displaced"} \subseteq DOMAIN r
    BY <1>d
  <2>4. call' = [call EXCEPT ![c] = r] \/ call' = [call EXCEPT ![c] = NoCall]
    BY <2>1
  <2> HIDE DEF r
  <2>5. CallsOK' /\ \A d \in Clients \cup Ops : d # c => call'[d] = call[d]
    <3>1. CASE call' = [call EXCEPT ![c] = r]
      BY <1>a, <2>1, <2>3, <3>1, OneCall
    <3>2. CASE call' = [call EXCEPT ![c] = NoCall]
      BY <1>a, <1>d, <3>2, OneCall
    <3>3. QED
      BY <2>4, <3>1, <3>2
  <2>6. HeldTypes'
    BY <1>a, <1>c, <2>1, <2>5
  <2>7. \A x \in Ops : call'[x] = call[x]
    BY <2>2, <2>5
  <2>8. QED
    BY <1>a, <1>b, <2>1, <2>6, <2>7, StaysHeld DEF Somewhere
<1>e. ASSUME Refuse(c)
      PROVE  /\ CallsOK' /\ \A d \in Clients \cup Ops : d # c => call'[d] = call[d]
             /\ DOMAIN status' = Ops
             /\ \A o \in Ops : o # c => status'[o] = status[o]
             /\ c \in Ops => status'[c] = "rejected"
  <2>1. call' = [call EXCEPT ![c] = NoCall]
    BY <1>e DEF Refuse
  <2>2. CallsOK' /\ \A d \in Clients \cup Ops : d # c => call'[d] = call[d]
    BY <1>a, <1>d, <2>1, OneCall
  <2>3. status' = IF c \in Ops THEN [status EXCEPT ![c] = "rejected"] ELSE status
    BY <1>e DEF Refuse
  <2>4. QED
    BY <1>a, <2>2, <2>3
<1>3. CASE Check(c)
  <2> DEFINE o == call[c].op
  <2>1. CASE Refuse(c) /\ UNCHANGED <<outstanding, forsaken>>
    <3>1. HeldTypes'
      BY <1>a, <1>c, <1>e, <2>1
    <3>2. ASSUME NEW x \in Ops, status'[x] \in Pending
          PROVE  x # c /\ call'[x] = call[x] /\ status'[x] = status[x]
      BY <1>e, <2>1, <3>2 DEF Pending
    <3>3. QED
      BY <1>a, <1>b, <1>e, <2>1, <3>1, <3>2, StaysHeld DEF Somewhere
  <2>2. CASE /\ call[c].pc = "check" /\ call' = [call EXCEPT ![c].pc = "count"]
             /\ UNCHANGED <<outstanding, status, forsaken>>
    <3> DEFINE r == [call[c] EXCEPT !.pc = "count"]
    <3>1. /\ r.pc = "count" /\ r.op = call[c].op /\ call' = [call EXCEPT ![c] = r]
          /\ {"pc", "op", "queued", "displaced"} \subseteq DOMAIN r
      BY <1>d, <2>2
    <3>x. call[c].op \in Ops /\ call[c].pc # "idle"
      BY <1>a, <2>2 DEF CallsOK
    <3> HIDE DEF r
    <3>2. CallsOK' /\ \A d \in Clients \cup Ops : d # c => call'[d] = call[d]
      BY <1>a, <3>1, <3>x, OneCall
    <3>3. HeldTypes'
      BY <1>a, <1>c, <2>2, <3>2
    <3>4. call'[c].pc = "count"
      BY <1>a, <3>1 DEF CallsOK
    <3>5. \A x \in Ops : call[x].pc # "idle" => call'[x].pc # "idle"
      BY <3>2, <3>4
    <3>6. QED
      BY <1>a, <1>b, <2>2, <3>3, <3>5, StaysHeld DEF Somewhere
  <2>3. CASE \E p \in Conflicting(outstanding, o) :
               /\ outstanding' = Removed(outstanding, p)
               /\ call' = [call EXCEPT ![c].pc = "replace", ![c].displaced = p]
               /\ forsaken' = forsaken \cup { q \in {p} : ~Queued(outstanding', q) }
               /\ call[c].pc = "check" /\ UNCHANGED status
    <3>1. PICK p \in Conflicting(outstanding, o) :
               /\ outstanding' = Removed(outstanding, p)
               /\ call' = [call EXCEPT ![c].pc = "replace", ![c].displaced = p]
               /\ forsaken' = forsaken \cup { q \in {p} : ~Queued(outstanding', q) }
               /\ call[c].pc = "check" /\ UNCHANGED status
      BY <2>3
    <3>2. p \in Ops
      BY <1>a, ConflictingIsQueued
    <3> DEFINE r == [call[c] EXCEPT !.pc = "replace", !.displaced = p]
    <3>3. /\ r.pc = "replace" /\ r.op = call[c].op /\ call' = [call EXCEPT ![c] = r]
          /\ {"pc", "op", "queued", "displaced"} \subseteq DOMAIN r /\ r.displaced = p
      <4>1. call' = [call EXCEPT ![c] = r]
        BY <1>a, <3>1 DEF CallsOK
      <4>2. QED
        BY <1>d, <4>1
    <3>x. call[c].op \in Ops /\ call[c].pc # "idle"
      BY <1>a, <3>1 DEF CallsOK
    <3> HIDE DEF r
    <3>4. CallsOK' /\ \A d \in Clients \cup Ops : d # c => call'[d] = call[d]
      BY <1>a, <3>2, <3>3, <3>x, OneCall
    <3>5. /\ QueueOK(outstanding')
          /\ \A x \in Ops : x # p => InQueue(outstanding', x) = InQueue(outstanding, x)
      BY <1>a, <3>1, InQueueRemoved
    <3>6. HeldTypes'
      BY <1>a, <1>c, <3>4, <3>5
    <3>7. call'[c].pc = "replace"
      BY <1>a, <3>3 DEF CallsOK
    <3>8. \A x \in Ops : call[x].pc # "idle" => call'[x].pc # "idle"
      BY <3>4, <3>7
    <3>9. \A x \in Ops : Queued(outstanding, x) => Queued(outstanding', x) \/ x \in forsaken'
      <4> SUFFICES ASSUME NEW x \in Ops, Queued(outstanding, x)
                   PROVE  Queued(outstanding', x) \/ x \in forsaken'
        OBVIOUS
      <4>1. CASE x = p
        BY <3>1, <4>1
      <4>2. CASE x # p
        <5>1. InQueue(outstanding', x) = InQueue(outstanding, x)
          BY <3>5, <4>2
        <5>2. (InQueue(outstanding, x) > 0 <=> Queued(outstanding, x))
              /\ (InQueue(outstanding', x) > 0 <=> Queued(outstanding', x))
          BY <1>a, <3>5, BacklogOf
        <5>3. QED
          BY <5>1, <5>2
      <4>3. QED
        BY <4>1, <4>2
    <3>10. forsaken \subseteq forsaken'
      BY <3>1
    <3>11. QED
      BY <1>a, <1>b, <3>1, <3>6, <3>8, <3>9, <3>10, StaysHeld DEF Somewhere
  <2>4. CASE \E p \in Conflicting(outstanding, o) :
               /\ outstanding' = Added(Removed(outstanding, p), p)
               /\ Refuse(c) /\ UNCHANGED forsaken
    <3>1. PICK p \in Conflicting(outstanding, o) :
               /\ outstanding' = Added(Removed(outstanding, p), p)
               /\ Refuse(c) /\ UNCHANGED forsaken
      BY <2>4
    <3>2. p \in Ops
      BY <1>a, ConflictingIsQueued
    <3> DEFINE q == Removed(outstanding, p)
    <3>3. /\ QueueOK(q)
          /\ \A x \in Ops : x # p => InQueue(q, x) = InQueue(outstanding, x)
      BY <1>a, InQueueRemoved
    <3>4. outstanding' = Added(q, p)
      BY <3>1
    <3> HIDE DEF q
    <3>5. /\ QueueOK(outstanding')
          /\ \A x \in Ops : InQueue(outstanding', x) = InQueue(q, x) + (IF x = p THEN 1 ELSE 0)
      BY <3>2, <3>3, <3>4, InQueueAdded
    <3>6. HeldTypes'
      BY <1>c, <1>e, <3>1, <3>5
    <3>7. \A x \in Ops : Queued(outstanding, x) => Queued(outstanding', x)
      <4> SUFFICES ASSUME NEW x \in Ops, Queued(outstanding, x) PROVE Queued(outstanding', x)
        OBVIOUS
      <4>1. /\ InQueue(outstanding, x) > 0 /\ InQueue(outstanding, x) \in Nat
            /\ InQueue(q, x) \in Nat
            /\ InQueue(outstanding', x) > 0 => Queued(outstanding', x)
        BY <1>a, <3>3, <3>5, BacklogOf
      <4>2. QED
        BY <3>3, <3>5, <4>1
    <3>8. ASSUME NEW x \in Ops, status'[x] \in Pending
          PROVE  x # c /\ call'[x] = call[x] /\ status'[x] = status[x]
      BY <1>e, <3>1, <3>8 DEF Pending
    <3>9. QED
      BY <1>a, <1>b, <1>e, <3>1, <3>6, <3>7, <3>8, StaysHeld DEF Somewhere
  <2>5. QED
    BY <1>3, <2>1, <2>2, <2>3, <2>4 DEF Check, stores
<1>4. CASE Replace(c)
  <2> DEFINE r == [call[c] EXCEPT !.pc = "count"]
  <2>1. /\ call[c].pc = "replace" /\ UNCHANGED <<outstanding, status, forsaken>>
        /\ call' = [call EXCEPT ![c] = r]
    BY <1>4 DEF Replace, stores, history
  <2>2. /\ r.pc = "count" /\ r.op = call[c].op
        /\ {"pc", "op", "queued", "displaced"} \subseteq DOMAIN r
    BY <1>d
  <2>x. call[c].op \in Ops /\ call[c].pc # "idle"
    BY <1>a, <2>1 DEF CallsOK
  <2> HIDE DEF r
  <2>3. CallsOK' /\ \A d \in Clients \cup Ops : d # c => call'[d] = call[d]
    BY <1>a, <2>1, <2>2, <2>x, OneCall
  <2>4. HeldTypes'
    BY <1>a, <1>c, <2>1, <2>3
  <2>5. call'[c].pc = "count"
    BY <1>a, <2>1, <2>2 DEF CallsOK
  <2>6. \A x \in Ops : call[x].pc # "idle" => call'[x].pc # "idle"
    BY <2>3, <2>5
  <2>7. QED
    BY <1>a, <1>b, <2>1, <2>4, <2>6, StaysHeld DEF Somewhere
<1>5. CASE Queue(c)
  <2> DEFINE o == call[c].op
  <2>1. /\ call[c].pc = "count" /\ outstanding' = Added(outstanding, o)
        /\ status' = [status EXCEPT ![o] = "not_submitted"]
        /\ call' = [call EXCEPT ![c] = NoCall] /\ forsaken' = forsaken \ {o}
    BY <1>5 DEF Queue
  <2>2. o \in Ops /\ (c \in Ops => o = c)
    BY <1>a, <2>1 DEF CallsOK
  <2>3. CallsOK' /\ \A d \in Clients \cup Ops : d # c => call'[d] = call[d]
    BY <1>a, <1>d, <2>1, OneCall
  <2> HIDE DEF o
  <2>4. /\ QueueOK(outstanding')
        /\ \A x \in Ops : InQueue(outstanding', x)
                            = InQueue(outstanding, x) + (IF x = o THEN 1 ELSE 0)
    BY <1>a, <2>1, <2>2, InQueueAdded
  <2>5. HeldTypes'
    BY <1>c, <2>3, <2>4
  <2>6. Queued(outstanding', o) /\ \A x \in Ops : Queued(outstanding, x) => Queued(outstanding', x)
    <3>1. ASSUME NEW x \in Ops, Queued(outstanding, x) \/ x = o PROVE Queued(outstanding', x)
      <4>1. /\ InQueue(outstanding, x) > 0 <=> Queued(outstanding, x)
            /\ InQueue(outstanding, x) \in Nat
            /\ InQueue(outstanding', x) > 0 => Queued(outstanding', x)
        BY <1>a, <2>4, BacklogOf
      <4>2. QED
        BY <2>4, <3>1, <4>1
    <3>2. QED
      BY <2>2, <3>1
  <2>7. ASSUME NEW x \in Ops, status'[x] \in Pending
        PROVE  \/ Queued(outstanding', x)
               \/ x # o /\ x # c /\ call'[x] = call[x] /\ status'[x] = status[x]
    BY <1>a, <2>1, <2>2, <2>3, <2>6, <2>7
  <2>8. DOMAIN status' = Ops
    BY <1>a, <2>1
  <2>9. QED
    BY <1>a, <1>b, <2>1, <2>5, <2>6, <2>7, <2>8, StaysHeld DEF Somewhere
<1>6. CASE StakeReadFails(c)
  <2>1. /\ call' = [call EXCEPT ![c] = NoCall] /\ forsaken' = forsaken \cup ({c} \cap Ops)
        /\ UNCHANGED <<outstanding, status>>
    BY <1>6 DEF StakeReadFails, stores
  <2>2. CallsOK' /\ \A d \in Clients \cup Ops : d # c => call'[d] = call[d]
    BY <1>a, <1>d, <2>1, OneCall
  <2>3. HeldTypes'
    BY <1>a, <1>c, <2>1, <2>2
  <2>4. \A x \in Ops : x \in forsaken' \/ (x # c /\ call'[x] = call[x])
    BY <2>1, <2>2
  <2>5. QED
    BY <1>a, <1>b, <2>1, <2>3, <2>4, StaysHeld DEF Somewhere
<1>7. QED
  BY <1>1, <1>2, <1>3, <1>4, <1>5, <1>6 DEF CallStep

\* A step of the executor: the ops stay with it, are called back, or are judged.
LEMMA BundleHeld == ASSUME HeldInv, NEW b \in executing, BundleStep(b) PROVE HeldInv'
<1>a. /\ HeldTypes /\ CallsOK /\ ExecutingOK /\ DOMAIN status = Ops /\ b.ops \in Seq(Ops)
  BY DEF HeldInv, HeldTypes, ExecutingOK
<1>b. OpsOf(b.ops) \subseteq Ops
  BY <1>a DEF OpsOf
<1>1. CASE MarkSubmitted(b)
  <2> DEFINE d == [b EXCEPT !.stage = "submitted"]
  <2>1. /\ executing' = (executing \ {b}) \cup {d}
        /\ status' = [o \in Ops |-> IF o \in OpsOf(b.ops) THEN "submitted" ELSE status[o]]
        /\ UNCHANGED <<outstanding, call, pass, forsaken>>
    BY <1>1 DEF MarkSubmitted, history
  <2>2. d.ops = b.ops /\ {"pass", "n", "ops", "stage"} \subseteq DOMAIN d
    BY <1>a DEF ExecutingOK
  <2> HIDE DEF d
  <2>3. IsFiniteSet((executing \ {b}) \cup {d})
    BY <1>a, FS_RemoveElement, FS_AddElement DEF ExecutingOK
  <2>4. ExecutingOK'
    BY <1>a, <2>1, <2>2, <2>3 DEF ExecutingOK
  <2>5. HeldTypes'
    BY <1>a, <2>1, <2>4 DEF HeldTypes, HandOK, NoneBetween, CallsOK
  <2>6. \A x \in Ops : /\ (\E e \in executing : x \in OpsOf(e.ops)) => \E e \in executing' : x \in OpsOf(e.ops)
                       /\ x \in OpsOf(b.ops) => \E e \in executing' : x \in OpsOf(e.ops)
    BY <2>1, <2>2
  <2>7. \A x \in Ops : x \notin OpsOf(b.ops) => status'[x] = status[x]
    BY <2>1
  <2>8. DOMAIN status' = Ops
    BY <2>1
  <2>9. QED
    BY <2>1, <2>5, <2>6, <2>7, <2>8, StaysHeld DEF Somewhere
<1>c. ASSUME executing' = executing \ {b}, UNCHANGED <<outstanding, pass>>, CallsOK'
      PROVE  HeldTypes'
  <2>1. IsFiniteSet(executing \ {b})
    BY <1>a, FS_RemoveElement DEF ExecutingOK
  <2>2. QED
    BY <1>a, <1>c, <2>1 DEF HeldTypes, HandOK, NoneBetween, ExecutingOK
<1>d. ASSUME executing' = executing \ {b}, UNCHANGED <<outstanding, pass, call, forsaken>>,
             NEW v, v \notin Pending,
             status' = [o \in Ops |-> IF o \in OpsOf(b.ops) THEN v ELSE status[o]]
      PROVE  HeldInv'
  <2>1. HeldTypes'
    BY <1>a, <1>c, <1>d DEF CallsOK
  <2>2. \A x \in Ops : status'[x] \in Pending => status'[x] = status[x] /\ x \notin OpsOf(b.ops)
    BY <1>d
  <2>3. DOMAIN status' = Ops
    BY <1>d
  <2>4. \A x \in Ops : x \notin OpsOf(b.ops) =>
          ((\E e \in executing : x \in OpsOf(e.ops)) => \E e \in executing' : x \in OpsOf(e.ops))
    BY <1>d
  <2>5. QED
    BY <1>d, <2>1, <2>2, <2>3, <2>4, StaysHeld DEF Somewhere
<1>2. CASE Requeue(b)
  <2>1. /\ executing' = executing \ {b} /\ Resubmit(OpsOf(b.ops))
        /\ UNCHANGED <<outstanding, pass, status, forsaken>>
    BY <1>2 DEF Requeue, history
  <2>2. /\ CallsOK'
        /\ \A o \in Ops : InCall(call', o) = IF o \in OpsOf(b.ops) THEN 1 ELSE InCall(call, o)
    BY <1>a, <1>b, <2>1, ResubmitCalls
  <2>3. HeldTypes'
    BY <1>c, <2>1, <2>2
  <2>4. \A x \in Ops : /\ x \in OpsOf(b.ops) => call'[x].pc # "idle"
                       /\ call[x].pc # "idle" => call'[x].pc # "idle"
    BY <2>2 DEF InCall
  <2>5. \A x \in Ops : x \notin OpsOf(b.ops) =>
          ((\E e \in executing : x \in OpsOf(e.ops)) => \E e \in executing' : x \in OpsOf(e.ops))
    BY <2>1
  <2>6. QED
    BY <1>a, <2>1, <2>3, <2>4, <2>5, StaysHeld DEF Somewhere
<1>3. CASE Drop(b)
  BY <1>3, <1>d DEF Drop, history, Pending
<1>4. CASE Settle(b)
  BY <1>4, <1>d DEF Settle, history, Pending
<1>5. QED
  BY <1>1, <1>2, <1>3, <1>4 DEF BundleStep

\* The pass reports nothing.
LEMMA PassIsSilent == ASSUME PassStep PROVE UNCHANGED status /\ forsaken \subseteq forsaken'
<1>1. CASE StartPass \/ SetupBundle \/ Finish \/ SelectNothing
  BY <1>1 DEF StartPass, SetupBundle, Finish, SelectNothing, history
<1>2. CASE SelectCarried \/ SelectPopped
  BY <1>2 DEF SelectCarried, SelectPopped, Judge
<1>3. CASE ValidationFails \/ Validated \/ ReadDeposit \/ DepositReadFails
  BY <1>3 DEF ValidationFails, Validated, ReadDeposit, DepositReadFails, history
<1>4. CASE SkipUnsponsored \/ Defer \/ Accept \/ HandOver \/ HandOverFails \/ BundleReturned
  BY <1>4 DEF SkipUnsponsored, Defer, Accept, HandOver, HandOverFails, BundleReturned, history
<1>5. QED
  BY <1>1, <1>2, <1>3, <1>4 DEF PassStep

\* Nothing is pending at first.
LEMMA HeldInit == Init => HeldInv
<1> SUFFICES ASSUME Init PROVE HeldInv
  OBVIOUS
<1>1. QueueOK(outstanding)
  BY EmptyQueueOK DEF Init
<1>2. HandOK /\ NoneBetween
  BY DEF Init, NoPass, PassFields, HandOK, NoneBetween
<1>3. ExecutingOK
  BY FS_EmptySet DEF Init, ExecutingOK
<1>4. CallsOK
  BY DEF Init, NoCall, CallsOK
<1>5. DOMAIN status = Ops /\ AcceptedIsHeld
  BY DEF Init, AcceptedIsHeld
<1>6. QED
  BY <1>1, <1>2, <1>3, <1>4, <1>5 DEF HeldInv, HeldTypes

\* No step loses it.
LEMMA HeldNext == HeldInv /\ [Next]_vars => HeldInv'
<1> SUFFICES ASSUME HeldInv, [Next]_vars PROVE HeldInv'
  OBVIOUS
<1>1. CASE UNCHANGED vars
  BY <1>1 DEF vars, stores, history, counters, HeldInv, HeldTypes, HandOK, NoneBetween,
              ExecutingOK, CallsOK, AcceptedIsHeld, Copies
<1>2. CASE PassStep
  <2>1. HeldTypes' /\ \A o \in Ops : Conserved(o)
    BY <1>2, PassHeld DEF HeldInv
  <2>2. QED
    BY <1>2, <2>1, PassIsSilent DEF HeldInv, AcceptedIsHeld, Conserved
<1>3. QED
  BY <1>1, <1>2, CallHeld, BundleHeld DEF Next

\* What the monitor reports as pending is held by the queue, the pass, the
\* executor or a resubmission, for any number of requests, passes and faults.
THEOREM AcceptedAlwaysHeld == Spec => []AcceptedIsHeld
<1>1. HeldInv => AcceptedIsHeld
  BY DEF HeldInv
<1>2. QED
  BY <1>1, HeldInit, HeldNext, PTL DEF Spec

\* A step of process neither loses an op nor makes one of it two, whatever is
\* popped, carried, handed back, packed, resubmitted or given up meanwhile.
THEOREM PassAlwaysConserves == Spec => PassConserves
<1> DEFINE A == pass' # pass =>
       \A o \in Ops : /\ Copies(o)' <= Copies(o)
                      /\ Copies(o) > 0 => Copies(o)' > 0 \/ o \in forsaken'
<1>1. HeldInv /\ [Next]_vars => [A]_vars
  <2> SUFFICES ASSUME HeldInv, Next, pass' # pass
               PROVE  \A o \in Ops : /\ Copies(o)' <= Copies(o)
                                     /\ Copies(o) > 0 => Copies(o)' > 0 \/ o \in forsaken'
    OBVIOUS
  <2>1. PassStep
    <3>1. ASSUME NEW c, CallStep(c) \/ \E o \in Ops : Receive(c, o) PROVE UNCHANGED pass
      BY <3>1 DEF CallStep, Receive, Admit, Check, Replace, Queue, StakeReadFails
    <3>2. ASSUME NEW b, BundleStep(b) PROVE UNCHANGED pass
      BY <3>2 DEF BundleStep, MarkSubmitted, Requeue, Drop, Settle
    <3>3. QED
      BY <3>1, <3>2 DEF Next
  <2>2. QED
    BY <2>1, PassHeld DEF HeldInv, Conserved
<1>2. QED
  BY <1>1, HeldInit, HeldNext, PTL DEF Spec, PassConserves

-----------------------------------------------------------------------------
(* What a bundle may hold.                                                 *)

\* Only an accepted op makes a bundle that was not there before.
LEMMA WhatIsPacked ==
  ASSUME HeldTypes, [Next]_vars, NEW ops \in Bundles'
  PROVE  \/ ops \in Bundles
         \/ ops = <<>>
         \/ Accept /\ ops = Append(pass.bundle, pass.hand)
<1>a. PassFields \subseteq DOMAIN pass
  BY DEF HeldTypes, HandOK
<1>b. ASSUME NEW o PROVE /\ "bundle" \in DOMAIN Sponsored(pass, o)
                         /\ Sponsored(pass, o).bundle = pass.bundle
  BY <1>a DEF Sponsored, PassFields
<1>c. ASSUME UNCHANGED executing, pass'.bundle \in {pass.bundle, <<>>}
      PROVE  ops \in Bundles \/ ops = <<>>
  BY <1>c DEF Bundles
<1>1. CASE UNCHANGED vars
  BY <1>1, <1>c DEF vars
<1>2. CASE StartPass \/ SetupBundle \/ Finish \/ SelectNothing \/ DepositReadFails \/ ReadDeposit \/ BundleReturned
  <2>1. UNCHANGED executing
    BY <1>2 DEF StartPass, SetupBundle, Finish, SelectNothing, DepositReadFails, ReadDeposit, BundleReturned
  <2>2. pass'.bundle \in {pass.bundle, <<>>}
    <3>1. CASE StartPass \/ Finish
      BY <3>1 DEF StartPass, Finish, NoPass
    <3>2. CASE SetupBundle
      BY <1>a, <3>2 DEF SetupBundle, PassFields
    <3>3. CASE SelectNothing \/ DepositReadFails \/ ReadDeposit \/ BundleReturned
      BY <1>a, <3>3 DEF SelectNothing, DepositReadFails, ReadDeposit, BundleReturned, PassFields
    <3>4. QED
      BY <1>2, <3>1, <3>2, <3>3
  <2>3. QED
    BY <1>c, <2>1, <2>2
<1>3. CASE SelectCarried \/ SelectPopped
  <2>1. pass'.bundle = pass.bundle /\ UNCHANGED executing
    BY <1>3, <1>a DEF SelectCarried, SelectPopped, Judge, PassFields
  <2>2. QED
    BY <1>c, <2>1
<1>4. CASE ValidationFails \/ Validated \/ SkipUnsponsored
  <2>1. pass'.bundle = pass.bundle /\ UNCHANGED executing
    BY <1>4, <1>a DEF ValidationFails, Validated, SkipUnsponsored, HandBack, PassFields
  <2>2. QED
    BY <1>c, <2>1
<1>5. CASE Defer
  <2> DEFINE p == Sponsored(pass, pass.hand)
  <2>1. pass' = [p EXCEPT !.carry = pass.hand, !.hand = NoOp, !.pc = "bundled"] /\ UNCHANGED executing
    BY <1>5 DEF Defer
  <2>2. p.bundle = pass.bundle
    BY <1>b
  <2> HIDE DEF p
  <2>3. pass'.bundle = pass.bundle
    BY <2>1, <2>2
  <2>4. QED
    BY <1>c, <2>1, <2>3
<1>6. CASE Accept
  <2> DEFINE p == Sponsored(pass, pass.hand)
  <2>1. /\ pass' = [p EXCEPT !.carry = NoOp, !.hand = NoOp, !.pc = "select",
                             !.bundle = Append(@, pass.hand)]
        /\ UNCHANGED executing
    BY <1>6 DEF Accept
  <2>2. "bundle" \in DOMAIN p /\ p.bundle = pass.bundle
    BY <1>b
  <2> HIDE DEF p
  <2>3. pass'.bundle = Append(pass.bundle, pass.hand)
    BY <2>1, <2>2
  <2>4. QED
    BY <1>6, <2>1, <2>3 DEF Bundles
<1>7. CASE HandOver
  <2>1. CASE pass.bundle = <<>>
    <3>1. pass'.bundle = pass.bundle /\ UNCHANGED executing
      BY <1>7, <1>a, <2>1 DEF HandOver, PassFields
    <3>2. QED
      BY <1>c, <3>1
  <2>2. CASE pass.bundle # <<>>
    <3> DEFINE b == [pass |-> passes, n |-> pass.n, ops |-> pass.bundle, stage |-> "processing"]
    <3>1. executing' = executing \cup {b} /\ pass'.bundle = <<>>
      BY <1>7, <1>a, <2>2 DEF HandOver, NextBundle, PassFields
    <3>2. b.ops = pass.bundle
      OBVIOUS
    <3> HIDE DEF b
    <3>3. QED
      BY <3>1, <3>2 DEF Bundles
  <2>3. QED
    BY <2>1, <2>2
<1>8. CASE HandOverFails
  <2>1. pass'.bundle = <<>> /\ UNCHANGED executing
    BY <1>8, <1>a DEF HandOverFails, NextBundle, PassFields
  <2>2. QED
    BY <1>c, <2>1
<1>9. ASSUME NEW c, CallStep(c) \/ \E o \in Ops : Receive(c, o)
      PROVE  ops \in Bundles \/ ops = <<>>
  <2>1. UNCHANGED <<pass, executing>>
    BY <1>9 DEF CallStep, Receive, Admit, Check, Replace, Queue, StakeReadFails
  <2>2. QED
    BY <1>c, <2>1
<1>10. ASSUME NEW b \in executing, BundleStep(b) PROVE ops \in Bundles \/ ops = <<>>
  <2>1. CASE MarkSubmitted(b)
    <3> DEFINE d == [b EXCEPT !.stage = "submitted"]
    <3>1. executing' = (executing \ {b}) \cup {d} /\ UNCHANGED pass
      BY <2>1 DEF MarkSubmitted
    <3>2. d.ops = b.ops
      BY DEF HeldTypes, ExecutingOK
    <3> HIDE DEF d
    <3>3. QED
      BY <3>1, <3>2 DEF Bundles
  <2>2. CASE executing' \subseteq executing /\ UNCHANGED pass
    BY <2>2 DEF Bundles
  <2>3. QED
    BY <1>10, <2>1, <2>2 DEF BundleStep, Requeue, Drop, Settle
<1>11. QED
  BY <1>1, <1>2, <1>3, <1>4, <1>5, <1>6, <1>7, <1>8, <1>9, <1>10 DEF Next, PassStep

\* A bundle holds ops, now and next.
LEMMA BundlesHoldOps == ASSUME HeldTypes, NEW ops \in Bundles PROVE ops \in Seq(Ops)
BY DEF HeldTypes, HandOK, ExecutingOK, Bundles

Capped(ops) == Len(ops) > 1 => ~Exceeds(ops)

AllCapped == \A ops \in Bundles : Capped(ops)

\* No step packs past a cap.
LEMMA CapsNext == ASSUME HeldTypes, AllCapped, [Next]_vars PROVE AllCapped'
<1> SUFFICES ASSUME NEW ops \in Bundles' PROVE Capped(ops)
  BY DEF AllCapped
<1>1. CASE ops \in Bundles
  BY <1>1 DEF AllCapped
<1>2. CASE ops = <<>>
  BY <1>2 DEF Capped
<1>3. CASE Accept /\ ops = Append(pass.bundle, pass.hand)
  <2>1. pass.bundle = <<>> \/ ~Exceeds(ops)
    BY <1>3 DEF Accept
  <2>2. CASE pass.bundle = <<>>
    <3>1. Len(ops) = 1
      BY <1>3, <2>2
    <3>2. QED
      BY <3>1 DEF Capped
  <2>3. QED
    BY <2>1, <2>2 DEF Capped
<1>4. QED
  BY <1>1, <1>2, <1>3, WhatIsPacked

\* The first bundle is empty.
LEMMA CapsInit == Init => AllCapped
<1> SUFFICES ASSUME Init PROVE AllCapped
  OBVIOUS
<1>1. Bundles = {<<>>}
  BY DEF Init, NoPass, Bundles
<1>2. QED
  BY <1>1 DEF AllCapped, Capped

\* Division keeps the order.
LEMMA DivisionIsMonotone ==
  ASSUME NEW a \in Nat, NEW b \in Nat, NEW m \in Nat \ {0}, a <= b
  PROVE  (a \div m) * m <= (b \div m) * m
<1> DEFINE x == a \div m
           y == b \div m
<1>1. x \in Nat /\ y \in Nat
  OBVIOUS
<1>2. a = m * x + (a % m) /\ b = m * y + (b % m) /\ a % m \in Nat /\ b % m \in Nat /\ b % m < m
  OBVIOUS
<1> HIDE DEF x, y
<1>3. x <= y
  <2> SUFFICES ASSUME x >= y + 1 PROVE FALSE
    BY <1>1
  <2>1. m * x >= m * (y + 1)
    BY <1>1
  <2>2. m * (y + 1) = m * y + m
    BY <1>1
  <2>3. m * x \in Nat /\ m * y \in Nat
    BY <1>1
  <2>4. QED
    BY <1>2, <2>1, <2>2, <2>3
<1>4. x * m <= y * m
  BY <1>1, <1>3
<1>5. QED
  BY <1>4 DEF x, y

\* So does rounding up.
LEMMA RoundingIsMonotone ==
  ASSUME NEW a \in Nat, NEW b \in Nat, NEW m \in Nat \ {0}, a <= b
  PROVE  RoundUp(a, m) <= RoundUp(b, m)
<1>1. a + m - 1 \in Nat /\ b + m - 1 \in Nat /\ a + m - 1 <= b + m - 1
  OBVIOUS
<1>2. QED
  BY <1>1, DivisionIsMonotone DEF RoundUp

\* Gas and bytes of a bundle are numbers.
LEMMA CostsAreNatural ==
  ASSUME NEW ops \in Seq(Ops)
  PROVE  GasWithOverhead(ops) \in Nat /\ Bytes(ops) \in Nat
<1>1. DOMAIN ops = 1 .. Len(ops) /\ IsFiniteSet(DOMAIN ops) /\ \A i \in DOMAIN ops : ops[i] \in Ops
  BY LenProperties, ElementOfSeq, FS_Interval
<1> DEFINE f == [i \in DOMAIN ops |-> UserOp[ops[i]].gas + (IF UserOp[ops[i]].authorizes THEN 40000 ELSE 0)]
           g == [i \in DOMAIN ops |-> UserOp[ops[i]].bytes]
<1>2. \A i \in DOMAIN f : f[i] \in Nat
  BY <1>1, OpsAssumption
<1>3. \A i \in DOMAIN g : g[i] \in Nat
  BY <1>1, OpsAssumption
<1>4. Total(f) \in Nat /\ Total(g) \in Nat
  <2>1. DOMAIN f = DOMAIN ops /\ DOMAIN g = DOMAIN ops
    OBVIOUS
  <2> HIDE DEF f, g
  <2>2. QED
    BY <1>1, <1>2, <1>3, <2>1, TotalNatural
<1>5. QED
  BY <1>4 DEF GasWithOverhead, Bytes

\* Every bundle of several ops obeys both caps as it is sent, for any caps, gas
\* and bytes.
THEOREM AlwaysWithinCaps == Spec => []WithinCaps
<1>1. HeldInv /\ AllCapped => WithinCaps
  <2> SUFFICES ASSUME HeldInv, AllCapped, NEW ops \in Bundles, Len(ops) > 1
               PROVE  /\ SentGas(ops) <= RoundUp(GasCeiling, GasLimitRoundingMultiple)
                      /\ Bytes(ops) <= ByteThreshold
    BY DEF WithinCaps
  <2>1. ~Exceeds(ops)
    BY DEF AllCapped, Capped
  <2>2. ops \in Seq(Ops)
    BY BundlesHoldOps DEF HeldInv
  <2>3. GasWithOverhead(ops) \in Nat /\ Bytes(ops) \in Nat
    BY <2>2, CostsAreNatural
  <2>4. GasCeiling \in Nat /\ ByteThreshold \in Nat /\ GasLimitRoundingMultiple \in Nat \ {0}
    BY MempoolAssumption
  <2>5. BundleGasLimit(ops) \in Nat
    BY <2>3 DEF BundleGasLimit, WithMargin
  <2>6. BundleGasLimit(ops) <= GasCeiling /\ Bytes(ops) <= ByteThreshold
    BY <2>1, <2>3, <2>4, <2>5 DEF Exceeds, BundleGasLimit
  <2>7. SentGas(ops) <= RoundUp(GasCeiling, GasLimitRoundingMultiple)
    BY <2>4, <2>5, <2>6, RoundingIsMonotone DEF SentGas
  <2>8. QED
    BY <2>6, <2>7
<1>2. HeldInv /\ AllCapped /\ [Next]_vars => HeldInv' /\ AllCapped'
  BY HeldNext, CapsNext DEF HeldInv
<1>3. Init => HeldInv /\ AllCapped
  BY HeldInit, CapsInit
<1>4. QED
  BY <1>1, <1>2, <1>3, PTL DEF Spec

-----------------------------------------------------------------------------
(* What paymasters pay.                                                    *)

\* What a bundle may take is a number, nothing if it is empty.
LEMMA PrefundsNatural ==
  ASSUME NEW ops \in Seq(Ops), NEW e
  PROVE  /\ Prefunds(ops, e) \in Nat
         /\ ops = <<>> => Prefunds(ops, e) = 0
<1>1. DOMAIN ops = 1 .. Len(ops) /\ IsFiniteSet(DOMAIN ops) /\ \A i \in DOMAIN ops : ops[i] \in Ops
  BY LenProperties, ElementOfSeq, FS_Interval
<1> DEFINE f == [i \in DOMAIN ops |-> IF UserOp[ops[i]].paymaster = e THEN UserOp[ops[i]].prefund ELSE 0]
<1>2. DOMAIN f = DOMAIN ops /\ \A i \in DOMAIN f : f[i] \in Nat
  BY <1>1, OpsAssumption
<1>3. Total(f) = Prefunds(ops, e)
  BY DEF Prefunds
<1> HIDE DEF f
<1>4. ops = <<>> => DOMAIN f = {}
  BY <1>2
<1>5. QED
  BY <1>1, <1>2, <1>3, <1>4, TotalNatural, TotalOfNone

\* An op more may take its prefund from its paymaster.
LEMMA PrefundsAppend ==
  ASSUME NEW ops \in Seq(Ops), NEW o \in Ops, NEW e
  PROVE  Prefunds(Append(ops, o), e)
           = Prefunds(ops, e) + (IF UserOp[o].paymaster = e THEN UserOp[o].prefund ELSE 0)
<1> DEFINE t == Append(ops, o)
           n == Len(ops) + 1
           f == [i \in DOMAIN t |-> IF UserOp[t[i]].paymaster = e THEN UserOp[t[i]].prefund ELSE 0]
           g == [i \in DOMAIN ops |-> IF UserOp[ops[i]].paymaster = e THEN UserOp[ops[i]].prefund ELSE 0]
<1>1. /\ DOMAIN ops = 1 .. Len(ops) /\ Len(ops) \in Nat /\ DOMAIN t = 1 .. n
      /\ t \in Seq(Ops) /\ t[n] = o /\ \A i \in 1 .. Len(ops) : t[i] = ops[i]
  BY AppendProperties, LenProperties
<1> HIDE DEF t
<1>2. \A i \in DOMAIN t : t[i] \in Ops
  BY <1>1, ElementOfSeq
<1>3. /\ DOMAIN f = DOMAIN t /\ n \in DOMAIN f
      /\ f[n] = IF UserOp[o].paymaster = e THEN UserOp[o].prefund ELSE 0
      /\ \A i \in DOMAIN f : f[i] \in Nat
  BY <1>1, <1>2, OpsAssumption
<1>4. [i \in DOMAIN f \ {n} |-> f[i]] = g
  <2>1. DOMAIN f \ {n} = DOMAIN ops
    BY <1>1
  <2>2. \A i \in DOMAIN ops : f[i] = g[i]
    BY <1>1
  <2>3. DOMAIN g = DOMAIN ops
    OBVIOUS
  <2>4. g = [i \in DOMAIN ops |-> g[i]]
    OBVIOUS
  <2> HIDE DEF f, g
  <2>5. [i \in DOMAIN f \ {n} |-> f[i]] = [i \in DOMAIN ops |-> g[i]]
    BY <2>1, <2>2
  <2>6. QED
    BY <2>4, <2>5
<1>5. IsFiniteSet(DOMAIN f)
  BY <1>1, <1>3, FS_Interval
<1>6. Total(f) = Prefunds(t, e) /\ Total(g) = Prefunds(ops, e)
  BY DEF Prefunds
<1> HIDE DEF f, g
<1>7. Total(f) = f[n] + Total(g)
  BY <1>3, <1>4, <1>5, TotalTake
<1>8. Prefunds(ops, e) \in Nat /\ f[n] \in Nat
  BY <1>3, PrefundsNatural
<1>9. Prefunds(t, e) = Prefunds(ops, e) + f[n]
  BY <1>6, <1>7, <1>8
<1>10. QED
  BY <1>3, <1>9 DEF t

\* What the pass remembers of a deposit is no more than the bundle leaves of it.
Budget(p) ==
  \A e \in Entities :
    IF e \in DOMAIN p.deposit
      THEN /\ e \in DOMAIN Deposit /\ p.deposit[e] \in Nat
           /\ p.deposit[e] + Prefunds(p.bundle, e) <= Deposit[e]
      ELSE Prefunds(p.bundle, e) = 0

\* The deposit of the op in hand is asked for once in a bundle.
Asked(p) ==
  /\ p.pc = "deposit" => UserOp[p.hand].paymaster \notin {NoEntity} \cup DOMAIN p.deposit
  /\ p.pc = "sponsor" => UserOp[p.hand].paymaster \in {NoEntity} \cup DOMAIN p.deposit

Covered(ops) ==
  \A e \in Entities : Prefunds(ops, e) <= (IF e \in DOMAIN Deposit THEN Deposit[e] ELSE 0)

AllCovered == \A ops \in Bundles : Covered(ops)

BudgetInv == Budget(pass) /\ Asked(pass)

\* The budget of the bundle stands while the bundle does, or is given up.
LEMMA BudgetStays ==
  ASSUME Budget(pass), HeldTypes, pass'.deposit = pass.deposit,
         pass'.bundle \in {pass.bundle, <<>>}
  PROVE  Budget(pass')
<1>1. \A e : /\ Prefunds(pass.bundle, e) \in Nat
             /\ Prefunds(<<>>, e) = 0
  <2>1. pass.bundle \in Seq(Ops) /\ <<>> \in Seq(Ops)
    BY DEF HeldTypes, HandOK
  <2>2. QED
    BY <2>1, PrefundsNatural
<1>2. \A e \in DOMAIN Deposit : Deposit[e] \in Nat
  BY OpsAssumption
<1>3. QED
  BY <1>1, <1>2 DEF Budget

\* A bundle starts with no deposit read.
LEMMA BudgetStarts ==
  ASSUME NEW p, p.bundle = <<>>, p.deposit = <<>>
  PROVE  Budget(p)
<1>1. \A e : Prefunds(p.bundle, e) = 0
  <2>1. <<>> \in Seq(Ops)
    OBVIOUS
  <2>2. QED
    BY <2>1, PrefundsNatural
<1>2. DOMAIN p.deposit = {}
  OBVIOUS
<1>3. QED
  BY <1>1, <1>2 DEF Budget

\* The prefund of an op is taken from a deposit that suffices.
LEMMA SponsoredLeaves ==
  ASSUME HeldTypes, BudgetInv, pass.pc = "sponsor", DepositSuffices(pass, pass.hand)
  PROVE  LET p == Sponsored(pass, pass.hand)
         IN  /\ PassFields \subseteq DOMAIN p /\ p.bundle = pass.bundle
             /\ DOMAIN p.deposit = DOMAIN pass.deposit
             /\ \A e \in Entities \cap DOMAIN p.deposit :
                  /\ p.deposit[e] \in Nat
                  /\ p.deposit[e] + (IF UserOp[pass.hand].paymaster = e
                                       THEN UserOp[pass.hand].prefund ELSE 0) = pass.deposit[e]
<1> DEFINE p == Sponsored(pass, pass.hand)
           o == pass.hand
<1>1. PassFields \subseteq DOMAIN pass /\ o \in Ops
  BY DEF HeldTypes, HandOK
<1>2. UserOp[o].prefund \in Nat /\ NoEntity \notin Entities
  BY <1>1, OpsAssumption
<1>3. /\ PassFields \subseteq DOMAIN p /\ p.bundle = pass.bundle
      /\ p.deposit = [e \in DOMAIN pass.deposit |->
                        IF e = UserOp[o].paymaster THEN pass.deposit[e] - UserOp[o].prefund
                                                   ELSE pass.deposit[e]]
  BY <1>1 DEF Sponsored, PassFields
<1> HIDE DEF p
<1>4. DOMAIN p.deposit = DOMAIN pass.deposit
  BY <1>3
<1>5. ASSUME NEW e \in Entities \cap DOMAIN p.deposit
      PROVE  /\ p.deposit[e] \in Nat
             /\ p.deposit[e] + (IF UserOp[o].paymaster = e THEN UserOp[o].prefund ELSE 0)
                  = pass.deposit[e]
  <2>1. pass.deposit[e] \in Nat /\ e # NoEntity
    BY <1>2, <1>4 DEF BudgetInv, Budget
  <2>2. CASE e = UserOp[o].paymaster
    <3>1. pass.deposit[e] >= UserOp[o].prefund
      BY <2>1, <2>2 DEF DepositSuffices
    <3>2. p.deposit[e] = pass.deposit[e] - UserOp[o].prefund
      BY <1>3, <1>4, <2>2
    <3>3. QED
      BY <1>2, <2>1, <2>2, <3>1, <3>2
  <2>3. CASE e # UserOp[o].paymaster
    <3>1. p.deposit[e] = pass.deposit[e]
      BY <1>3, <1>4, <2>3
    <3>2. QED
      BY <2>1, <2>3, <3>1
  <2>4. QED
    BY <2>2, <2>3
<1>6. QED
  BY <1>3, <1>4, <1>5 DEF p

\* Every step of the pass keeps its budget.
LEMMA BudgetPass == ASSUME HeldTypes, BudgetInv, PassStep PROVE BudgetInv'
<1>a. /\ PassFields \subseteq DOMAIN pass /\ pass.bundle \in Seq(Ops)
      /\ Budget(pass) /\ Asked(pass)
  BY DEF HeldTypes, HandOK, BudgetInv
<1>b. ASSUME pass'.deposit = pass.deposit, pass'.bundle \in {pass.bundle, <<>>},
             pass'.pc \notin {"deposit", "sponsor"}
      PROVE  BudgetInv'
  BY <1>a, <1>b, BudgetStays DEF BudgetInv, Asked
<1>c. ASSUME pass'.deposit = <<>>, pass'.bundle = <<>>, pass'.pc \notin {"deposit", "sponsor"}
      PROVE  BudgetInv'
  BY <1>c, BudgetStarts DEF BudgetInv, Asked
<1>1. CASE StartPass \/ SetupBundle \/ Finish
  <2>1. pass'.deposit = <<>> /\ pass'.bundle = <<>> /\ pass'.pc \in {"setup", "select", "idle"}
    <3>1. CASE StartPass \/ Finish
      BY <3>1 DEF StartPass, Finish, NoPass
    <3>2. CASE SetupBundle
      BY <1>a, <3>2 DEF SetupBundle, PassFields
    <3>3. QED
      BY <1>1, <3>1, <3>2
  <2>2. QED
    BY <1>c, <2>1
<1>2. CASE SelectNothing \/ DepositReadFails \/ BundleReturned
  <2>1. /\ pass'.deposit = pass.deposit /\ pass'.bundle \in {pass.bundle, <<>>}
        /\ pass'.pc \in {"bundled", "finish"}
    BY <1>2, <1>a DEF SelectNothing, DepositReadFails, BundleReturned, PassFields
  <2>2. QED
    BY <1>b, <2>1
<1>3. CASE SelectCarried \/ SelectPopped
  <2>1. /\ pass'.deposit = pass.deposit /\ pass'.bundle = pass.bundle
        /\ pass'.pc \in {"bundled", "select", "validate"}
    BY <1>3, <1>a DEF SelectCarried, SelectPopped, Judge, PassFields
  <2>2. QED
    BY <1>b, <2>1
<1>d. ASSUME NEW q, HandBack(q) PROVE BudgetInv'
  <2>1. pass'.deposit = pass.deposit /\ pass'.bundle = pass.bundle /\ pass'.pc = "select"
    BY <1>d, <1>a DEF HandBack, PassFields
  <2>2. QED
    BY <1>b, <2>1
<1>4. CASE ValidationFails \/ SkipUnsponsored
  BY <1>4, <1>d DEF ValidationFails, SkipUnsponsored
<1>5. CASE Validated
  <2> DEFINE pm == UserOp[pass.hand].paymaster
  <2>1. CASE HandBack(outstanding)
    BY <1>d, <2>1
  <2>2. CASE pass' = [pass EXCEPT !.pc = IF pm \in {NoEntity} \cup DOMAIN pass.deposit
                                           THEN "sponsor" ELSE "deposit"]
    <3>1. /\ pass'.deposit = pass.deposit /\ pass'.bundle = pass.bundle /\ pass'.hand = pass.hand
          /\ pass'.pc = IF pm \in {NoEntity} \cup DOMAIN pass.deposit THEN "sponsor" ELSE "deposit"
      BY <1>a, <2>2 DEF PassFields
    <3>2. Budget(pass')
      BY <1>a, <3>1, BudgetStays
    <3>3. QED
      BY <3>1, <3>2 DEF BudgetInv, Asked
  <2>3. QED
    BY <1>5, <2>1, <2>2 DEF Validated
<1>6. CASE ReadDeposit
  <2> DEFINE pm == UserOp[pass.hand].paymaster
             D == DOMAIN pass.deposit
  <2>1. /\ pass.pc = "deposit" /\ pass'.pc = "sponsor" /\ pass'.bundle = pass.bundle
        /\ pass'.hand = pass.hand
        /\ pass'.deposit = [e \in D \cup {pm} |-> IF e = pm THEN Deposit[pm] ELSE pass.deposit[e]]
    BY <1>6, <1>a DEF ReadDeposit, PassFields
  <2>2. pm \notin {NoEntity} \cup D /\ pm \in DOMAIN Deposit /\ Deposit[pm] \in Nat
    <3>1. pm \notin {NoEntity} \cup D
      BY <1>a, <2>1 DEF Asked
    <3>2. pass.hand \in Ops
      BY <2>1 DEF HeldTypes, HandOK
    <3>3. QED
      BY <3>1, <3>2, OpsAssumption
  <2> HIDE DEF pm
  <2>3. /\ DOMAIN pass'.deposit = D \cup {pm} /\ pass'.deposit[pm] = Deposit[pm]
        /\ \A e \in D : pass'.deposit[e] = pass.deposit[e]
    BY <2>1, <2>2
  <2>4. Budget(pass')
    BY <1>a, <2>1, <2>2, <2>3 DEF Budget
  <2>5. Asked(pass')
    BY <2>1, <2>3 DEF Asked, pm
  <2>6. QED
    BY <2>4, <2>5 DEF BudgetInv
<1>7. CASE Defer
  <2> DEFINE p == Sponsored(pass, pass.hand)
             due(e) == IF UserOp[pass.hand].paymaster = e THEN UserOp[pass.hand].prefund ELSE 0
  <2>1. /\ pass' = [p EXCEPT !.carry = pass.hand, !.hand = NoOp, !.pc = "bundled"]
        /\ pass.pc = "sponsor" /\ DepositSuffices(pass, pass.hand)
    BY <1>7 DEF Defer
  <2>2. /\ PassFields \subseteq DOMAIN p /\ p.bundle = pass.bundle
        /\ DOMAIN p.deposit = DOMAIN pass.deposit
        /\ \A e \in Entities \cap DOMAIN p.deposit :
             p.deposit[e] \in Nat /\ p.deposit[e] + due(e) = pass.deposit[e]
    BY <2>1, SponsoredLeaves
  <2>3. \A e : due(e) \in Nat
    BY <2>1, OpsAssumption DEF HeldTypes, HandOK
  <2> HIDE DEF p, due
  <2>4. pass'.bundle = pass.bundle /\ pass'.deposit = p.deposit /\ pass'.pc = "bundled"
    BY <2>1, <2>2 DEF PassFields
  <2>5. \A e : Prefunds(pass.bundle, e) \in Nat
    BY <1>a, PrefundsNatural
  <2>6. \A e \in DOMAIN Deposit : Deposit[e] \in Nat
    BY OpsAssumption
  <2>7. Budget(pass')
    BY <1>a, <2>2, <2>3, <2>4, <2>5, <2>6 DEF Budget
  <2>8. QED
    BY <2>4, <2>7 DEF BudgetInv, Asked
<1>8. CASE Accept
  <2> DEFINE p == Sponsored(pass, pass.hand)
             due(e) == IF UserOp[pass.hand].paymaster = e THEN UserOp[pass.hand].prefund ELSE 0
  <2>1. /\ pass' = [p EXCEPT !.carry = NoOp, !.hand = NoOp, !.pc = "select",
                             !.bundle = Append(@, pass.hand)]
        /\ pass.pc = "sponsor" /\ DepositSuffices(pass, pass.hand)
    BY <1>8 DEF Accept
  <2>2. /\ PassFields \subseteq DOMAIN p /\ p.bundle = pass.bundle
        /\ DOMAIN p.deposit = DOMAIN pass.deposit
        /\ \A e \in Entities \cap DOMAIN p.deposit :
             p.deposit[e] \in Nat /\ p.deposit[e] + due(e) = pass.deposit[e]
    BY <2>1, SponsoredLeaves
  <2>3. pass.hand \in Ops /\ \A e : due(e) \in Nat
    BY <2>1, OpsAssumption DEF HeldTypes, HandOK
  <2>4. \A e : Prefunds(Append(pass.bundle, pass.hand), e) = Prefunds(pass.bundle, e) + due(e)
    BY <1>a, <2>3, PrefundsAppend
  <2>5. \A e \in Entities : e \notin DOMAIN pass.deposit => due(e) = 0
    BY <1>a, <2>1, OpsAssumption DEF Asked
  <2> HIDE DEF p, due
  <2>6. /\ pass'.bundle = Append(pass.bundle, pass.hand) /\ pass'.deposit = p.deposit
        /\ pass'.pc = "select"
    BY <2>1, <2>2 DEF PassFields
  <2>7. \A e : Prefunds(pass.bundle, e) \in Nat
    BY <1>a, PrefundsNatural
  <2>8. \A e \in DOMAIN Deposit : Deposit[e] \in Nat
    BY OpsAssumption
  <2>9. Budget(pass')
    <3> SUFFICES ASSUME NEW e \in Entities
                 PROVE  IF e \in DOMAIN pass'.deposit
                          THEN /\ e \in DOMAIN Deposit /\ pass'.deposit[e] \in Nat
                               /\ pass'.deposit[e] + Prefunds(pass'.bundle, e) <= Deposit[e]
                          ELSE Prefunds(pass'.bundle, e) = 0
      BY DEF Budget
    <3>1. Prefunds(pass'.bundle, e) = Prefunds(pass.bundle, e) + due(e)
      BY <2>4, <2>6
    <3>2. CASE e \in DOMAIN pass.deposit
      <4>1. /\ e \in DOMAIN Deposit /\ pass.deposit[e] \in Nat
            /\ pass.deposit[e] + Prefunds(pass.bundle, e) <= Deposit[e]
        BY <1>a, <3>2 DEF Budget
      <4>2. /\ pass'.deposit[e] \in Nat /\ pass'.deposit[e] + due(e) = pass.deposit[e]
            /\ e \in DOMAIN pass'.deposit
        BY <2>2, <2>6, <3>2
      <4>3. QED
        BY <2>3, <2>7, <2>8, <3>1, <4>1, <4>2
    <3>3. CASE e \notin DOMAIN pass.deposit
      BY <1>a, <2>2, <2>5, <2>6, <3>1, <3>3 DEF Budget
    <3>4. QED
      BY <3>2, <3>3
  <2>10. QED
    BY <2>6, <2>9 DEF BudgetInv, Asked
<1>9. CASE HandOver \/ HandOverFails
  <2>1. /\ pass'.deposit = pass.deposit /\ pass'.bundle \in {pass.bundle, <<>>}
        /\ pass'.pc \in {"setup", "returning"}
    BY <1>9, <1>a DEF HandOver, HandOverFails, NextBundle, PassFields
  <2>2. QED
    BY <1>b, <2>1
<1>10. QED
  BY <1>1, <1>2, <1>3, <1>4, <1>5, <1>6, <1>7, <1>8, <1>9 DEF PassStep

\* No other step touches it.
LEMMA BudgetNext == ASSUME HeldTypes, BudgetInv, [Next]_vars PROVE BudgetInv'
<1>1. ASSUME UNCHANGED pass PROVE BudgetInv'
  BY <1>1 DEF BudgetInv
<1>2. ASSUME NEW c, CallStep(c) \/ \E o \in Ops : Receive(c, o) PROVE UNCHANGED pass
  BY <1>2 DEF CallStep, Receive, Admit, Check, Replace, Queue, StakeReadFails
<1>3. ASSUME NEW b, BundleStep(b) PROVE UNCHANGED pass
  BY <1>3 DEF BundleStep, MarkSubmitted, Requeue, Drop, Settle
<1>4. QED
  BY <1>1, <1>2, <1>3, BudgetPass DEF Next, vars

\* What is packed is covered.
LEMMA CoveredNext == ASSUME HeldTypes, BudgetInv, AllCovered, [Next]_vars PROVE AllCovered'
<1> SUFFICES ASSUME NEW ops \in Bundles' PROVE Covered(ops)
  BY DEF AllCovered
<1>a. \A e \in DOMAIN Deposit : Deposit[e] \in Nat
  BY OpsAssumption
<1>1. CASE ops \in Bundles
  BY <1>1 DEF AllCovered
<1>2. CASE ops = <<>>
  <2>1. \A e : Prefunds(ops, e) = 0
    <3>1. <<>> \in Seq(Ops)
      OBVIOUS
    <3>2. QED
      BY <1>2, <3>1, PrefundsNatural
  <2>2. QED
    BY <1>a, <2>1 DEF Covered
<1>3. CASE Accept /\ ops = Append(pass.bundle, pass.hand)
  <2> DEFINE due(e) == IF UserOp[pass.hand].paymaster = e THEN UserOp[pass.hand].prefund ELSE 0
  <2>1. pass.pc = "sponsor" /\ DepositSuffices(pass, pass.hand)
    BY <1>3 DEF Accept
  <2>2. pass.bundle \in Seq(Ops) /\ pass.hand \in Ops
    BY <2>1 DEF HeldTypes, HandOK
  <2>3. \A e : /\ Prefunds(ops, e) = Prefunds(pass.bundle, e) + due(e)
               /\ Prefunds(pass.bundle, e) \in Nat
    BY <1>3, <2>2, PrefundsAppend, PrefundsNatural
  <2>4. UserOp[pass.hand].prefund \in Nat
    BY <2>2, OpsAssumption
  <2> SUFFICES ASSUME NEW e \in Entities
               PROVE  Prefunds(ops, e) <= (IF e \in DOMAIN Deposit THEN Deposit[e] ELSE 0)
    BY DEF Covered
  <2>5. CASE e \in DOMAIN pass.deposit
    <3>1. /\ e \in DOMAIN Deposit /\ pass.deposit[e] \in Nat
          /\ pass.deposit[e] + Prefunds(pass.bundle, e) <= Deposit[e]
      BY <2>5 DEF BudgetInv, Budget
    <3>2. due(e) <= pass.deposit[e] /\ due(e) \in Nat
      BY <2>1, <2>4, <2>5, <3>1, OpsAssumption DEF DepositSuffices
    <3> HIDE DEF due
    <3>3. QED
      BY <1>a, <2>3, <3>1, <3>2
  <2>6. CASE e \notin DOMAIN pass.deposit
    <3>1. Prefunds(pass.bundle, e) = 0
      BY <2>6 DEF BudgetInv, Budget
    <3>2. due(e) = 0
      BY <2>1, <2>6, OpsAssumption DEF BudgetInv, Asked
    <3> HIDE DEF due
    <3>3. QED
      BY <1>a, <2>3, <3>1, <3>2
  <2>7. QED
    BY <2>5, <2>6
<1>4. QED
  BY <1>1, <1>2, <1>3, WhatIsPacked

\* Nothing is packed at first.
LEMMA BudgetInit == Init => BudgetInv /\ AllCovered
<1> SUFFICES ASSUME Init PROVE BudgetInv /\ AllCovered
  OBVIOUS
<1>1. pass.bundle = <<>> /\ pass.deposit = <<>> /\ pass.pc = "idle" /\ Bundles = {<<>>}
  BY DEF Init, NoPass, Bundles
<1>2. BudgetInv
  BY <1>1, BudgetStarts DEF BudgetInv, Asked
<1>3. \A e : Prefunds(<<>>, e) = 0
  <2>1. <<>> \in Seq(Ops)
    OBVIOUS
  <2>2. QED
    BY <2>1, PrefundsNatural
<1>4. AllCovered
  BY <1>1, <1>3, OpsAssumption DEF AllCovered, Covered
<1>5. QED
  BY <1>2, <1>4

\* No bundle asks a paymaster for more than its deposit, for any deposits and
\* prefunds.
THEOREM PrefundsAlwaysCovered == Spec => []PrefundsCovered
<1>1. HeldInv /\ BudgetInv /\ AllCovered /\ [Next]_vars => HeldInv' /\ BudgetInv' /\ AllCovered'
  BY HeldNext, BudgetNext, CoveredNext DEF HeldInv
<1>2. AllCovered => PrefundsCovered
  BY DEF AllCovered, Covered, PrefundsCovered
<1>3. QED
  BY <1>1, <1>2, HeldInit, BudgetInit, PTL DEF Spec
=============================================================================

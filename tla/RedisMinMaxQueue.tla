-------------------------- MODULE RedisMinMaxQueue --------------------------
(***************************************************************************)
(* The window of recent prices that several instances share                *)
(* (src/src/utils/minMaxQueue/createRedisMinMaxQueue.ts): one sorted set   *)
(* of values and one of their timestamps.  Every call prunes what has      *)
(* expired first, by a read and a transaction.                             *)
(***************************************************************************)
EXTENDS Integers, FiniteSets

CONSTANTS
  Prices,             \* the values saved, zero among them
  SharedExpiry,       \* seconds
  WindowCalls,        \* calls under way at one time
  Nil,
  MaxSeconds, MaxWindowCalls      \* bounds

ASSUME RedisMinMaxQueueAssumption ==
  /\ Prices \subseteq Nat /\ SharedExpiry \in Nat /\ Nil \notin Nat
  /\ MaxSeconds \in Nat /\ MaxWindowCalls \in Nat

VARIABLES
  seconds,       \* the clock
  values,        \* the set of values
  timestamps,    \* the set of timestamps: value -> when it was saved last
  windowCall,    \* what each call is doing
  windowCalls,   \* bound
  savedLate      \* history: values written when their timestamp had expired

windowVars == <<seconds, values, timestamps, windowCall, windowCalls, savedLate>>

NoCall == [at |-> "idle", doing |-> "none", value |-> 0, since |-> 0, expired |-> {},
           failed |-> FALSE, answer |-> Nil, savedAt |-> 0, late |-> FALSE]

WindowInit ==
  /\ seconds = 0 /\ values = {} /\ timestamps = [v \in Prices |-> Nil]
  /\ windowCall = [c \in WindowCalls |-> NoCall]
  /\ windowCalls = 0 /\ savedLate = {}

Second ==
  /\ seconds < MaxSeconds
  /\ seconds' = seconds + 1
  /\ UNCHANGED <<values, timestamps, windowCall, windowCalls, savedLate>>

\* saveValue, getMinValue, getMaxValue and getLatestValue
StartCall(c, doing, v) ==
  /\ windowCall[c].at = "idle" /\ windowCalls < MaxWindowCalls
  /\ windowCall' = [windowCall EXCEPT ![c] = [NoCall EXCEPT !.at = "pruneRead", !.doing = doing,
                                                !.value = v]]
  /\ windowCalls' = windowCalls + 1
  /\ UNCHANGED <<seconds, values, timestamps, savedLate>>

\* pruneExpiredEntries: zrangebyscore.
PruneRead(c) ==
  LET expired == { v \in Prices : timestamps[v] # Nil /\ timestamps[v] < seconds - SharedExpiry }
  IN
  /\ windowCall[c].at = "pruneRead"
  /\ windowCall' = [windowCall EXCEPT ![c].since = seconds, ![c].expired = expired,
                      ![c].at = IF expired = {} THEN "pruned" ELSE "pruneWrite"]
  /\ UNCHANGED <<seconds, values, timestamps, windowCalls, savedLate>>

\* Mutant: only the timestamps are removed.
TimestampsPruned(expired) ==
  /\ timestamps' = [v \in Prices |-> IF v \in expired THEN Nil ELSE timestamps[v]]
  /\ UNCHANGED values

\* The transaction: both zrem.
Pruned(expired) ==
  /\ timestamps' = [v \in Prices |-> IF v \in expired THEN Nil ELSE timestamps[v]]
  /\ values' = values \ expired

PruneWrite(c) ==
  /\ windowCall[c].at = "pruneWrite"
  /\ Pruned(windowCall[c].expired)
  /\ windowCall' = [windowCall EXCEPT ![c].at = "pruned"]
  /\ UNCHANGED <<seconds, windowCalls, savedLate>>

\* A prune that fails is logged, and the call goes on.
PruneFails(c) ==
  /\ windowCall[c].at \in {"pruneRead", "pruneWrite"}
  /\ windowCall' = [windowCall EXCEPT ![c].at = "pruned", ![c].failed = TRUE]
  /\ UNCHANGED <<seconds, values, timestamps, windowCalls, savedLate>>

\* add: zero is not saved; zscore tells whether the value is there.
SaveReads(c) ==
  /\ windowCall[c].at = "pruned" /\ windowCall[c].doing = "save"
  /\ windowCall' = [windowCall EXCEPT ![c] =
       IF windowCall[c].value = 0 THEN NoCall
       ELSE [windowCall[c] EXCEPT !.at = IF windowCall[c].value \in values THEN "refresh"
                                         ELSE "insert", !.since = seconds]]
  /\ UNCHANGED <<seconds, values, timestamps, windowCalls, savedLate>>

\* The timestamp is of the time before zscore.
SaveWrites(c) ==
  LET v == windowCall[c].value IN
  /\ windowCall[c].at \in {"refresh", "insert"}
  /\ timestamps' = [timestamps EXCEPT ![v] = windowCall[c].since]
  /\ values' = IF windowCall[c].at = "insert" THEN values \cup {v} ELSE values
  /\ savedLate' = IF windowCall[c].since < seconds - SharedExpiry
                  THEN savedLate \cup {v} ELSE savedLate \ {v}
  /\ windowCall' = [windowCall EXCEPT ![c] = NoCall]
  /\ UNCHANGED <<seconds, windowCalls>>

SmallestOf(s) == CHOOSE v \in s : \A u \in s : v <= u

LargestOf(s) == CHOOSE v \in s : \A u \in s : v >= u

\* The read of getMin, getMax and getLatestValue; of values saved in one second
\* the larger one sorts last, taken as numbers of equal length.
Reads(c) ==
  LET saved == { v \in Prices : timestamps[v] # Nil }
      latest == { v \in saved : \A u \in saved : timestamps[u] <= timestamps[v] }
      found == IF windowCall[c].doing = "latest" THEN saved ELSE values
      answer == IF found = {} THEN Nil
                ELSE CASE windowCall[c].doing = "min" -> SmallestOf(values)
                       [] windowCall[c].doing = "max" -> LargestOf(values)
                       [] OTHER -> LargestOf(latest)
  IN
  /\ windowCall[c].at = "pruned" /\ windowCall[c].doing \in {"min", "max", "latest"}
  /\ windowCall' = [windowCall EXCEPT ![c].at = "answered", ![c].answer = answer,
                      ![c].savedAt = IF answer = Nil THEN Nil ELSE timestamps[answer],
                      ![c].late = answer \in savedLate]
  /\ UNCHANGED <<seconds, values, timestamps, windowCalls, savedLate>>

Returns(c) ==
  /\ windowCall[c].at = "answered"
  /\ windowCall' = [windowCall EXCEPT ![c] = NoCall]
  /\ UNCHANGED <<seconds, values, timestamps, windowCalls, savedLate>>

WindowNext ==
  \/ Second
  \/ \E c \in WindowCalls :
       \/ \E v \in Prices : StartCall(c, "save", v)
       \/ \E doing \in {"min", "max", "latest"} : StartCall(c, doing, 0)
       \/ PruneRead(c) \/ PruneWrite(c) \/ PruneFails(c)
       \/ SaveReads(c) \/ SaveWrites(c) \/ Reads(c) \/ Returns(c)

WindowSpec == WindowInit /\ [][WindowNext]_windowVars

-----------------------------------------------------------------------------

\* A call never answers with a value that had expired when it began, nor with one
\* that nobody can expire, whatever other instances save and prune meanwhile:
\* unless its own prune failed, or the value had
\* expired when its save was written.
SharedAnswerIsFresh ==
  \A c \in WindowCalls :
    (windowCall[c].at = "answered" /\ windowCall[c].answer # Nil
       /\ ~windowCall[c].late /\ ~windowCall[c].failed) =>
      /\ windowCall[c].savedAt # Nil
      /\ windowCall[c].savedAt >= windowCall[c].since - SharedExpiry
=============================================================================

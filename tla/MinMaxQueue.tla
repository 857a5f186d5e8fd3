---------------------------- MODULE MinMaxQueue ----------------------------
(***************************************************************************)
(* The in-memory window of recent gas prices                               *)
(* (src/src/utils/minMaxQueue/createMemoryMinMaxQueue.ts): two monotone    *)
(* deques, whose first elements are the smallest and the largest value     *)
(* saved of late, and the latest value.  A window changes only when a      *)
(* value is saved, so expired values stay in it until then.                *)
(***************************************************************************)
EXTENDS Integers, Sequences

CONSTANTS
  GasPriceExpiry,   \* seconds a saved value stays in the window
  Null

ASSUME MinMaxQueueAssumption == GasPriceExpiry \in Nat /\ Null \notin Int

EmptyWindow == [minDeque |-> <<>>, maxDeque |-> <<>>, latestValue |-> Null]

Suffix(d, n) == SubSeq(d, n + 1, Len(d))

Prefix(d, n) == SubSeq(d, 1, n)

\* Mutant: an entry is dropped in the second in which it becomes as old as the
\* expiry allows.
ExpiredEarly(d, now) ==
  CHOOSE n \in 0 .. Len(d) :
    /\ \A i \in 1 .. n : d[i].timestamp <= now - GasPriceExpiry
    /\ n < Len(d) => d[n + 1].timestamp > now - GasPriceExpiry

\* How many entries at the front are expired: the older entries are in front,
\* so the filter of updateQueues drops a prefix.
Expired(d, now) ==
  CHOOSE n \in 0 .. Len(d) :
    /\ \A i \in 1 .. n : d[i].timestamp < now - GasPriceExpiry
    /\ n < Len(d) => d[n + 1].timestamp >= now - GasPriceExpiry

\* Where the loops that pop the entries a new value makes useless stop.
KeptBelow(d, value) ==
  CHOOSE n \in 0 .. Len(d) :
    /\ n = 0 \/ d[n].value < value
    /\ \A i \in n + 1 .. Len(d) : d[i].value >= value

KeptAbove(d, value) ==
  CHOOSE n \in 0 .. Len(d) :
    /\ n = 0 \/ d[n].value > value
    /\ \A i \in n + 1 .. Len(d) : d[i].value <= value

\* updateQueues
UpdateMin(d, value, now) ==
  LET fresh == Suffix(d, Expired(d, now))
  IN Append(Prefix(fresh, KeptBelow(fresh, value)), [value |-> value, timestamp |-> now])

UpdateMax(d, value, now) ==
  LET fresh == Suffix(d, Expired(d, now))
  IN Append(Prefix(fresh, KeptAbove(fresh, value)), [value |-> value, timestamp |-> now])

\* saveValue: zero is not saved.
Saved(w, value, now) ==
  IF value = 0 THEN w
  ELSE [minDeque |-> UpdateMin(w.minDeque, value, now),
        maxDeque |-> UpdateMax(w.maxDeque, value, now),
        latestValue |-> value]

\* getMinValue and getMaxValue
MinValue(w) == IF w.minDeque = <<>> THEN Null ELSE w.minDeque[1].value

MaxValue(w) == IF w.maxDeque = <<>> THEN Null ELSE w.maxDeque[1].value
=============================================================================

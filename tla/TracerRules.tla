---------------------------- MODULE TracerRules ----------------------------
(***************************************************************************)
(* The rules of safe mode (src/src/rpc/validation/TracerResultParserV07.ts *)
(* and its twin for EntryPoint 0.6): what the validation of a userOp may   *)
(* do, read off the trace of its simulation.                               *)
(*                                                                         *)
(* Addresses and storage slots are numbers, so that a slot can be an       *)
(* address padded to 32 bytes, and an offset into a structure can be       *)
(* counted.  A trace t is a record                                         *)
(*   version   "0.6", "0.7" or "0.8", of the EntryPoint                    *)
(*   sender    the account                                                 *)
(*   infos     per title, Null or [addr, stake, unstakeDelaySec]           *)
(*   calls     the entries of the tracer, calls and exits, in their order  *)
(*   levels    per title, Null or what the entity did in its phase         *)
(*   keccak    the inputs of KECCAK256 that begin with an address, with    *)
(*             their hashes                                                *)
(***************************************************************************)
EXTENDS Integers, Sequences, SequencesExt

CONSTANTS
  EntryPoint,      \* its address
  StructSlots,     \* 128: the size a structure is assumed to have at most
  NoEntity         \* the info or level of an entity the op does not name

ASSUME TracerRulesAssumption == EntryPoint \in Nat /\ StructSlots \in Nat \ {0}

Titles == {"factory", "account", "paymaster"}

\* StakeInfoEntities are looked at in this order.
Before(a, b) == <<a, b>> \in {<<"factory", "account">>, <<"factory", "paymaster">>,
                              <<"account", "paymaster">>}

BannedOpCodes(version) ==
  {"GASPRICE", "GASLIMIT", "DIFFICULTY", "TIMESTAMP", "BASEFEE", "BLOCKHASH", "NUMBER",
   "ORIGIN", "GAS", "COINBASE", "SELFDESTRUCT", "SELFBALANCE", "BALANCE"}
  \cup (IF version = "0.8" THEN {"BLOBHASH", "BLOBBASEFEE"}
        ELSE {"RANDOM", "PREVRANDAO", "INVALID"})
  \cup (IF version = "0.6" THEN {"CREATE"} ELSE {})

IsStaked(info) == info # NoEntity /\ info.stake >= 1 /\ info.unstakeDelaySec >= 1

\* Mutant: every hash counts for every entity.
EntitySlotsOfAll(t, addr) == { k.hash : k \in t.keccak }

\* parseEntitySlots
EntitySlots(t, addr) == { k.hash : k \in { k \in t.keccak : k.prefix = addr } }

AssociatedWith(t, slot, addr) ==
  \/ slot = addr
  \/ \E k \in EntitySlots(t, addr) : slot >= k /\ slot < k + StructSlots

-----------------------------------------------------------------------------
(* The calls.                                                              *)

IsExit(entry) == entry.type \in {"RETURN", "REVERT"}

\* What is called when an exit finds no call on the stack.
TopCall == [type |-> "top", to |-> NoEntity, from |-> NoEntity, method |-> "validateUserOp",
            value |-> 0]

\* parseCallStack: the calls in the order in which they end, with what they
\* return.  A creation has no method and no value.
CallStack(t) ==
  LET step(s, entry) ==
        IF ~IsExit(entry) THEN [s EXCEPT !.stack = Append(@, entry)]
        ELSE LET top == IF s.stack = <<>> THEN TopCall ELSE Last(s.stack)
                 created == top.type \in {"CREATE", "CREATE2"}
             IN [stack |-> IF s.stack = <<>> THEN <<>> ELSE Front(s.stack),
                 out |-> Append(s.out,
                   [to |-> top.to, from |-> top.from,
                    method |-> IF created THEN "" ELSE top.method,
                    value |-> IF created THEN 0 ELSE top.value,
                    context |-> ~created /\ entry.type = "RETURN" /\ entry.context])]
  IN FoldLeft(step, [stack |-> <<>>, out |-> <<>>], t.calls).out

\* The calls of the EntryPoint that OP-052 and OP-053 do not allow.
IllegalEntryPointCalls(t) ==
  LET stack == CallStack(t)
  IN { i \in DOMAIN stack : /\ stack[i].to = EntryPoint /\ stack[i].from # EntryPoint
                            /\ stack[i].method \notin {"0x", "depositTo"} }

\* OP-054: only the first such call is looked at.
EntryPointCallAllowed(t) ==
  \A i \in IllegalEntryPointCalls(t) :
    (\A j \in IllegalEntryPointCalls(t) : i <= j) =>
      t.version # "0.6" /\ CallStack(t)[i].method = "delegateAndRevert"

\* OP-061
NoValueIsSent(t) ==
  LET stack == CallStack(t)
  IN \A i \in DOMAIN stack : stack[i].to # EntryPoint => stack[i].value = 0

-----------------------------------------------------------------------------
(* What one entity did in its phase, l.                                    *)

\* OP-011
OpcodesAllowed(t, title) ==
  \/ DOMAIN t.levels[title].opcodes \cap BannedOpCodes(t.version) = {}
  \/ t.version # "0.6" /\ IsStaked(t.infos[title])

Uses(l, opcode) == IF opcode \in DOMAIN l.opcodes THEN l.opcodes[opcode] ELSE 0

Creations(l) == Uses(l, "CREATE") + Uses(l, "CREATE2")

\* OP-031 of EntryPoint 0.6.
CreationsAllowedV06(t, title) ==
  Uses(t.levels[title], "CREATE2") <= (IF title = "factory" THEN 1 ELSE 0)

\* OP-031 of later ones.  A second entity that creates may do so once.
CreationsAllowedV07(t, title) ==
  LET l == t.levels[title]
      usedBefore == \E e \in Titles : Before(e, title) /\ t.levels[e] # NoEntity
                                      /\ Creations(t.levels[e]) > 0
  IN /\ usedBefore => Creations(l) <= 1
     /\ title = "factory" => Creations(l) <= 2 /\ Uses(l, "CREATE2") < 2
     /\ (title # "factory" /\ Creations(l) > 0) =>
          \/ IsStaked(t.infos.factory)
          \/ t.infos.factory # NoEntity /\ Uses(l, "CREATE") > 0

CreationsAllowed(t, title) ==
  IF t.version = "0.6" THEN CreationsAllowedV06(t, title) ELSE CreationsAllowedV07(t, title)

\* STO-021 and STO-022: whether a slot of the sender needs no stake of the
\* entity that uses it.
SenderSlotIsFree(t, title) ==
  \/ t.infos.factory = NoEntity
  \/ /\ \/ t.infos[title].addr = t.sender
        \/ /\ t.version # "0.6" /\ t.infos.paymaster # NoEntity
           /\ t.infos[title].addr = t.infos.paymaster.addr
     /\ IsStaked(t.infos.factory)

\* STO-010, STO-021, STO-022, STO-031, STO-032 and STO-033: one slot of addr.
SlotAllowed(t, title, addr, slot) ==
  LET entity == t.infos[title]
      writes == t.levels[title].access[addr].writes
  IN IF AssociatedWith(t, slot, t.sender)
     THEN SenderSlotIsFree(t, title) \/ IsStaked(entity)
     ELSE /\ IsStaked(entity)
          /\ \/ AssociatedWith(t, slot, entity.addr)
             \/ addr = entity.addr
             \/ slot \notin writes

StorageAllowed(t, title) ==
  LET access == t.levels[title].access
  IN \A addr \in DOMAIN access \ {t.sender, EntryPoint} :
       \A slot \in access[addr].reads \cup access[addr].writes : SlotAllowed(t, title, addr, slot)

\* EREP-050: the first validatePaymasterUserOp of the paymaster that ends
\* returned a context.
ReturnsContext(t) ==
  LET stack == CallStack(t)
      asked == { i \in DOMAIN stack : /\ stack[i].method = "validatePaymasterUserOp"
                                      /\ stack[i].to = t.infos.paymaster.addr }
  IN \E i \in asked : (\A j \in asked : i <= j) /\ stack[i].context

EntityAllowed(t, title) ==
  LET l == t.levels[title]
  IN IF l = NoEntity THEN title # "account"
     ELSE /\ ~l.oog                                                 \* OP-020
          /\ OpcodesAllowed(t, title)
          /\ CreationsAllowed(t, title)
          /\ StorageAllowed(t, title)
          /\ (title = "paymaster" /\ ReturnsContext(t)) => IsStaked(t.infos.paymaster)
          /\ l.noCode \subseteq {t.sender}                          \* OP-041, OP-042
          /\ EntryPoint \notin l.extCode

\* tracerResultParser, which throws when this is false.
TraceAllowed(t) ==
  /\ EntryPointCallAllowed(t)
  /\ NoValueIsSent(t)
  /\ \A title \in Titles : EntityAllowed(t, title)
=============================================================================

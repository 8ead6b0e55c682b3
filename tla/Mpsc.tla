-------------------------------- MODULE Mpsc --------------------------------
(***************************************************************************)
(* The lock-free multi-producer single-consumer queue of src/src/mpsc.hpp, *)
(* one action per atomic step of push() and of pop().                      *)
(*                                                                         *)
(* A producer first reserves capacity (used.fetch_add), then takes a       *)
(* ticket (head.fetch_add) that names its slot, moves its object into the  *)
(* slot and finally marks the slot valid.  The consumer looks at `used',   *)
(* then at the valid flag of the slot at `tail', moves the object out,     *)
(* clears the flag, releases the capacity and advances `tail'.             *)
(*                                                                         *)
(* head and tail are size_t counters used modulo N; N is a power of two,   *)
(* so their wrap-around at 2^64 does not change the slot they name, and    *)
(* they are natural numbers here.  push() also returns the number of slots *)
(* in use, or N if it was refused; no caller in the program looks at it.   *)
(***************************************************************************)
EXTENDS Integers, Sequences, FiniteSets

CONSTANTS Producers,   \* threads that call push()
          N,           \* the template parameter N: number of slots
          MaxPush,     \* bound: calls of push() per producer
          None         \* no object: std::nullopt, or a moved-from T

ASSUME ProducersAssumption == IsFiniteSet(Producers)
ASSUME NAssumption == N \in Nat \ {0}
ASSUME PowerOfTwo == \E k \in 0 .. N : 2^k = N     \* the static_assert
ASSUME MaxPushAssumption == MaxPush \in Nat

VARIABLES used,    \* reserved capacity, may exceed N for a moment
          head,    \* next ticket
          lost,    \* refused pushes
          tail,    \* ticket the consumer takes next (consumer-local)
          valid,   \* slot -> the flag the consumer synchronises on
          data,    \* slot -> object

          pc,      \* producer -> next step of its push()
          pushed,  \* producer -> calls of push() begun
          ticket,  \* producer -> value obtained from head

          cpc,     \* consumer's next step of pop()
          obj,     \* the std::optional pop() returns

          order,   \* history: objects by ticket
          out      \* history: objects popped

shared == <<used, head, lost, tail, valid, data>>
producerVars == <<pc, pushed, ticket>>
consumerVars == <<cpc, obj>>
history == <<order, out>>
vars == <<used, head, lost, tail, valid, data, pc, pushed, ticket,
          cpc, obj, order, out>>

Slots == 0 .. N - 1
Slot(t) == t % N
Items == Producers \X (1 .. MaxPush)
Item(p) == <<p, pushed[p]>>

ASSUME NoneAssumption == None \notin Items   \* an empty std::optional

Init ==
  /\ used = 0 /\ head = 0 /\ lost = 0 /\ tail = 0
  /\ valid = [s \in Slots |-> FALSE]
  /\ data = [s \in Slots |-> None]
  /\ pc = [p \in Producers |-> "idle"]
  /\ pushed = [p \in Producers |-> 0]
  /\ ticket = [p \in Producers |-> 0]
  /\ cpc = "idle" /\ obj = None
  /\ order = <<>> /\ out = <<>>

-----------------------------------------------------------------------------
(* push() *)

Goto(p, from, to) ==
  /\ pc[p] = from
  /\ pc' = [pc EXCEPT ![p] = to]

\* Mutants: the bound of the reservation is off by one, up or down.
ReserveOneTooMany(p) ==
  /\ pushed[p] < MaxPush
  /\ Goto(p, "idle", IF used > N THEN "refused" ELSE "reserved")
  /\ pushed' = [pushed EXCEPT ![p] = @ + 1]
  /\ used' = used + 1
  /\ UNCHANGED <<head, lost, tail, valid, data, ticket, consumerVars, history>>

ReserveOneTooFew(p) ==
  /\ pushed[p] < MaxPush
  /\ Goto(p, "idle", IF used + 1 >= N THEN "refused" ELSE "reserved")
  /\ pushed' = [pushed EXCEPT ![p] = @ + 1]
  /\ used' = used + 1
  /\ UNCHANGED <<head, lost, tail, valid, data, ticket, consumerVars, history>>

(* used.fetch_add(1): allocate capacity, or learn that there is none. *)
Reserve(p) ==
  /\ pushed[p] < MaxPush
  /\ Goto(p, "idle", IF used >= N THEN "refused" ELSE "reserved")
  /\ pushed' = [pushed EXCEPT ![p] = @ + 1]
  /\ used' = used + 1
  /\ UNCHANGED <<head, lost, tail, valid, data, ticket, consumerVars, history>>

(* The refused push takes its reservation back ... *)
Unreserve(p) ==
  /\ Goto(p, "refused", "count")
  /\ used' = used - 1
  /\ UNCHANGED <<head, lost, tail, valid, data, pushed, ticket,
                 consumerVars, history>>

(* ... and is counted. *)
CountLost(p) ==
  /\ Goto(p, "count", "idle")
  /\ lost' = lost + 1
  /\ UNCHANGED <<used, head, tail, valid, data, pushed, ticket,
                 consumerVars, history>>

(* head.fetch_add(1): from here on the slot belongs to this producer. *)
TakeTicket(p) ==
  /\ Goto(p, "reserved", "write")
  /\ ticket' = [ticket EXCEPT ![p] = head]
  /\ head' = head + 1
  /\ order' = Append(order, Item(p))
  /\ UNCHANGED <<used, lost, tail, valid, data, pushed, consumerVars, out>>

Write(p) ==
  /\ Goto(p, "write", "validate")
  /\ data' = [data EXCEPT ![Slot(ticket[p])] = Item(p)]
  /\ UNCHANGED <<used, head, lost, tail, valid, pushed, ticket,
                 consumerVars, history>>

Validate(p) ==
  /\ Goto(p, "validate", "idle")
  /\ valid' = [valid EXCEPT ![Slot(ticket[p])] = TRUE]
  /\ UNCHANGED <<used, head, lost, tail, data, pushed, ticket,
                 consumerVars, history>>

Push(p) ==
  \/ Reserve(p) \/ Unreserve(p) \/ CountLost(p)
  \/ TakeTicket(p) \/ Write(p) \/ Validate(p)

-----------------------------------------------------------------------------
(* pop() *)

(* used.load(): nothing reserved, nothing to pop. *)
LoadUsed ==
  /\ cpc = "idle"
  /\ cpc' = IF used = 0 THEN "idle" ELSE "check"
  /\ obj' = None
  /\ UNCHANGED <<shared, producerVars, history>>

\* Mutant: pop() trusts `used' alone.
CheckValidSkipped ==
  /\ cpc = "check"
  /\ cpc' = "move"
  /\ UNCHANGED <<shared, producerVars, obj, history>>

(* The slot at tail may be reserved and not yet valid: give up as well. *)
CheckValid ==
  /\ cpc = "check"
  /\ cpc' = IF valid[Slot(tail)] THEN "move" ELSE "idle"
  /\ UNCHANGED <<shared, producerVars, obj, history>>

MoveOut ==
  /\ cpc = "move"
  /\ cpc' = "invalidate"
  /\ obj' = data[Slot(tail)]
  /\ data' = [data EXCEPT ![Slot(tail)] = None]
  /\ UNCHANGED <<used, head, lost, tail, valid, producerVars, history>>

\* Mutant: the slot keeps its valid flag when it is handed back.
InvalidateForgotten ==
  /\ cpc = "invalidate"
  /\ cpc' = "release"
  /\ UNCHANGED <<shared, producerVars, obj, history>>

Invalidate ==
  /\ cpc = "invalidate"
  /\ cpc' = "release"
  /\ valid' = [valid EXCEPT ![Slot(tail)] = FALSE]
  /\ UNCHANGED <<used, head, lost, tail, data, producerVars, obj, history>>

(* used.fetch_sub(1): a producer may reserve the slot before tail advances. *)
Release ==
  /\ cpc = "release"
  /\ cpc' = "advance"
  /\ used' = used - 1
  /\ out' = Append(out, obj)
  /\ UNCHANGED <<head, lost, tail, valid, data, producerVars, obj, order>>

Advance ==
  /\ cpc = "advance"
  /\ cpc' = "idle"
  /\ tail' = tail + 1
  /\ UNCHANGED <<used, head, lost, valid, data, producerVars, obj, history>>

Pop ==
  \/ LoadUsed \/ CheckValid \/ MoveOut \/ Invalidate \/ Release \/ Advance

-----------------------------------------------------------------------------
Next == (\E p \in Producers : Push(p)) \/ Pop

(* Every thread that is inside push() is scheduled again, and the consumer *)
(* keeps calling pop().  No producer has to call push().                   *)
Fairness ==
  /\ \A p \in Producers : WF_vars(Unreserve(p) \/ CountLost(p)
                                  \/ TakeTicket(p) \/ Write(p) \/ Validate(p))
  /\ WF_vars(Pop)

SafeSpec == Init /\ [][Next]_vars
Spec == SafeSpec /\ Fairness

-----------------------------------------------------------------------------
(* Views used by the properties. *)

At(pcs) == {p \in Producers : pc[p] \in pcs}

(* Producers that own a slot they have not published yet. *)
Writers == At({"write", "validate"})

(* Tickets whose slot has been handed back by the consumer. *)
Released == IF cpc = "advance" THEN tail + 1 ELSE tail

(* Accepted objects that still occupy a slot. *)
Live == head - Released

PCs == {"idle", "reserved", "refused", "count", "write", "validate"}
CPCs == {"idle", "check", "move", "invalidate", "release", "advance"}

TypeOK ==
  /\ used \in Nat /\ head \in Nat /\ lost \in Nat /\ tail \in Nat
  /\ valid \in [Slots -> BOOLEAN]
  /\ data \in [Slots -> Items \cup {None}]
  /\ pc \in [Producers -> PCs]
  /\ pushed \in [Producers -> 0 .. MaxPush]
  /\ ticket \in [Producers -> Nat]
  /\ cpc \in CPCs
  /\ obj \in Items \cup {None}
  /\ order \in Seq(Items)
  /\ out \in Seq(Items \cup {None})

(* No two threads ever touch one slot's object at the same time: producers *)
(* between head.fetch_add and the valid store own distinct slots, none of  *)
(* which is valid, and none is the slot the consumer is moving from.  The  *)
(* TEST_MPSC build throws "producer got valid slot" when the second        *)
(* conjunct fails (mpsc.hpp:41-43).                                        *)
SlotsExclusive ==
  /\ \A p, q \in Writers : Slot(ticket[p]) = Slot(ticket[q]) => p = q
  /\ \A p \in Writers : ~valid[Slot(ticket[p])]
  /\ cpc \in {"move", "invalidate", "release"} =>
       \A p \in Writers : Slot(ticket[p]) # Slot(tail)

(* `used' counts exactly the live objects, the reservations that have no   *)
(* ticket yet and the refused pushes that have not taken theirs back; so   *)
(* fetch_sub never wraps below zero, which the TEST_MPSC build checks as   *)
(* "used count underflowed" (mpsc.hpp:55-59), although the counter         *)
(* may pass N.                                                             *)
UsedIsExact ==
  /\ Released <= head
  /\ used = Live + Cardinality(At({"reserved", "refused"}))

(* Live objects and reservations together never exceed the N slots, no     *)
(* matter how many producers have pushed `used' beyond N.                  *)
NeverOverbooked == Live + Cardinality(At({"reserved"})) <= N

(* What pop() returns is what was pushed, in ticket order, each object     *)
(* once: no slot is read before it is written, skipped, or read twice.     *)
PopsInTicketOrder ==
  /\ Len(out) = Released /\ Released <= Len(order)
  /\ out = SubSeq(order, 1, Released)

(* A push may be refused although a slot is free, because other refused    *)
(* pushes inflate `used' for a moment; but only if all slots but one per   *)
(* other producer are occupied.  With the logger's 1024 slots and its few  *)
(* threads a message is never lost while the queue is far from full.       *)
RefusedOnlyWhenNearlyFull ==
  [][\A p \in Producers : pc[p] = "idle" /\ pc'[p] = "refused" =>
       Live >= N - (Cardinality(Producers) - 1)]_vars

(* The queue implements a bounded FIFO: a push takes effect when it gets   *)
(* its ticket, a pop when it releases its slot; and what was accepted is   *)
(* popped eventually, although pop() gives up on a slot not valid yet.     *)
Fifo == INSTANCE BoundedFifo WITH
          Capacity <- N,
          queue <- SubSeq(order, Released + 1, head)

ImplementsFifo == Fifo!Spec

-----------------------------------------------------------------------------
(***************************************************************************)
(* The inductive invariant behind the safety properties, in terms of the   *)
(* tickets that are live: handed out and not yet released.                 *)
(***************************************************************************)

LiveTickets == Released .. head - 1

(* No producer is still busy with ticket t. *)
Published(t) == \A p \in Writers : ticket[p] # t

CountInv ==
  /\ used = Live + Cardinality(At({"reserved", "refused"}))
  /\ Live + Cardinality(At({"reserved"})) <= N

TicketInv ==
  /\ \A p \in Producers : pc[p] # "idle" => pushed[p] # 0
  /\ \A p \in Writers : ticket[p] \in LiveTickets
                       /\ order[ticket[p] + 1] = Item(p)
  /\ \A p, q \in Writers : ticket[p] = ticket[q] => p = q
  /\ \A p \in At({"validate"}) : data[Slot(ticket[p])] = Item(p)

(* The consumer is inside pop() only with a published ticket in its hands. *)
ConsumerInv ==
  /\ tail <= head
  /\ cpc \in {"move", "invalidate", "release"} =>
       tail < head /\ Published(tail)
  /\ cpc \in {"move", "invalidate"} => valid[Slot(tail)]
  /\ cpc = "advance" => tail < head
  /\ cpc \in {"invalidate", "release"} => obj = order[tail + 1]

(* A slot is valid exactly while it holds a published, unconsumed object.  *)
CellInv ==
  /\ \A t \in LiveTickets :
       valid[Slot(t)] <=> Published(t) /\ ~(t = tail /\ cpc = "release")
  /\ \A s \in Slots : valid[s] => \E t \in LiveTickets : Slot(t) = s
  /\ \A t \in LiveTickets :
       Published(t) /\ ~(t = tail /\ cpc \in {"invalidate", "release"}) =>
         data[Slot(t)] = order[t + 1]

HistoryInv ==
  /\ Len(order) = head
  /\ Len(out) = Released
  /\ \A i \in 1 .. Released : out[i] = order[i]

(* Everything the safety properties need: the four views of one queue,     *)
(* counters, tickets, consumer and slots, agree in every state.            *)
IInv ==
  TypeOK /\ CountInv /\ TicketInv /\ ConsumerInv /\ CellInv /\ HistoryInv

=============================================================================

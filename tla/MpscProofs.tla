----------------------------- MODULE MpscProofs -----------------------------
(***************************************************************************)
(* Theorems about the queue of Mpsc and about the logger on top of it, for *)
(* any number of producers, slots and pushes.                              *)
(***************************************************************************)
EXTENDS Logger, FiniteSetTheorems, TLAPS

(***************************************************************************)
(* Arithmetic of slots.                                                    *)
(***************************************************************************)

(* `& (N - 1)' names one of the N slots. *)
LEMMA SlotType == ASSUME NEW t \in Nat PROVE Slot(t) \in Slots
BY NAssumption DEF Slot, Slots

(* Tickets less than N apart name different slots. *)
LEMMA SlotsDiffer ==
  ASSUME NEW a \in Nat, NEW b \in Nat, a < b, b - a < N
  PROVE  Slot(a) # Slot(b)
<1> SUFFICES ASSUME a % N = b % N PROVE FALSE
  BY DEF Slot
<1> DEFINE q == (b \div N) - (a \div N)
<1>1. /\ a = N * (a \div N) + (a % N)
      /\ b = N * (b \div N) + (b % N)
      /\ a \div N \in Int /\ b \div N \in Int /\ a % N \in Int
  BY NAssumption
<1>2. b - a = N * q /\ q \in Int
  <2>1. N * (b \div N) - N * (a \div N) = N * q
    BY <1>1, NAssumption
  <2>2. b - a = N * (b \div N) - N * (a \div N)
    BY <1>1, NAssumption
  <2>. QED  BY <1>1, <2>1, <2>2
<1> HIDE DEF q
<1>3. q >= 1
  <2>1. CASE q <= 0
    <3>1. N * q <= 0
      BY <2>1, <1>2, NAssumption
    <3>. QED  BY <3>1, <1>2
  <2>. QED  BY <2>1, <1>2
<1>4. N * q >= N
  BY <1>2, <1>3, NAssumption
<1>. QED  BY <1>2, <1>4, NAssumption

(* Live tickets occupy distinct slots, because there are at most N. *)
LEMMA LiveSlotsDiffer ==
  ASSUME NEW lo \in Nat, NEW hi \in Nat, hi - lo <= N,
         NEW s \in lo .. hi - 1, NEW t \in lo .. hi - 1, Slot(s) = Slot(t)
  PROVE  s = t
<1>1. s \in Nat /\ t \in Nat /\ s - t < N /\ t - s < N
  BY NAssumption
<1>. QED  BY <1>1, SlotsDiffer, NAssumption

(***************************************************************************)
(* Counting the producers at some step of push().                          *)
(***************************************************************************)

LEMMA AtFinite == ASSUME NEW S PROVE IsFiniteSet(At(S)) /\ Cardinality(At(S)) \in Nat
BY ProducersAssumption, FS_Subset, FS_CardinalityType DEF At

(* What one step of producer p from pc a to pc b does to a count. *)
LEMMA AtSame ==
  ASSUME NEW p \in Producers, NEW a, NEW b, NEW S, TypeOK, Goto(p, a, b),
         a \notin S, b \notin S
  PROVE  Cardinality(At(S)') = Cardinality(At(S))
<1>1. At(S)' = At(S)
  BY DEF At, Goto, TypeOK
<1>. QED  BY <1>1

LEMMA AtMoved ==
  ASSUME NEW p \in Producers, NEW a, NEW b, NEW S, TypeOK, Goto(p, a, b),
         a \in S, b \in S
  PROVE  Cardinality(At(S)') = Cardinality(At(S))
<1>1. At(S)' = At(S)
  BY DEF At, Goto, TypeOK
<1>. QED  BY <1>1

LEMMA AtEnter ==
  ASSUME NEW p \in Producers, NEW a, NEW b, NEW S, TypeOK, Goto(p, a, b),
         a \notin S, b \in S
  PROVE  Cardinality(At(S)') = Cardinality(At(S)) + 1
<1>1. At(S)' = At(S) \cup {p} /\ p \notin At(S)
  BY DEF At, Goto, TypeOK
<1>. QED  BY <1>1, AtFinite, FS_AddElement

LEMMA AtLeave ==
  ASSUME NEW p \in Producers, NEW a, NEW b, NEW S, TypeOK, Goto(p, a, b),
         a \in S, b \notin S
  PROVE  Cardinality(At(S)') = Cardinality(At(S)) - 1
<1>1. At(S)' = At(S) \ {p} /\ p \in At(S)
  BY DEF At, Goto, TypeOK
<1>. QED  BY <1>1, AtFinite, FS_RemoveElement

(* A step of the consumer moves no producer. *)
LEMMA AtStutter ==
  ASSUME NEW S, UNCHANGED pc PROVE At(S)' = At(S)
BY DEF At

LEMMA AppendFacts ==
  ASSUME NEW S, NEW seq \in Seq(S), NEW e \in S
  PROVE  /\ Append(seq, e) \in Seq(S)
         /\ Len(Append(seq, e)) = Len(seq) + 1
         /\ \A i \in 1 .. Len(seq) : Append(seq, e)[i] = seq[i]
         /\ Append(seq, e)[Len(seq) + 1] = e
OBVIOUS

(***************************************************************************)
(* The inductive invariant.                                                *)
(***************************************************************************)

LEMMA InitIInv == Init => IInv
<1> SUFFICES ASSUME Init PROVE IInv
  OBVIOUS
<1>1. /\ At({"reserved", "refused"}) = {} /\ At({"reserved"}) = {}
      /\ Writers = {} /\ At({"validate"}) = {}
  BY DEF Init, At, Writers
<1>2. Cardinality({}) = 0
  BY FS_EmptySet
<1>3. TypeOK
  BY MaxPushAssumption DEF Init, TypeOK, PCs, CPCs
<1>4. CountInv
  <2>1. Live = 0 /\ used = 0
    BY DEF Init, Live, Released
  <2>2. /\ Cardinality(At({"reserved", "refused"})) = 0
        /\ Cardinality(At({"reserved"})) = 0
    BY <1>1, <1>2
  <2>. QED  BY <2>1, <2>2, NAssumption DEF CountInv
<1>5. TicketInv /\ ConsumerInv
  BY <1>1 DEF Init, TicketInv, ConsumerInv
<1>6. CellInv
  BY DEF Init, CellInv, LiveTickets, Released
<1>7. HistoryInv
  BY DEF Init, HistoryInv, Released
<1>. QED  BY <1>3, <1>4, <1>5, <1>6, <1>7 DEF IInv

(* A step that changes neither slots, tickets nor the consumer, and moves  *)
(* no producer in or out of its slot, keeps everything but the counts.     *)
LEMMA QuietStep ==
  ASSUME IInv,
         UNCHANGED <<head, tail, valid, data, ticket, cpc, obj, order, out>>,
         Writers' = Writers, At({"validate"})' = At({"validate"}),
         \A q \in Writers : pushed'[q] = pushed[q],
         \A q \in Producers : pc'[q] # "idle" => pushed'[q] # 0
  PROVE  TicketInv' /\ ConsumerInv' /\ CellInv' /\ HistoryInv'
<1>1. Released' = Released /\ LiveTickets' = LiveTickets
  BY DEF Released, LiveTickets
<1>2. \A t : Published(t)' <=> Published(t)
  BY DEF Published
<1>3. At({"validate"}) \subseteq Writers
  BY DEF At, Writers
<1>4. TicketInv'
  BY <1>1, <1>3 DEF IInv, TicketInv, Item
<1>5. ConsumerInv'
  BY <1>2 DEF IInv, ConsumerInv
<1>6. CellInv'
  BY <1>1, <1>2 DEF IInv, CellInv
<1>7. HistoryInv'
  BY <1>1 DEF IInv, HistoryInv
<1>. QED  BY <1>4, <1>5, <1>6, <1>7

LEMMA ReserveStep ==
  ASSUME IInv, NEW p \in Producers, Reserve(p)
  PROVE  IInv'
<1> DEFINE to == IF used >= N THEN "refused" ELSE "reserved"
<1>1. /\ Goto(p, "idle", to)
      /\ TypeOK
      /\ UNCHANGED <<head, tail, valid, data, ticket, cpc, obj, order, out>>
  BY DEF Reserve, IInv, consumerVars, history
<1>2. TypeOK'
  BY <1>1, MaxPushAssumption DEF Reserve, Goto, TypeOK, PCs, consumerVars, history
<1>3. CountInv'
  <2>1. Live' = Live /\ Live \in Int /\ used' = used + 1 /\ used \in Nat
    BY <1>1 DEF Live, Released, TypeOK, Reserve
  <2>2. Cardinality(At({"reserved", "refused"})') = Cardinality(At({"reserved", "refused"})) + 1
    <3>1. CASE used >= N
      BY <3>1, <1>1, AtEnter
    <3>2. CASE ~(used >= N)
      BY <3>2, <1>1, AtEnter
    <3>. QED  BY <3>1, <3>2
  <2>3. ASSUME used >= N
        PROVE  Cardinality(At({"reserved"})') = Cardinality(At({"reserved"}))
    <3>1. /\ Goto(p, "idle", "refused")
          /\ "idle" \notin {"reserved"} /\ "refused" \notin {"reserved"}
      BY <2>3, <1>1
    <3>. QED  BY <3>1, <1>1, AtSame
  <2>4. ASSUME ~(used >= N)
        PROVE  Cardinality(At({"reserved"})') = Cardinality(At({"reserved"})) + 1
    <3>1. /\ Goto(p, "idle", "reserved")
          /\ "idle" \notin {"reserved"} /\ "reserved" \in {"reserved"}
      BY <2>4, <1>1
    <3>. QED  BY <3>1, <1>1, AtEnter
  <2>5. Cardinality(At({"reserved"})) <= Cardinality(At({"reserved", "refused"}))
    BY AtFinite, FS_Subset DEF At
  <2>6. /\ Cardinality(At({"reserved"})) \in Nat
        /\ Cardinality(At({"reserved", "refused"})) \in Nat
    BY AtFinite
  <2>. QED  BY <2>1, <2>2, <2>3, <2>4, <2>5, <2>6, NAssumption DEF IInv, CountInv
<1>4. TicketInv' /\ ConsumerInv' /\ CellInv' /\ HistoryInv'
  <2>1. Writers' = Writers /\ At({"validate"})' = At({"validate"}) /\ p \notin Writers
    BY <1>1 DEF Goto, Writers, At, TypeOK
  <2>2. \A q \in Writers : pushed'[q] = pushed[q]
    BY <2>1, <1>1 DEF Reserve, TypeOK, Writers, At
  <2>3. \A q \in Producers : pc'[q] # "idle" => pushed'[q] # 0
    BY <1>1 DEF Reserve, Goto, TypeOK, IInv, TicketInv
  <2>. QED  BY <1>1, <2>1, <2>2, <2>3, QuietStep
<1>. QED  BY <1>2, <1>3, <1>4 DEF IInv

LEMMA UnreserveStep ==
  ASSUME IInv, NEW p \in Producers, Unreserve(p)
  PROVE  IInv'
<1>1. /\ Goto(p, "refused", "count")
      /\ TypeOK
      /\ UNCHANGED <<head, tail, valid, data, pushed, ticket, cpc, obj, order, out>>
  BY DEF Unreserve, IInv, consumerVars, history
<1>2. CountInv' /\ used' \in Nat
  <2>1. Live' = Live /\ Live \in Nat /\ used' = used - 1 /\ used \in Nat
    BY <1>1 DEF Live, Released, TypeOK, Unreserve, IInv, ConsumerInv
  <2>2. Cardinality(At({"reserved", "refused"})') = Cardinality(At({"reserved", "refused"})) - 1
    BY <1>1, AtLeave
  <2>3. Cardinality(At({"reserved"})') = Cardinality(At({"reserved"}))
    BY <1>1, AtSame
  <2>4. /\ Cardinality(At({"reserved", "refused"})) \in Nat
        /\ Cardinality(At({"reserved", "refused"})') \in Nat
    <3>1. IsFiniteSet(At({"reserved", "refused"})')
      BY ProducersAssumption, FS_Subset DEF At
    <3>. QED  BY <3>1, AtFinite, FS_CardinalityType
  <2>. QED  BY <2>1, <2>2, <2>3, <2>4 DEF IInv, CountInv
<1>3. TypeOK'
  BY <1>1, <1>2 DEF Unreserve, Goto, TypeOK, PCs, consumerVars, history
<1>4. TicketInv' /\ ConsumerInv' /\ CellInv' /\ HistoryInv'
  <2>1. Writers' = Writers /\ At({"validate"})' = At({"validate"})
    BY <1>1 DEF Goto, Writers, At, TypeOK
  <2>2. \A q \in Producers : pc'[q] # "idle" => pushed'[q] # 0
    BY <1>1 DEF Goto, TypeOK, IInv, TicketInv
  <2>. QED  BY <1>1, <2>1, <2>2, QuietStep
<1>. QED  BY <1>2, <1>3, <1>4 DEF IInv

LEMMA CountLostStep ==
  ASSUME IInv, NEW p \in Producers, CountLost(p)
  PROVE  IInv'
<1>1. /\ Goto(p, "count", "idle")
      /\ TypeOK
      /\ UNCHANGED <<used, head, tail, valid, data, pushed, ticket, cpc, obj, order, out>>
  BY DEF CountLost, IInv, consumerVars, history
<1>2. CountInv'
  <2>1. Live' = Live
    BY <1>1 DEF Live, Released
  <2>2. Cardinality(At({"reserved", "refused"})') = Cardinality(At({"reserved", "refused"}))
    BY <1>1, AtSame
  <2>3. Cardinality(At({"reserved"})') = Cardinality(At({"reserved"}))
    <3>1. "count" \notin {"reserved"} /\ "idle" \notin {"reserved"}
      OBVIOUS
    <3>. QED  BY <3>1, <1>1, AtSame
  <2>. QED  BY <1>1, <2>1, <2>2, <2>3 DEF IInv, CountInv
<1>3. TypeOK'
  BY <1>1 DEF CountLost, Goto, TypeOK, PCs, consumerVars, history
<1>4. TicketInv' /\ ConsumerInv' /\ CellInv' /\ HistoryInv'
  <2>1. Writers' = Writers /\ At({"validate"})' = At({"validate"})
    BY <1>1 DEF Goto, Writers, At, TypeOK
  <2>2. \A q \in Producers : pc'[q] # "idle" => pushed'[q] # 0
    BY <1>1 DEF Goto, TypeOK, IInv, TicketInv
  <2>. QED  BY <1>1, <2>1, <2>2, QuietStep
<1>. QED  BY <1>2, <1>3, <1>4 DEF IInv
(* What the invariant says of the live tickets. *)
LEMMA LiveFacts ==
  ASSUME IInv
  PROVE  /\ Released \in Nat /\ head \in Nat /\ tail \in Nat
         /\ tail <= Released /\ Released <= head /\ head - Released <= N
         /\ LiveTickets \subseteq Nat
         /\ \A s, t \in LiveTickets : Slot(s) = Slot(t) => s = t
<1>1. /\ Released \in Nat /\ head \in Nat /\ tail \in Nat
      /\ tail <= Released /\ Released <= head
  BY DEF IInv, TypeOK, ConsumerInv, Released
<1>2. head - Released <= N
  BY <1>1, AtFinite, NAssumption DEF IInv, CountInv, Live
<1>3. \A s, t \in LiveTickets : Slot(s) = Slot(t) => s = t
  BY <1>1, <1>2, LiveSlotsDiffer DEF LiveTickets
<1>. QED  BY <1>1, <1>2, <1>3 DEF LiveTickets

(* A producer holding a reservation finds a free slot: the next ticket     *)
(* names a slot that no live ticket names and that is not valid.           *)
LEMMA FreshSlot ==
  ASSUME IInv, NEW p \in Producers, pc[p] = "reserved"
  PROVE  /\ head - Released < N
         /\ \A t \in LiveTickets : Slot(t) # Slot(head)
         /\ ~valid[Slot(head)]
<1>1. Cardinality(At({"reserved"})) >= 1
  <2>1. p \in At({"reserved"})
    BY DEF At
  <2>2. Cardinality(At({"reserved"})) # 0
    BY <2>1, AtFinite, FS_EmptySet
  <2>. QED  BY <2>2, AtFinite
<1>2. head - Released < N
  BY <1>1, AtFinite, LiveFacts, NAssumption DEF IInv, CountInv, Live
<1>3. \A t \in LiveTickets : t \in Nat /\ t < head /\ head - t < N
  BY <1>2, LiveFacts, NAssumption DEF LiveTickets
<1>4. \A t \in LiveTickets : Slot(t) # Slot(head)
  BY <1>3, LiveFacts, SlotsDiffer
<1>5. Slot(head) \in Slots
  BY LiveFacts, SlotType
<1>. QED  BY <1>2, <1>4, <1>5 DEF IInv, CellInv

LEMMA TakeTicketStep ==
  ASSUME IInv, NEW p \in Producers, TakeTicket(p)
  PROVE  IInv'
<1>1. /\ Goto(p, "reserved", "write")
      /\ TypeOK /\ pc[p] = "reserved" /\ p \notin Writers
      /\ ticket' = [ticket EXCEPT ![p] = head]
      /\ head' = head + 1
      /\ order' = Append(order, Item(p))
      /\ UNCHANGED <<used, tail, valid, data, pushed, cpc, obj, out>>
  BY DEF TakeTicket, IInv, consumerVars, Goto, Writers, At
<1>2. Item(p) \in Items /\ pushed[p] # 0
  BY <1>1, MaxPushAssumption DEF IInv, TicketInv, TypeOK, Items, Item
<1>3. TypeOK'
  BY <1>1, <1>2 DEF TakeTicket, Goto, TypeOK, PCs, consumerVars
<1>4. /\ Released' = Released
      /\ LiveTickets' = LiveTickets \cup {head}
      /\ head \notin LiveTickets
      /\ Writers' = Writers \cup {p}
      /\ At({"validate"})' = At({"validate"})
      /\ At({"validate"}) \subseteq Writers
  <2>1. Released' = Released
    BY <1>1 DEF Released
  <2>2. LiveTickets' = LiveTickets \cup {head} /\ head \notin LiveTickets
    BY <2>1, <1>1, LiveFacts DEF LiveTickets
  <2>. QED  BY <2>1, <2>2, <1>1 DEF Writers, At, Goto, TypeOK
<1>5. /\ Len(order) = head
      /\ \A i \in 1 .. head : order'[i] = order[i]
      /\ order'[head + 1] = Item(p)
      /\ Len(order') = head + 1
  <2>1. Len(order) = head /\ order \in Seq(Items)
    BY DEF IInv, HistoryInv, TypeOK
  <2>. QED  BY <1>1, <1>2, <2>1, AppendFacts
<1>6. /\ \A q \in Writers : ticket'[q] = ticket[q] /\ q # p
      /\ ticket'[p] = head
      /\ \A q \in Producers : Item(q)' = Item(q)
  <2>1. \A q \in Writers : q \in Producers /\ q # p
    BY <1>1 DEF Writers, At
  <2>. QED  BY <2>1, <1>1 DEF TypeOK, Item
<1>7. /\ \A q \in Writers : ticket[q] \in LiveTickets
      /\ \A t \in LiveTickets : t \in Nat /\ t + 1 \in 1 .. head
  BY LiveFacts DEF IInv, TicketInv, LiveTickets
<1>8. CountInv'
  <2>1. Cardinality(At({"reserved", "refused"})') = Cardinality(At({"reserved", "refused"})) - 1
    BY <1>1, AtLeave
  <2>2. Cardinality(At({"reserved"})') = Cardinality(At({"reserved"})) - 1
    <3>1. "reserved" \in {"reserved"} /\ "write" \notin {"reserved"}
      OBVIOUS
    <3>. QED  BY <3>1, <1>1, AtLeave
  <2>3. /\ Cardinality(At({"reserved", "refused"})) \in Nat
        /\ Cardinality(At({"reserved"})) \in Nat
    BY AtFinite
  <2>4. Live' = Live + 1 /\ Live \in Int /\ used' = used /\ used \in Nat
    BY <1>1, <1>4, LiveFacts DEF Live, TypeOK
  <2>. QED  BY <2>1, <2>2, <2>3, <2>4, NAssumption DEF IInv, CountInv
<1>9. TicketInv'
  <2>1. \A q \in Producers : pc'[q] # "idle" => pushed'[q] # 0
    BY <1>1, <1>2 DEF Goto, TypeOK, IInv, TicketInv
  <2>2. \A q \in Writers' : ticket'[q] \in LiveTickets'
                         /\ order'[ticket'[q] + 1] = Item(q)'
    <3>1. ASSUME NEW q \in Writers
          PROVE  /\ ticket'[q] = ticket[q] /\ ticket[q] \in LiveTickets
                 /\ order'[ticket[q] + 1] = Item(q) /\ Item(q)' = Item(q)
      <4>1. q \in Producers
        BY DEF Writers, At
      <4>. QED  BY <4>1, <1>5, <1>6, <1>7 DEF IInv, TicketInv
    <3>2. /\ ticket'[p] = head /\ head \in LiveTickets'
          /\ order'[head + 1] = Item(p) /\ Item(p)' = Item(p)
      BY <1>4, <1>5, <1>6
    <3>. QED  BY <3>1, <3>2, <1>4
  <2>3. \A q, r \in Writers' : ticket'[q] = ticket'[r] => q = r
    BY <1>4, <1>6, <1>7 DEF IInv, TicketInv
  <2>4. \A q \in At({"validate"})' : data'[Slot(ticket'[q])] = Item(q)'
    BY <1>1, <1>4, <1>6 DEF IInv, TicketInv, At
  <2>. QED  BY <2>1, <2>2, <2>3, <2>4 DEF TicketInv, Slot
<1>10. \A t \in LiveTickets : Published(t)' <=> Published(t)
  BY <1>4, <1>6 DEF Published
<1>11. ConsumerInv'
  <2>1. tail <= head /\ tail' <= head'
    BY <1>1, LiveFacts
  <2>2. cpc \in {"move", "invalidate", "release"} =>
          tail \in LiveTickets /\ Published(tail)' /\ tail' < head'
    BY <1>1, <1>10, LiveFacts DEF IInv, ConsumerInv, LiveTickets, Released
  <2>3. cpc = "advance" => tail' < head'
    BY <1>1, LiveFacts DEF IInv, ConsumerInv
  <2>4. cpc \in {"invalidate", "release"} => obj' = order'[tail' + 1]
    BY <1>1, <1>5, <1>7, <2>2 DEF IInv, ConsumerInv
  <2>. QED  BY <1>1, <2>1, <2>2, <2>3, <2>4 DEF IInv, ConsumerInv
<1>12. CellInv'
  <2>0. \A t : t = head => ~Published(t)'
    BY <1>4, <1>6 DEF Published
  <2>1. (\A t : t = head => ~Published(t)') /\ ~valid[Slot(head)]
    BY <1>1, <2>0, FreshSlot
  <2>2. \A t \in LiveTickets' :
          valid'[Slot(t)] <=> Published(t)' /\ ~(t = tail' /\ cpc' = "release")
    BY <1>1, <1>4, <1>10, <2>1 DEF IInv, CellInv
  <2>3. \A s \in Slots : valid'[s] => \E t \in LiveTickets' : Slot(t) = s
    BY <1>1, <1>4 DEF IInv, CellInv
  <2>4. \A t \in LiveTickets' :
          Published(t)' /\ ~(t = tail' /\ cpc' \in {"invalidate", "release"}) =>
            data'[Slot(t)] = order'[t + 1]
    BY <1>1, <1>4, <1>5, <1>7, <1>10, <2>1 DEF IInv, CellInv
  <2>. QED  BY <2>2, <2>3, <2>4 DEF CellInv
<1>13. HistoryInv'
  BY <1>1, <1>4, <1>5, LiveFacts DEF IInv, HistoryInv
<1>. QED  BY <1>3, <1>8, <1>9, <1>11, <1>12, <1>13 DEF IInv
LEMMA WriteStep ==
  ASSUME IInv, NEW p \in Producers, Write(p)
  PROVE  IInv'
<1> DEFINE k == ticket[p]
<1>1. /\ Goto(p, "write", "validate")
      /\ TypeOK /\ p \in Writers
      /\ data' = [data EXCEPT ![Slot(k)] = Item(p)]
      /\ UNCHANGED <<used, head, lost, tail, valid, pushed, ticket, cpc, obj, order, out>>
  BY DEF Write, IInv, consumerVars, history, Goto, Writers, At
<1>2. Item(p) \in Items /\ pushed[p] # 0
  BY <1>1, MaxPushAssumption DEF Goto, IInv, TicketInv, TypeOK, Items, Item
<1>3. /\ Released' = Released
      /\ LiveTickets' = LiveTickets
      /\ Writers' = Writers
      /\ At({"validate"})' = At({"validate"}) \cup {p}
      /\ At({"validate"}) \subseteq Writers
      /\ \A q \in Producers : Item(q)' = Item(q)
  BY <1>1 DEF Released, LiveTickets, Writers, At, Goto, TypeOK, Item
<1>4. /\ k \in LiveTickets /\ Slot(k) \in Slots
      /\ ~Published(k)
      /\ \A t \in LiveTickets : t # k => data'[Slot(t)] = data[Slot(t)]
      /\ data'[Slot(k)] = Item(p)
  <2>1. k \in LiveTickets /\ ~Published(k)
    BY <1>1 DEF IInv, TicketInv, Published
  <2>2. k \in Nat /\ Slot(k) \in Slots /\ data \in [Slots -> Items \cup {None}]
    BY <2>1, LiveFacts, SlotType DEF IInv, TypeOK
  <2>3. \A t \in LiveTickets : t # k => Slot(t) # Slot(k) /\ Slot(t) \in Slots
    BY <2>1, LiveFacts, SlotType
  <2>. QED  BY <1>1, <2>1, <2>2, <2>3
<1>5. TypeOK'
  BY <1>1, <1>2 DEF Goto, TypeOK, PCs
<1>6. CountInv'
  <2>1. Cardinality(At({"reserved", "refused"})') = Cardinality(At({"reserved", "refused"}))
    BY <1>1, AtSame
  <2>2. Cardinality(At({"reserved"})') = Cardinality(At({"reserved"}))
    <3>1. "write" \notin {"reserved"} /\ "validate" \notin {"reserved"}
      OBVIOUS
    <3>. QED  BY <3>1, <1>1, AtSame
  <2>3. Live' = Live
    BY <1>1, <1>3 DEF Live
  <2>. QED  BY <2>1, <2>2, <2>3, <1>1 DEF IInv, CountInv
<1>7. \A t : Published(t)' <=> Published(t)
  BY <1>1, <1>3 DEF Published
<1>8. TicketInv'
  <2>1. \A q \in Producers : pc'[q] # "idle" => pushed'[q] # 0
    BY <1>1, <1>2 DEF Goto, TypeOK, IInv, TicketInv
  <2>2. \A q \in Writers : q \in Producers
    BY DEF Writers, At
  <2>3. \A q \in At({"validate"}) \cup {p} : data'[Slot(ticket[q])] = Item(q)
    <3>1. ASSUME NEW q \in At({"validate"}), q # p
          PROVE  data'[Slot(ticket[q])] = Item(q)
      BY <3>1, <1>1, <1>3, <1>4 DEF IInv, TicketInv
    <3>. QED  BY <3>1, <1>4
  <2>4. \A q \in At({"validate"})' : data'[Slot(ticket'[q])] = Item(q)'
    BY <1>1, <1>3, <2>2, <2>3
  <2>5. /\ \A q \in Writers' : ticket'[q] \in LiveTickets'
                           /\ order'[ticket'[q] + 1] = Item(q)'
        /\ \A q, r \in Writers' : ticket'[q] = ticket'[r] => q = r
    BY <1>1, <1>3, <2>2 DEF IInv, TicketInv
  <2>. QED  BY <2>1, <2>4, <2>5 DEF TicketInv, Slot
<1>9. ConsumerInv'
  BY <1>1, <1>7 DEF IInv, ConsumerInv
<1>10. CellInv'
  <2>1. \A t \in LiveTickets :
          Published(t) /\ ~(t = tail /\ cpc \in {"invalidate", "release"}) =>
            data'[Slot(t)] = order[t + 1]
    BY <1>4 DEF IInv, CellInv
  <2>. QED  BY <1>1, <1>3, <1>7, <2>1 DEF IInv, CellInv
<1>11. HistoryInv'
  BY <1>1, <1>3 DEF IInv, HistoryInv
<1>. QED  BY <1>5, <1>6, <1>8, <1>9, <1>10, <1>11 DEF IInv

LEMMA ValidateStep ==
  ASSUME IInv, NEW p \in Producers, Validate(p)
  PROVE  IInv'
<1> DEFINE k == ticket[p]
<1>1. /\ Goto(p, "validate", "idle")
      /\ TypeOK /\ p \in Writers /\ p \in At({"validate"})
      /\ valid' = [valid EXCEPT ![Slot(k)] = TRUE]
      /\ UNCHANGED <<used, head, lost, tail, data, pushed, ticket, cpc, obj, order, out>>
  BY DEF Validate, IInv, consumerVars, history, Goto, Writers, At
<1>2. /\ Released' = Released
      /\ LiveTickets' = LiveTickets
      /\ Writers' = Writers \ {p}
      /\ At({"validate"})' = At({"validate"}) \ {p}
      /\ At({"validate"}) \subseteq Writers
      /\ \A q \in Producers : Item(q)' = Item(q)
      /\ Writers \subseteq Producers
  BY <1>1 DEF Released, LiveTickets, Writers, At, Goto, TypeOK, Item
<1>3. /\ k \in LiveTickets /\ Slot(k) \in Slots
      /\ ~Published(k)
      /\ \A t \in LiveTickets : t # k => valid'[Slot(t)] = valid[Slot(t)]
      /\ valid'[Slot(k)] = TRUE
      /\ data[Slot(k)] = order[k + 1]
  <2>1. k \in LiveTickets /\ ~Published(k) /\ data[Slot(k)] = order[k + 1]
    BY <1>1 DEF IInv, TicketInv, Published
  <2>2. k \in Nat /\ Slot(k) \in Slots /\ valid \in [Slots -> BOOLEAN]
    BY <2>1, LiveFacts, SlotType DEF IInv, TypeOK
  <2>3. \A t \in LiveTickets : t # k => Slot(t) # Slot(k) /\ Slot(t) \in Slots
    BY <2>1, LiveFacts, SlotType
  <2>. QED  BY <1>1, <2>1, <2>2, <2>3
<1>4. TypeOK'
  BY <1>1 DEF Goto, TypeOK, PCs
<1>5. CountInv'
  <2>1. Cardinality(At({"reserved", "refused"})') = Cardinality(At({"reserved", "refused"}))
    BY <1>1, AtSame
  <2>2. Cardinality(At({"reserved"})') = Cardinality(At({"reserved"}))
    <3>1. "idle" \notin {"reserved"} /\ "validate" \notin {"reserved"}
      OBVIOUS
    <3>. QED  BY <3>1, <1>1, AtSame
  <2>3. Live' = Live
    BY <1>1, <1>2 DEF Live
  <2>. QED  BY <2>1, <2>2, <2>3, <1>1 DEF IInv, CountInv
<1>6. \A t \in LiveTickets : t # k => (Published(t)' <=> Published(t))
  BY <1>1, <1>2 DEF Published
<1>7. \A t : t = k => Published(t)'
  BY <1>1, <1>2 DEF Published, IInv, TicketInv
<1>8. TicketInv'
  <2>1. \A q \in Producers : pc'[q] # "idle" => pushed'[q] # 0
    BY <1>1 DEF Goto, TypeOK, IInv, TicketInv
  <2>2. \A q \in At({"validate"})' : data'[Slot(ticket'[q])] = Item(q)'
    BY <1>1, <1>2 DEF IInv, TicketInv
  <2>3. /\ \A q \in Writers' : ticket'[q] \in LiveTickets'
                           /\ order'[ticket'[q] + 1] = Item(q)'
        /\ \A q, r \in Writers' : ticket'[q] = ticket'[r] => q = r
    BY <1>1, <1>2 DEF IInv, TicketInv
  <2>. QED  BY <2>1, <2>2, <2>3 DEF TicketInv, Slot
<1>9. cpc \in {"move", "invalidate", "release"} => tail \in LiveTickets /\ tail # k
  <2>1. cpc \in {"move", "invalidate", "release"} =>
          tail < head /\ Published(tail) /\ Released = tail
    BY DEF IInv, ConsumerInv, Released
  <2>2. Published(tail) => tail # k
    BY <1>3
  <2>. QED  BY <2>1, <2>2, LiveFacts DEF LiveTickets
<1>10. ConsumerInv'
  <2>1. cpc \in {"move", "invalidate", "release"} => tail < head /\ Published(tail)'
    BY <1>1, <1>6, <1>9 DEF IInv, ConsumerInv
  <2>2. cpc \in {"move", "invalidate"} => valid'[Slot(tail)]
    BY <1>3, <1>9 DEF IInv, ConsumerInv
  <2>. QED  BY <1>1, <2>1, <2>2 DEF IInv, ConsumerInv, Slot
<1>11. CellInv'
  <2>1. \A t \in LiveTickets :
          valid'[Slot(t)] <=> Published(t)' /\ ~(t = tail /\ cpc = "release")
    BY <1>3, <1>6, <1>7, <1>9 DEF IInv, CellInv
  <2>2. \A s \in Slots : valid'[s] => \E t \in LiveTickets : Slot(t) = s
    BY <1>1, <1>3 DEF IInv, CellInv, TypeOK
  <2>3. \A t \in LiveTickets :
          Published(t)' /\ ~(t = tail /\ cpc \in {"invalidate", "release"}) =>
            data[Slot(t)] = order[t + 1]
    BY <1>3, <1>6 DEF IInv, CellInv
  <2>. QED  BY <1>1, <1>2, <2>1, <2>2, <2>3 DEF CellInv
<1>12. HistoryInv'
  BY <1>1, <1>2 DEF IInv, HistoryInv
<1>. QED  BY <1>4, <1>5, <1>8, <1>10, <1>11, <1>12 DEF IInv
(* No step of pop() moves a producer or touches its ticket. *)
LEMMA PopFrame ==
  ASSUME UNCHANGED <<pc, pushed, ticket>>
  PROVE  /\ Writers' = Writers
         /\ \A S : At(S)' = At(S)
         /\ \A t : Published(t)' <=> Published(t)
         /\ \A q \in Producers : Item(q)' = Item(q)
BY DEF Writers, At, Published, Item

LEMMA LoadUsedStep ==
  ASSUME IInv, LoadUsed
  PROVE  IInv'
<1>1. /\ UNCHANGED <<used, head, lost, tail, valid, data, pc, pushed, ticket, order, out>>
      /\ cpc = "idle" /\ cpc' \in {"idle", "check"} /\ obj' = None
  BY DEF LoadUsed, shared, producerVars, history
<1>2. Released' = Released /\ LiveTickets' = LiveTickets /\ Live' = Live
  BY <1>1 DEF Released, LiveTickets, Live
<1>3. TypeOK'
  BY <1>1 DEF IInv, TypeOK, CPCs
<1>4. CountInv'
  BY <1>1, <1>2, PopFrame DEF IInv, CountInv
<1>5. TicketInv'
  BY <1>1, <1>2, PopFrame DEF IInv, TicketInv, Writers, At, Item
<1>6. ConsumerInv'
  BY <1>1 DEF IInv, ConsumerInv
<1>7. CellInv'
  BY <1>1, <1>2, PopFrame DEF IInv, CellInv
<1>8. HistoryInv'
  BY <1>1, <1>2 DEF IInv, HistoryInv
<1>. QED  BY <1>3, <1>4, <1>5, <1>6, <1>7, <1>8 DEF IInv

LEMMA CheckValidStep ==
  ASSUME IInv, CheckValid
  PROVE  IInv'
<1>1. /\ UNCHANGED <<used, head, lost, tail, valid, data, pc, pushed, ticket, obj, order, out>>
      /\ cpc = "check" /\ cpc' \in {"idle", "move"}
      /\ cpc' = "move" => valid[Slot(tail)]
  BY DEF CheckValid, shared, producerVars, history
<1>2. Released' = Released /\ Released = tail /\ LiveTickets' = LiveTickets /\ Live' = Live
  BY <1>1 DEF Released, LiveTickets, Live
<1>3. TypeOK'
  BY <1>1 DEF IInv, TypeOK, CPCs
<1>4. CountInv'
  BY <1>1, <1>2, PopFrame DEF IInv, CountInv
<1>5. TicketInv'
  BY <1>1, <1>2, PopFrame DEF IInv, TicketInv, Writers, At, Item
<1>6. cpc' = "move" => tail < head /\ Published(tail) /\ valid[Slot(tail)]
  <2> SUFFICES ASSUME cpc' = "move"
               PROVE  tail < head /\ Published(tail) /\ valid[Slot(tail)]
    OBVIOUS
  <2>1. PICK t \in LiveTickets : Slot(t) = Slot(tail)
    BY <1>1, LiveFacts, SlotType DEF IInv, CellInv
  <2>2. tail \in LiveTickets
    BY <2>1, <1>2, LiveFacts DEF LiveTickets
  <2>3. tail < head
    BY <2>2, LiveFacts DEF LiveTickets
  <2>. QED  BY <1>1, <2>2, <2>3 DEF IInv, CellInv
<1>7. ConsumerInv'
  BY <1>1, <1>6, PopFrame DEF IInv, ConsumerInv, Published, Writers, At
<1>8. CellInv'
  BY <1>1, <1>2, PopFrame DEF IInv, CellInv
<1>9. HistoryInv'
  BY <1>1, <1>2 DEF IInv, HistoryInv
<1>. QED  BY <1>3, <1>4, <1>5, <1>7, <1>8, <1>9 DEF IInv

LEMMA MoveOutStep ==
  ASSUME IInv, MoveOut
  PROVE  IInv'
<1>1. /\ UNCHANGED <<used, head, lost, tail, valid, pc, pushed, ticket, order, out>>
      /\ cpc = "move" /\ cpc' = "invalidate"
      /\ obj' = data[Slot(tail)]
      /\ data' = [data EXCEPT ![Slot(tail)] = None]
      /\ tail < head /\ Published(tail) /\ valid[Slot(tail)]
  BY DEF MoveOut, producerVars, history, IInv, ConsumerInv
<1>2. /\ Released' = Released /\ LiveTickets' = LiveTickets /\ Live' = Live
      /\ tail \in LiveTickets /\ Slot(tail) \in Slots
  BY <1>1, LiveFacts, SlotType DEF Released, LiveTickets, Live
<1>3. \A t \in LiveTickets : t # tail => data'[Slot(t)] = data[Slot(t)]
  <2>1. \A t \in LiveTickets : t # tail => Slot(t) # Slot(tail) /\ Slot(t) \in Slots
    BY <1>2, LiveFacts, SlotType
  <2>. QED  BY <2>1, <1>1 DEF IInv, TypeOK
<1>4. TypeOK'
  BY <1>1, <1>2 DEF IInv, TypeOK, CPCs
<1>5. CountInv'
  BY <1>1, <1>2, PopFrame DEF IInv, CountInv
<1>6. TicketInv'
  <2>1. \A q \in Writers : ticket[q] \in LiveTickets /\ ticket[q] # tail
    BY <1>1 DEF IInv, TicketInv, Published
  <2>2. At({"validate"}) \subseteq Writers /\ Writers \subseteq Producers
    BY DEF At, Writers
  <2>3. \A q \in At({"validate"})' : data'[Slot(ticket'[q])] = Item(q)'
    BY <1>1, <1>3, <2>1, <2>2, PopFrame DEF IInv, TicketInv
  <2>4. /\ \A q \in Writers' : ticket'[q] \in LiveTickets'
                           /\ order'[ticket'[q] + 1] = Item(q)'
        /\ \A q, r \in Writers' : ticket'[q] = ticket'[r] => q = r
    BY <1>1, <1>2, <2>2, PopFrame DEF IInv, TicketInv
  <2>5. \A q \in Producers : pc'[q] # "idle" => pushed'[q] # 0
    BY <1>1 DEF IInv, TicketInv
  <2>. QED  BY <2>3, <2>4, <2>5 DEF TicketInv, Slot
<1>7. ConsumerInv'
  <2>1. obj' = order[tail + 1]
    BY <1>1, <1>2 DEF IInv, CellInv
  <2>2. Published(tail)'
    BY <1>1 DEF Published, Writers, At
  <2>. QED  BY <1>1, <2>1, <2>2 DEF IInv, ConsumerInv, Slot
<1>8. CellInv'
  <2>1. \A t \in LiveTickets :
          Published(t) /\ t # tail => data'[Slot(t)] = order[t + 1]
    BY <1>1, <1>3 DEF IInv, CellInv
  <2>. QED  BY <1>1, <1>2, <2>1, PopFrame DEF IInv, CellInv
<1>9. HistoryInv'
  BY <1>1, <1>2 DEF IInv, HistoryInv
<1>. QED  BY <1>4, <1>5, <1>6, <1>7, <1>8, <1>9 DEF IInv

LEMMA InvalidateStep ==
  ASSUME IInv, Invalidate
  PROVE  IInv'
<1>1. /\ UNCHANGED <<used, head, lost, tail, data, pc, pushed, ticket, obj, order, out>>
      /\ cpc = "invalidate" /\ cpc' = "release"
      /\ valid' = [valid EXCEPT ![Slot(tail)] = FALSE]
      /\ tail < head /\ Published(tail)
  BY DEF Invalidate, producerVars, history, IInv, ConsumerInv
<1>2. /\ Released' = Released /\ LiveTickets' = LiveTickets /\ Live' = Live
      /\ tail \in LiveTickets /\ Slot(tail) \in Slots
  BY <1>1, LiveFacts, SlotType DEF Released, LiveTickets, Live
<1>3. /\ \A t \in LiveTickets : t # tail => valid'[Slot(t)] = valid[Slot(t)]
      /\ ~valid'[Slot(tail)]
  <2>1. \A t \in LiveTickets : t # tail => Slot(t) # Slot(tail) /\ Slot(t) \in Slots
    BY <1>2, LiveFacts, SlotType
  <2>. QED  BY <2>1, <1>1, <1>2 DEF IInv, TypeOK
<1>4. TypeOK'
  BY <1>1, <1>2 DEF IInv, TypeOK, CPCs
<1>5. CountInv'
  BY <1>1, <1>2, PopFrame DEF IInv, CountInv
<1>6. TicketInv'
  BY <1>1, <1>2, PopFrame DEF IInv, TicketInv, Writers, At, Item
<1>7. ConsumerInv'
  <2>1. Published(tail)'
    BY <1>1 DEF Published, Writers, At
  <2>. QED  BY <1>1, <2>1 DEF IInv, ConsumerInv
<1>8. CellInv'
  <2>1. \A t \in LiveTickets : valid'[Slot(t)] <=> Published(t) /\ t # tail
    BY <1>1, <1>3 DEF IInv, CellInv
  <2>2. \A s \in Slots : valid'[s] => valid[s]
    BY <1>1 DEF IInv, TypeOK
  <2>. QED  BY <1>1, <1>2, <2>1, <2>2, PopFrame DEF IInv, CellInv
<1>9. HistoryInv'
  BY <1>1, <1>2 DEF IInv, HistoryInv
<1>. QED  BY <1>4, <1>5, <1>6, <1>7, <1>8, <1>9 DEF IInv

LEMMA ReleaseStep ==
  ASSUME IInv, Release
  PROVE  IInv'
<1>1. /\ UNCHANGED <<head, lost, tail, valid, data, pc, pushed, ticket, obj, order>>
      /\ cpc = "release" /\ cpc' = "advance"
      /\ used' = used - 1
      /\ out' = Append(out, obj)
      /\ tail < head /\ Published(tail) /\ obj = order[tail + 1]
  BY DEF Release, producerVars, IInv, ConsumerInv
<1>2. /\ Released = tail /\ Released' = tail + 1
      /\ tail \in LiveTickets
      /\ LiveTickets' = LiveTickets \ {tail}
      /\ Live' = Live - 1 /\ Live \in Nat /\ Live # 0
  BY <1>1, LiveFacts DEF Released, LiveTickets, Live
<1>3. CountInv' /\ used' \in Nat
  <2>1. /\ Cardinality(At({"reserved", "refused"})) \in Nat
        /\ Cardinality(At({"reserved"})) \in Nat
    BY AtFinite
  <2>2. /\ At({"reserved", "refused"})' = At({"reserved", "refused"})
        /\ At({"reserved"})' = At({"reserved"})
    BY <1>1 DEF At
  <2>3. /\ used = Live + Cardinality(At({"reserved", "refused"}))
        /\ Live + Cardinality(At({"reserved"})) <= N
    BY DEF IInv, CountInv
  <2>4. /\ used' = Live' + Cardinality(At({"reserved", "refused"}))
        /\ Live' + Cardinality(At({"reserved"})) <= N
        /\ used' \in Nat
    BY <1>1, <1>2, <2>1, <2>3, NAssumption
  <2>. QED  BY <2>2, <2>4 DEF CountInv
<1>4. obj \in Items \cup {None} /\ out \in Seq(Items \cup {None})
  BY DEF IInv, TypeOK
<1>5. TypeOK'
  BY <1>1, <1>3, <1>4, AppendFacts DEF IInv, TypeOK, CPCs
<1>6. TicketInv'
  <2>1. \A q \in Writers : ticket[q] \in LiveTickets /\ ticket[q] # tail
    BY <1>1 DEF IInv, TicketInv, Published
  <2>2. Writers \subseteq Producers
    BY DEF Writers, At
  <2>3. /\ \A q \in Writers' : ticket'[q] \in LiveTickets'
                           /\ order'[ticket'[q] + 1] = Item(q)'
        /\ \A q, r \in Writers' : ticket'[q] = ticket'[r] => q = r
    BY <1>1, <1>2, <2>1, <2>2, PopFrame DEF IInv, TicketInv
  <2>. QED  BY <1>1, <2>3, PopFrame DEF IInv, TicketInv, At, Item
<1>7. ConsumerInv'
  BY <1>1 DEF IInv, ConsumerInv
<1>8. CellInv'
  <2>1. ~valid[Slot(tail)]
    BY <1>1, <1>2 DEF IInv, CellInv
  <2>2. \A s \in Slots : valid[s] => \E t \in LiveTickets \ {tail} : Slot(t) = s
    BY <2>1 DEF IInv, CellInv
  <2>. QED  BY <1>1, <1>2, <2>2, PopFrame DEF IInv, CellInv
<1>9. HistoryInv'
  <2>1. Len(out) = tail /\ tail \in Nat /\ \A i \in 1 .. tail : out[i] = order[i]
    BY <1>2, LiveFacts DEF IInv, HistoryInv
  <2>2. /\ Len(out') = tail + 1
        /\ \A i \in 1 .. tail : out'[i] = out[i]
        /\ out'[tail + 1] = order[tail + 1]
    BY <1>1, <1>4, <2>1, AppendFacts
  <2>3. \A i \in 1 .. tail + 1 : out'[i] = order[i]
    BY <2>1, <2>2
  <2>. QED  BY <1>1, <1>2, <2>2, <2>3 DEF IInv, HistoryInv
<1>. QED  BY <1>3, <1>5, <1>6, <1>7, <1>8, <1>9 DEF IInv

LEMMA AdvanceStep ==
  ASSUME IInv, Advance
  PROVE  IInv'
<1>1. /\ UNCHANGED <<used, head, lost, valid, data, pc, pushed, ticket, obj, order, out>>
      /\ cpc = "advance" /\ cpc' = "idle"
      /\ tail' = tail + 1 /\ tail < head
  BY DEF Advance, producerVars, history, IInv, ConsumerInv
<1>2. Released' = Released /\ LiveTickets' = LiveTickets /\ Live' = Live
  BY <1>1 DEF Released, LiveTickets, Live
<1>3. TypeOK'
  BY <1>1 DEF IInv, TypeOK, CPCs
<1>4. CountInv'
  BY <1>1, <1>2, PopFrame DEF IInv, CountInv
<1>5. TicketInv'
  BY <1>1, <1>2, PopFrame DEF IInv, TicketInv, Writers, At, Item
<1>6. ConsumerInv'
  BY <1>1, LiveFacts DEF IInv, ConsumerInv
<1>7. CellInv'
  BY <1>1, <1>2, PopFrame DEF IInv, CellInv
<1>8. HistoryInv'
  BY <1>1, <1>2 DEF IInv, HistoryInv
<1>. QED  BY <1>3, <1>4, <1>5, <1>6, <1>7, <1>8 DEF IInv

LEMMA StutterStep ==
  ASSUME IInv, UNCHANGED vars
  PROVE  IInv'
<1>1. /\ UNCHANGED <<used, head, lost, tail, valid, data, pc, pushed, ticket,
                     cpc, obj, order, out>>
  BY DEF vars
<1>2. Released' = Released /\ LiveTickets' = LiveTickets /\ Live' = Live
  BY <1>1 DEF Released, LiveTickets, Live
<1>3. TypeOK' /\ CountInv' /\ HistoryInv'
  BY <1>1, <1>2, PopFrame DEF IInv, TypeOK, CountInv, HistoryInv
<1>4. TicketInv'
  BY <1>1, <1>2, PopFrame DEF IInv, TicketInv, Writers, At, Item
<1>5. ConsumerInv' /\ CellInv'
  BY <1>1, <1>2, PopFrame DEF IInv, ConsumerInv, CellInv, Published, Writers, At
<1>. QED  BY <1>3, <1>4, <1>5 DEF IInv

LEMMA NextIInv == IInv /\ [Next]_vars => IInv'
<1> SUFFICES ASSUME IInv, [Next]_vars PROVE IInv'
  OBVIOUS
<1>1. ASSUME NEW p \in Producers, Push(p)
      PROVE  IInv'
  BY <1>1, ReserveStep, UnreserveStep, CountLostStep, TakeTicketStep,
     WriteStep, ValidateStep DEF Push
<1>2. CASE Pop
  BY <1>2, LoadUsedStep, CheckValidStep, MoveOutStep, InvalidateStep,
     ReleaseStep, AdvanceStep DEF Pop
<1>3. CASE UNCHANGED vars
  BY <1>3, StutterStep
<1>. QED  BY <1>1, <1>2, <1>3 DEF Next

THEOREM Invariance == SafeSpec => []IInv
BY InitIInv, NextIInv, PTL DEF SafeSpec

(***************************************************************************)
(* What the invariant implies.                                             *)
(***************************************************************************)

(* Every variable keeps its type; in particular no fetch_sub ever takes    *)
(* `used' below zero.                                                      *)
THEOREM TypeCorrect == SafeSpec => []TypeOK
<1>1. IInv => TypeOK
  BY DEF IInv
<1>. QED  BY <1>1, Invariance, PTL

(* Producers and consumer never touch one slot at the same time, whatever  *)
(* the number of threads and the number of slots.                          *)
THEOREM Exclusion == SafeSpec => []SlotsExclusive
<1>1. IInv => SlotsExclusive
  <2> SUFFICES ASSUME IInv PROVE SlotsExclusive
    OBVIOUS
  <2>1. \A p \in Writers : ticket[p] \in LiveTickets /\ ~Published(ticket[p])
    BY DEF IInv, TicketInv, Published
  <2>2. \A p, q \in Writers : Slot(ticket[p]) = Slot(ticket[q]) => p = q
    BY <2>1, LiveFacts DEF IInv, TicketInv
  <2>3. \A p \in Writers : ~valid[Slot(ticket[p])]
    BY <2>1 DEF IInv, CellInv
  <2>4. cpc \in {"move", "invalidate", "release"} =>
          tail \in LiveTickets /\ Published(tail)
    BY LiveFacts DEF IInv, ConsumerInv, LiveTickets, Released
  <2>5. cpc \in {"move", "invalidate", "release"} =>
          \A p \in Writers : Slot(ticket[p]) # Slot(tail)
    BY <2>1, <2>4, LiveFacts
  <2>. QED  BY <2>2, <2>3, <2>5 DEF SlotsExclusive
<1>. QED  BY <1>1, Invariance, PTL

(* `used' is exact: objects, reservations and refused pushes in flight.    *)
THEOREM ExactCount == SafeSpec => [](UsedIsExact /\ NeverOverbooked)
<1>1. IInv => UsedIsExact /\ NeverOverbooked
  BY LiveFacts DEF IInv, CountInv, UsedIsExact, NeverOverbooked
<1>. QED  BY <1>1, Invariance, PTL

(* pop() returns the accepted objects in ticket order, none lost, none     *)
(* twice.                                                                  *)
THEOREM TicketOrder == SafeSpec => []PopsInTicketOrder
<1>1. IInv => PopsInTicketOrder
  <2> SUFFICES ASSUME IInv PROVE PopsInTicketOrder
    OBVIOUS
  <2>1. /\ Len(order) = head /\ Len(out) = Released
        /\ \A i \in 1 .. Released : out[i] = order[i]
        /\ Released \in Nat /\ head \in Nat /\ Released <= head
    BY LiveFacts DEF IInv, HistoryInv
  <2>2. order \in Seq(Items) /\ out \in Seq(Items \cup {None})
    BY DEF IInv, TypeOK
  <2>3. /\ SubSeq(order, 1, Released) \in Seq(Items)
        /\ Len(SubSeq(order, 1, Released)) = Released
        /\ \A i \in 1 .. Released : SubSeq(order, 1, Released)[i] = order[i]
    BY <2>1, <2>2
  <2>4. out = SubSeq(order, 1, Released)
    BY <2>1, <2>2, <2>3
  <2>. QED  BY <2>1, <2>4 DEF PopsInTicketOrder
<1>. QED  BY <1>1, Invariance, PTL

(* A push is refused only when all but a slot per other producer is taken. *)
THEOREM Refusal == SafeSpec => RefusedOnlyWhenNearlyFull
<1>1. IInv /\ [Next]_vars =>
        [\A p \in Producers : pc[p] = "idle" /\ pc'[p] = "refused" =>
           Live >= N - (Cardinality(Producers) - 1)]_vars
  <2> SUFFICES ASSUME IInv, Next, NEW p \in Producers,
                      pc[p] = "idle", pc'[p] = "refused"
               PROVE  Live >= N - (Cardinality(Producers) - 1)
    OBVIOUS
  <2>1. used >= N
    <3>1. PICK q \in Producers : Push(q)
      BY DEF Next, Pop, LoadUsed, CheckValid, MoveOut, Invalidate, Release,
             Advance, producerVars
    <3>2. p = q
      BY <3>1 DEF Push, Reserve, Unreserve, CountLost, TakeTicket, Write,
                  Validate, Goto, IInv, TypeOK
    <3>. QED  BY <3>1, <3>2 DEF Push, Reserve, Unreserve, CountLost, TakeTicket,
                  Write, Validate, Goto, IInv, TypeOK
  <2>2. Cardinality(At({"reserved", "refused"})) <= Cardinality(Producers) - 1
    <3>1. At({"reserved", "refused"}) \subseteq Producers \ {p}
      BY DEF At
    <3>2. /\ IsFiniteSet(Producers \ {p})
          /\ Cardinality(Producers \ {p}) = Cardinality(Producers) - 1
      BY ProducersAssumption, FS_RemoveElement
    <3>. QED  BY <3>1, <3>2, FS_Subset
  <2>3. /\ Cardinality(At({"reserved", "refused"})) \in Nat
        /\ Cardinality(Producers) \in Nat /\ Live \in Int
    BY AtFinite, ProducersAssumption, FS_CardinalityType, LiveFacts DEF Live
  <2>. QED  BY <2>1, <2>2, <2>3, NAssumption DEF IInv, CountInv
<1>. QED  BY <1>1, Invariance, PTL DEF SafeSpec, RefusedOnlyWhenNearlyFull

(***************************************************************************)
(* The queue implements the abstract bounded FIFO.                         *)
(***************************************************************************)

LEMMA SubSeqFacts ==
  ASSUME NEW S, NEW seq \in Seq(S), NEW r \in 0 .. Len(seq)
  PROVE  LET sub == SubSeq(seq, r + 1, Len(seq))
         IN  /\ sub \in Seq(S)
             /\ Len(sub) = Len(seq) - r
             /\ \A i \in 1 .. Len(seq) - r : sub[i] = seq[r + i]
OBVIOUS

LEMMA SubSeqAppend ==
  ASSUME NEW S, NEW seq \in Seq(S), NEW r \in 0 .. Len(seq), NEW e \in S
  PROVE  SubSeq(Append(seq, e), r + 1, Len(seq) + 1)
           = Append(SubSeq(seq, r + 1, Len(seq)), e)
<1> DEFINE sub == SubSeq(seq, r + 1, Len(seq))
           longer == Append(seq, e)
           new == SubSeq(longer, r + 1, Len(longer))
           app == Append(sub, e)
<1>1. /\ sub \in Seq(S) /\ Len(sub) = Len(seq) - r
      /\ \A i \in 1 .. Len(seq) - r : sub[i] = seq[r + i]
  BY SubSeqFacts
<1>2. /\ longer \in Seq(S) /\ Len(longer) = Len(seq) + 1
      /\ \A i \in 1 .. Len(seq) : longer[i] = seq[i]
      /\ longer[Len(seq) + 1] = e
  BY AppendFacts
<1> HIDE DEF longer
<1>3. /\ new \in Seq(S) /\ Len(new) = Len(longer) - r
      /\ \A i \in 1 .. Len(longer) - r : new[i] = longer[r + i]
  <2>1. r \in 0 .. Len(longer)
    BY <1>2
  <2>. QED  BY <1>2, <2>1, SubSeqFacts
<1> HIDE DEF sub, new
<1>4. /\ app \in Seq(S) /\ Len(app) = Len(sub) + 1
      /\ \A i \in 1 .. Len(sub) : app[i] = sub[i]
      /\ app[Len(sub) + 1] = e
  BY <1>1, AppendFacts
<1> HIDE DEF app
<1>5. Len(new) = Len(app) /\ Len(app) = Len(seq) + 1 - r
  BY <1>1, <1>2, <1>3, <1>4
<1>6. \A i \in 1 .. Len(app) : new[i] = app[i]
  <2> SUFFICES ASSUME NEW i \in 1 .. Len(seq) + 1 - r
               PROVE  new[i] = app[i]
    BY <1>5
  <2>1. CASE i = Len(seq) + 1 - r
    <3>1. r + i = Len(seq) + 1 /\ i = Len(sub) + 1
      BY <2>1, <1>1
    <3>2. new[i] = longer[r + i]
      BY <1>2, <1>3
    <3>. QED  BY <3>1, <3>2, <1>2, <1>4
  <2>2. CASE i # Len(seq) + 1 - r
    <3>1. /\ i \in 1 .. Len(seq) - r /\ r + i \in 1 .. Len(seq)
          /\ i \in 1 .. Len(seq) + 1 - r
      BY <2>2
    <3>2. new[i] = longer[r + i]
      BY <3>1, <1>2, <1>3
    <3>3. longer[r + i] = seq[r + i]
      BY <3>1, <1>2
    <3>4. app[i] = sub[i] /\ sub[i] = seq[r + i]
      BY <3>1, <1>1, <1>4
    <3>. QED  BY <3>2, <3>3, <3>4
  <2>. QED  BY <2>1, <2>2
<1>7. new = app
  BY <1>3, <1>4, <1>5, <1>6
<1>. QED  BY <1>2, <1>7 DEF sub, new, app, longer

LEMMA SubSeqTail ==
  ASSUME NEW S, NEW seq \in Seq(S), NEW r \in Nat, r < Len(seq)
  PROVE  LET sub == SubSeq(seq, r + 1, Len(seq))
         IN  /\ sub # <<>>
             /\ Head(sub) = seq[r + 1]
             /\ Tail(sub) = SubSeq(seq, r + 2, Len(seq))
<1> DEFINE sub == SubSeq(seq, r + 1, Len(seq))
           rest == SubSeq(seq, r + 2, Len(seq))
<1>1. /\ sub \in Seq(S) /\ Len(sub) = Len(seq) - r
      /\ \A i \in 1 .. Len(seq) - r : sub[i] = seq[r + i]
  BY SubSeqFacts, r \in 0 .. Len(seq)
<1>2. /\ rest \in Seq(S) /\ Len(rest) = Len(seq) - (r + 1)
      /\ \A i \in 1 .. Len(seq) - (r + 1) : rest[i] = seq[(r + 1) + i]
  BY SubSeqFacts, r + 1 \in 0 .. Len(seq), (r + 1) + 1 = r + 2
<1> HIDE DEF sub, rest
<1>3. sub # <<>> /\ Head(sub) = seq[r + 1]
  BY <1>1
<1>4. Tail(sub) \in Seq(S) /\ Len(Tail(sub)) = Len(seq) - r - 1
  BY <1>1, <1>3
<1>5. \A i \in 1 .. Len(seq) - r - 1 : Tail(sub)[i] = rest[i]
  BY <1>1, <1>2, <1>3
<1>6. Tail(sub) = rest
  BY <1>2, <1>4, <1>5
<1>. QED  BY <1>3, <1>6 DEF sub, rest

(* Safety part of the implementation relation: a push takes effect when it *)
(* gets its ticket, a pop when it releases its slot, every other step of   *)
(* either operation is invisible.                                          *)
THEOREM Implementation == SafeSpec => Fifo!Init /\ [][Fifo!Next]_(Fifo!vars)
<1> DEFINE queue == SubSeq(order, Released + 1, head)
<1>1. Init => Fifo!Init
  BY DEF Init, Fifo!Init, Released
<1>2. IInv /\ [Next]_vars => [Fifo!Next]_(Fifo!vars)
  <2> SUFFICES ASSUME IInv, [Next]_vars
               PROVE  [Fifo!Next]_(Fifo!vars)
    OBVIOUS
  <2>0. /\ order \in Seq(Items) /\ Len(order) = head
        /\ Released \in Nat /\ head \in Nat /\ Released <= head
        /\ head - Released <= N /\ Released \in 0 .. Len(order)
    BY LiveFacts DEF IInv, TypeOK, HistoryInv
  <2>1. ASSUME NEW p \in Producers, TakeTicket(p)
        PROVE  Fifo!Next
    <3>1. Item(p) \in Items
      BY <2>1, MaxPushAssumption
         DEF TakeTicket, Goto, IInv, TicketInv, TypeOK, Items, Item
    <3>2. head - Released < N
      BY <2>1, FreshSlot DEF TakeTicket, Goto
    <3>3. Len(queue) = head - Released
      BY <2>0, SubSeqFacts
    <3>4. /\ head' = head + 1 /\ order' = Append(order, Item(p))
          /\ out' = out /\ Released' = Released
      BY <2>1 DEF TakeTicket, consumerVars, Released
    <3>5. queue' = Append(queue, Item(p))
      BY <2>0, <3>1, <3>4, SubSeqAppend
    <3>6. Fifo!Enqueue(Item(p))
      BY <3>2, <3>3, <3>4, <3>5, <2>0, NAssumption DEF Fifo!Enqueue
    <3>. QED  BY <3>1, <3>6 DEF Fifo!Next
  <2>2. CASE Release
    <3>1. /\ Released = tail /\ Released' = tail + 1 /\ tail < head
          /\ head' = head /\ order' = order /\ out' = Append(out, obj)
          /\ obj = order[tail + 1]
      BY <2>2 DEF Release, IInv, ConsumerInv, Released
    <3>2. /\ queue # <<>> /\ Head(queue) = order[tail + 1]
          /\ Tail(queue) = SubSeq(order, tail + 2, head)
      BY <2>0, <3>1, SubSeqTail
    <3>3. queue' = SubSeq(order, tail + 2, head)
      <4>1. (tail + 1) + 1 = tail + 2
        BY <2>0, <3>1
      <4>. QED  BY <3>1, <4>1
    <3>4. Fifo!Dequeue
      BY <3>1, <3>2, <3>3 DEF Fifo!Dequeue
    <3>. QED  BY <3>4 DEF Fifo!Next
  <2>3. ASSUME UNCHANGED <<order, out, head>>, Released' = Released
        PROVE  UNCHANGED Fifo!vars
    BY <2>3 DEF Fifo!vars
  <2>4. ASSUME NEW p \in Producers,
               Reserve(p) \/ Unreserve(p) \/ CountLost(p) \/ Write(p) \/ Validate(p)
        PROVE  UNCHANGED Fifo!vars
    BY <2>4, <2>3 DEF Reserve, Unreserve, CountLost, Write, Validate,
                      consumerVars, history, Released
  <2>5. CASE LoadUsed \/ CheckValid \/ MoveOut \/ Invalidate \/ Advance
    BY <2>5, <2>3, <2>0 DEF LoadUsed, CheckValid, MoveOut, Invalidate, Advance,
                      shared, producerVars, history, Released
  <2>6. CASE UNCHANGED vars
    BY <2>6, <2>3 DEF vars, Released
  <2>. QED  BY <2>1, <2>2, <2>4, <2>5, <2>6 DEF Next, Push, Pop
<1>. QED  BY <1>1, <1>2, Invariance, PTL DEF SafeSpec

(***************************************************************************)
(* The logger: its steps are steps of the queue, or leave the queue alone. *)
(***************************************************************************)

LEMMA InitIInvLogger == InitLogger => IInvLogger
<1> SUFFICES ASSUME InitLogger PROVE IInvLogger
  OBVIOUS
<1>1. IInv
  BY InitIInv DEF InitLogger
<1>2. cpc = "idle" /\ wpc = "test" /\ dtor = "no" /\ out = <<>> /\ written = <<>>
  BY DEF InitLogger, Init
<1>3. TypeOKLogger
  <2>1. TypeOK
    BY <1>1 DEF IInv
  <2>2. run \in BOOLEAN /\ signal \in BOOLEAN /\ threw \in BOOLEAN
    BY Zenon DEF InitLogger
  <2>3. toNotify \subseteq Producers /\ written \in Seq(Items)
    BY DEF InitLogger
  <2>. QED  BY <1>2, <2>1, <2>2, <2>3 DEF TypeOKLogger
<1>4. Len(out) = 0 /\ Len(written) = 0
  BY <1>2
<1>. QED
  BY <1>1, <1>2, <1>3, <1>4 DEF IInvLogger, OneConsumer, HandInv, WrittenInv,
     DrainInv, InHand

(* A step that leaves the consumer and the destructor alone disturbs       *)
(* neither what is in hand nor what is written.                            *)
LEMMA HandFrame ==
  ASSUME IInvLogger, UNCHANGED <<cpc, obj, out, written, threw>>,
         InHand' <=> InHand
  PROVE  HandInv' /\ WrittenInv'
BY DEF IInvLogger, HandInv, WrittenInv

LEMMA LogPushStep ==
  ASSUME IInvLogger, NEW p \in Producers, LogPush(p)
  PROVE  IInvLogger'
<1>1. /\ Push(p) /\ UNCHANGED <<run, wpc, signal, dtor, threw, written>>
      /\ pc[p] = "idle" => dtor = "no"
      /\ toNotify' \in {toNotify, toNotify \cup {p}}
  BY Zenon DEF LogPush
<1>2. dtor = "no"
  BY <1>1 DEF IInvLogger, DrainInv
<1>3. UNCHANGED <<cpc, obj, out>>
  BY <1>1 DEF Push, Reserve, Unreserve, CountLost, TakeTicket, Write, Validate,
              consumerVars, history
<1>4. IInv'
  BY <1>1, NextIInv DEF IInvLogger, Next
<1>5. TypeOKLogger'
  BY <1>1, <1>4 DEF IInvLogger, IInv, TypeOKLogger
<1>6. OneConsumer' /\ (InHand' <=> InHand) /\ DrainInv'
  BY <1>1, <1>2, <1>3 DEF IInvLogger, OneConsumer, InHand, DrainInv
<1>. QED  BY <1>1, <1>3, <1>4, <1>5, <1>6, HandFrame DEF IInvLogger

(* Steps that touch neither the queue nor the log: notifying, waiting,     *)
(* being stopped and being joined.                                         *)
LEMMA QuietLoggerStep ==
  ASSUME IInvLogger, UNCHANGED <<vars, threw, written>>,
         TypeOKLogger',
         wpc' # wpc => wpc \in {"test", "wait"} /\ wpc' \in {"wait", "exited", "pop"},
         \/ dtor' = dtor /\ (toNotify' = toNotify \/ dtor = "no")
         \/ dtor = "no" /\ dtor' = "join" /\ toNotify' = {}
            /\ \A p \in Producers : pc[p] = "idle"
         \/ dtor = "join" /\ dtor' = "pop" /\ wpc = "exited" /\ toNotify' = toNotify
  PROVE  IInvLogger'
<1>1. UNCHANGED <<used, head, tail, pc, cpc, obj, out>>
  BY DEF vars
<1>2. IInv'
  BY NextIInv DEF IInvLogger
<1>3. OneConsumer'
  BY <1>1 DEF IInvLogger, OneConsumer, TypeOKLogger
<1>4. InHand' <=> InHand
  BY <1>1 DEF InHand
<1>5. DrainInv'
  BY <1>1 DEF IInvLogger, DrainInv, OneConsumer, Released
<1>. QED  BY <1>1, <1>2, <1>3, <1>4, <1>5, HandFrame DEF IInvLogger

LEMMA NotifyStep ==
  ASSUME IInvLogger, NEW p \in Producers, Notify(p)
  PROVE  IInvLogger'
<1>1. /\ p \in toNotify /\ toNotify' = toNotify \ {p}
      /\ signal' = (signal \/ wpc = "wait")
      /\ UNCHANGED <<vars, run, wpc, dtor, threw, written>>
  BY Zenon DEF Notify
<1>2. dtor = "no"
  BY <1>1 DEF IInvLogger, DrainInv
<1>3. TypeOK' /\ signal' \in BOOLEAN
  <2>1. TypeOK'
    BY <1>1, NextIInv DEF IInvLogger, IInv
  <2>. QED  BY <2>1, <1>1
<1>4. TypeOKLogger'
  BY <1>1, <1>3 DEF IInvLogger, TypeOKLogger
<1>. QED  BY <1>1, <1>2, <1>4, QuietLoggerStep

LEMMA WaitStep ==
  ASSUME IInvLogger, TestRun \/ Wake
  PROVE  IInvLogger'
<1>1. /\ UNCHANGED <<vars, run, toNotify, dtor, threw, written>>
      /\ wpc \in {"test", "wait"} /\ wpc' \in {"wait", "exited", "pop"}
      /\ signal' \in BOOLEAN
  BY Zenon DEF TestRun, Wake, IInvLogger, TypeOKLogger
<1>2. TypeOK'
  BY <1>1, NextIInv DEF IInvLogger, IInv
<1>3. TypeOKLogger'
  BY <1>1, <1>2 DEF IInvLogger, TypeOKLogger
<1>. QED  BY <1>1, <1>3, QuietLoggerStep

LEMMA StopStep ==
  ASSUME IInvLogger, Destroy \/ Join
  PROVE  IInvLogger'
<1>1. /\ UNCHANGED <<vars, wpc, signal, toNotify, threw, written>>
      /\ run' \in BOOLEAN
      /\ \/ dtor = "no" /\ dtor' = "join" /\ toNotify' = {}
            /\ \A p \in Producers : pc[p] = "idle"
         \/ dtor = "join" /\ dtor' = "pop" /\ wpc = "exited" /\ toNotify' = toNotify
  BY Zenon DEF Destroy, Join, IInvLogger, TypeOKLogger
<1>2. TypeOK'
  BY <1>1, NextIInv DEF IInvLogger, IInv
<1>3. TypeOKLogger'
  BY <1>1, <1>2 DEF IInvLogger, TypeOKLogger
<1>. QED  BY <1>1, <1>3, QuietLoggerStep

(***************************************************************************)
(* One step of pop(): an object enters the hand when its slot is released, *)
(* and pop() returns it with the step after that.                          *)
(***************************************************************************)

LEMMA PopEffect ==
  ASSUME IInvLogger, Pop
  PROVE  /\ UNCHANGED <<pc, head>>
         /\ cpc' \in {"check", "move"} => obj' = None
         /\ \/ /\ cpc = "release" /\ cpc' = "advance"
               /\ out' = Append(out, obj) /\ obj' = obj
            \/ /\ cpc = "advance" /\ cpc' = "idle"
               /\ UNCHANGED <<out, obj>> /\ obj # None
            \/ /\ cpc \notin {"release", "advance"} /\ cpc' # "advance"
               /\ out' = out /\ (cpc' = "idle" => obj' = None)
<1>1. cpc \in {"check", "move"} => obj = None
  BY DEF IInvLogger, HandInv
<1>2. CASE LoadUsed
  BY <1>2 DEF LoadUsed, shared, producerVars, history
<1>3. CASE CheckValid
  BY <1>1, <1>3 DEF CheckValid, shared, producerVars, history
<1>4. CASE MoveOut
  BY <1>4 DEF MoveOut, producerVars, history
<1>5. CASE Invalidate
  BY <1>5 DEF Invalidate, shared, producerVars, history
<1>6. CASE Release
  BY <1>6 DEF Release, producerVars
<1>7. CASE Advance
  <2>1. /\ UNCHANGED <<pc, head, out, obj>> /\ cpc = "advance" /\ cpc' = "idle"
    BY <1>7 DEF Advance, producerVars, history
  <2>2. Len(out) > 0 /\ obj = out[Len(out)]
    BY <2>1 DEF IInvLogger, HandInv, InHand
  <2>3. /\ Len(out) = Released /\ Released <= Len(order)
        /\ \A i \in 1 .. Released : out[i] = order[i]
        /\ order \in Seq(Items) /\ Released \in Nat
    BY LiveFacts DEF IInvLogger, IInv, HistoryInv, TypeOK
  <2>4. order[Len(out)] \in Items /\ obj = order[Len(out)]
    BY <2>2, <2>3
  <2>. QED  BY <2>1, <2>4, NoneAssumption
<1>. QED  BY <1>2, <1>3, <1>4, <1>5, <1>6, <1>7 DEF Pop

(* Whoever pops, the hand holds an object from the release of its slot on. *)
LEMMA PopHand ==
  ASSUME IInvLogger, Pop, UNCHANGED <<threw, written>>,
         InHand <=> cpc = "advance",
         InHand' <=> cpc \in {"release", "advance"}
  PROVE  HandInv' /\ WrittenInv'
<1>1. /\ out \in Seq(Items \cup {None}) /\ obj \in Items \cup {None}
      /\ written \in Seq(Items)
  BY DEF IInvLogger, IInv, TypeOK, TypeOKLogger
<1>2. CASE cpc = "release"
  <2>1. out' = Append(out, obj) /\ obj' = obj /\ cpc' = "advance"
    BY <1>2, PopEffect
  <2>2. /\ Len(out') = Len(out) + 1 /\ out'[Len(out) + 1] = obj
        /\ \A i \in 1 .. Len(out) : out'[i] = out[i]
    BY <1>1, <2>1, AppendFacts
  <2>3. Len(out) \in Nat /\ Len(written) \in Nat
    BY <1>1
  <2>4. HandInv'
    BY <2>1, <2>2, <2>3 DEF HandInv
  <2>5. WrittenInv'
    BY <1>2, <2>2, <2>3 DEF IInvLogger, WrittenInv
  <2>. QED  BY <2>4, <2>5
<1>3. CASE cpc = "advance"
  BY <1>3, PopEffect DEF IInvLogger, HandInv, WrittenInv
<1>4. CASE cpc \notin {"release", "advance"}
  BY <1>4, PopEffect DEF IInvLogger, HandInv, WrittenInv
<1>. QED  BY <1>2, <1>3, <1>4

LEMMA WorkerPopStep ==
  ASSUME IInvLogger, WorkerPop
  PROVE  IInvLogger'
<1>1. /\ Pop /\ wpc = "pop" /\ wpc' = AfterPop("pop", "write", "test")
      /\ UNCHANGED <<run, signal, toNotify, dtor, threw, written>>
  BY Zenon DEF WorkerPop
<1>2. /\ cpc' # "idle" => wpc' = "pop"
      /\ wpc' = "write" <=> cpc' = "idle" /\ obj' # None
      /\ wpc' \in {"pop", "write", "test"}
  BY <1>1 DEF AfterPop
<1>3. dtor \in {"no", "join"}
  BY <1>1 DEF IInvLogger, OneConsumer, TypeOKLogger
<1>4. IInv'
  BY <1>1, NextIInv DEF IInvLogger, Next
<1>5. TypeOKLogger'
  BY <1>1, <1>2, <1>4 DEF IInvLogger, IInv, TypeOKLogger
<1>6. OneConsumer'
  BY <1>1, <1>2, <1>3 DEF OneConsumer
<1>7. HandInv' /\ WrittenInv'
  <2>1. InHand <=> cpc = "advance"
    BY <1>1, <1>3 DEF InHand
  <2>2. InHand' <=> cpc \in {"release", "advance"}
    BY <1>1, <1>2, <1>3, PopEffect DEF InHand
  <2>. QED  BY <1>1, <2>1, <2>2, PopHand
<1>8. DrainInv'
  BY <1>1, <1>3, PopEffect DEF IInvLogger, DrainInv
<1>. QED  BY <1>4, <1>5, <1>6, <1>7, <1>8 DEF IInvLogger

(* With nobody logging, `used' counts what the queue holds, and the oldest *)
(* object it holds is published: the destructor gives up only on an empty  *)
(* queue.                                                                  *)
LEMMA DrainPop ==
  ASSUME IInvLogger, Pop, dtor = "pop"
  PROVE  /\ cpc' = "check" => tail' < head'
         /\ cpc' = "idle" /\ obj' = None => Released' = head'
<1>1. \A p \in Producers : pc[p] = "idle"
  BY DEF IInvLogger, DrainInv
<1>2. At({"reserved", "refused"}) = {} /\ Writers = {}
  BY <1>1 DEF At, Writers
<1>3. used = Live
  <2>1. used = Live + Cardinality(At({"reserved", "refused"}))
    BY DEF IInvLogger, IInv, CountInv
  <2>2. Cardinality(At({"reserved", "refused"})) = 0
    BY <1>2, FS_EmptySet
  <2>3. Live \in Int
    BY LiveFacts DEF IInvLogger, IInv, TypeOK, Live
  <2>. QED  BY <2>1, <2>2, <2>3
<1>4. Released \in Nat /\ head \in Nat /\ tail \in Nat /\ Released <= head
  BY LiveFacts DEF IInvLogger, IInv, TypeOK
<1>5. CASE LoadUsed
  <2>1. /\ UNCHANGED <<tail, head>> /\ cpc = "idle"
        /\ cpc' = IF used = 0 THEN "idle" ELSE "check"
    BY <1>5 DEF LoadUsed, shared
  <2>2. Released = tail /\ (cpc' = "idle" => Released' = tail)
    BY <2>1 DEF Released
  <2>. QED  BY <1>3, <1>4, <2>1, <2>2 DEF Live
<1>6. CASE CheckValid
  <2>1. /\ UNCHANGED <<tail, head, obj>> /\ cpc = "check"
        /\ cpc' = IF valid[Slot(tail)] THEN "move" ELSE "idle"
    BY <1>6 DEF CheckValid, shared
  <2>2. tail < head /\ Released = tail
    BY <2>1 DEF IInvLogger, DrainInv, Released
  <2>3. tail \in LiveTickets /\ Published(tail)
    BY <1>2, <1>4, <2>2 DEF LiveTickets, Published
  <2>4. valid[Slot(tail)]
    BY <2>1, <2>3 DEF IInvLogger, IInv, CellInv
  <2>. QED  BY <2>1, <2>4
<1>7. CASE MoveOut \/ Invalidate \/ Release
  BY <1>7 DEF MoveOut, Invalidate, Release
<1>8. CASE Advance
  <2>1. cpc = "advance" /\ cpc' = "idle"
    BY <1>8 DEF Advance
  <2>. QED  BY <2>1, PopEffect
<1>. QED  BY <1>5, <1>6, <1>7, <1>8 DEF Pop

LEMMA DtorPopStep ==
  ASSUME IInvLogger, DtorPop
  PROVE  IInvLogger'
<1>1. /\ Pop /\ dtor = "pop" /\ dtor' = AfterPop("pop", "write", "done")
      /\ UNCHANGED <<run, wpc, signal, toNotify, threw, written>>
  BY Zenon DEF DtorPop
<1>2. /\ cpc' # "idle" => dtor' = "pop"
      /\ dtor' = "write" <=> cpc' = "idle" /\ obj' # None
      /\ dtor' = "done" <=> cpc' = "idle" /\ obj' = None
      /\ dtor' \in {"pop", "write", "done"}
  BY <1>1 DEF AfterPop
<1>3. wpc = "exited"
  BY <1>1 DEF IInvLogger, OneConsumer
<1>4. IInv'
  BY <1>1, NextIInv DEF IInvLogger, Next
<1>5. TypeOKLogger'
  BY <1>1, <1>2, <1>4 DEF IInvLogger, IInv, TypeOKLogger
<1>6. OneConsumer'
  BY <1>1, <1>2, <1>3 DEF OneConsumer
<1>7. HandInv' /\ WrittenInv'
  <2>1. InHand <=> cpc = "advance"
    BY <1>1, <1>3 DEF InHand
  <2>2. InHand' <=> cpc \in {"release", "advance"}
    BY <1>1, <1>2, <1>3, PopEffect DEF InHand
  <2>. QED  BY <1>1, <2>1, <2>2, PopHand
<1>8. DrainInv'
  BY <1>1, <1>2, PopEffect, DrainPop DEF IInvLogger, DrainInv
<1>. QED  BY <1>4, <1>5, <1>6, <1>7, <1>8 DEF IInvLogger

(***************************************************************************)
(* Writing what is in hand, or failing to.                                 *)
(***************************************************************************)

LEMMA WriteLoggerStep ==
  ASSUME IInvLogger, WorkerWrite \/ DtorWrite
  PROVE  IInvLogger'
<1>1. /\ written' = Append(written, obj)
      /\ UNCHANGED <<vars, run, signal, toNotify, threw>>
      /\ \/ wpc = "write" /\ wpc' = "pop" /\ dtor' = dtor
         \/ dtor = "write" /\ dtor' = "pop" /\ wpc' = wpc
  BY Zenon DEF WorkerWrite, DtorWrite
<1>2. UNCHANGED <<tail, head, pc, cpc, obj, out, order>>
  BY <1>1 DEF vars
<1>3. /\ cpc = "idle" /\ InHand /\ ~InHand'
      /\ OneConsumer'
  BY <1>1, <1>2 DEF IInvLogger, OneConsumer, TypeOKLogger, InHand
<1>4. Len(out) > 0 /\ obj = out[Len(out)]
  BY <1>3 DEF IInvLogger, HandInv
<1>5. IInv'
  BY <1>1, NextIInv DEF IInvLogger
<1>6. /\ Len(out) = Released /\ Released <= Len(order) /\ Released \in Nat
      /\ \A i \in 1 .. Released : out[i] = order[i]
      /\ order \in Seq(Items) /\ written \in Seq(Items)
  BY LiveFacts DEF IInvLogger, IInv, HistoryInv, TypeOK, TypeOKLogger
<1>7. obj \in Items
  BY <1>4, <1>6
<1>8. /\ written' \in Seq(Items) /\ Len(written') = Len(written) + 1
      /\ \A i \in 1 .. Len(written) : written'[i] = written[i]
      /\ written'[Len(written) + 1] = obj /\ Len(written) \in Nat
  BY <1>1, <1>6, <1>7, AppendFacts
<1>9. TypeOKLogger'
  BY <1>1, <1>5, <1>8 DEF IInvLogger, IInv, TypeOKLogger
<1>10. HandInv'
  BY <1>2, <1>3 DEF HandInv
<1>11. WrittenInv'
  <2>1. CASE threw
    BY <2>1, <1>1 DEF WrittenInv
  <2>2. CASE ~threw
    <3>1. Len(out) = Len(written) + 1 /\ \A i \in 1 .. Len(written) : written[i] = out[i]
      BY <2>2, <1>3 DEF IInvLogger, WrittenInv
    <3>2. Len(out') = Len(written') + 0
      BY <1>2, <1>8, <3>1
    <3>3. \A i \in 1 .. Len(written') : written'[i] = out'[i]
      BY <1>2, <1>4, <1>8, <3>1
    <3>. QED  BY <1>3, <3>2, <3>3 DEF WrittenInv
  <2>. QED  BY <2>1, <2>2
<1>12. DrainInv'
  BY <1>1, <1>2, <1>3 DEF IInvLogger, DrainInv, OneConsumer
<1>. QED  BY <1>3, <1>5, <1>9, <1>10, <1>11, <1>12 DEF IInvLogger

LEMMA WorkerThrowsStep ==
  ASSUME IInvLogger, WorkerThrows
  PROVE  IInvLogger'
<1>1. /\ wpc = "write" /\ wpc' = "exited" /\ run' = FALSE /\ threw' = TRUE
      /\ UNCHANGED <<vars, signal, toNotify, dtor, written>>
  BY Zenon DEF WorkerThrows
<1>2. UNCHANGED <<tail, head, pc, cpc, obj, out>>
  BY <1>1 DEF vars
<1>3. cpc = "idle" /\ OneConsumer'
  BY <1>1, <1>2 DEF IInvLogger, OneConsumer
<1>4. IInv'
  BY <1>1, NextIInv DEF IInvLogger
<1>5. TypeOKLogger'
  BY <1>1, <1>4 DEF IInvLogger, IInv, TypeOKLogger
<1>6. HandInv' /\ WrittenInv' /\ DrainInv'
  BY <1>1, <1>2, <1>3 DEF IInvLogger, HandInv, InHand, WrittenInv, DrainInv, Released
<1>. QED  BY <1>3, <1>4, <1>5, <1>6 DEF IInvLogger

LEMMA LoggerStutter ==
  ASSUME IInvLogger, UNCHANGED allVars
  PROVE  IInvLogger'
<1>1. UNCHANGED <<vars, run, wpc, signal, toNotify, dtor, threw, written>>
  BY DEF allVars, loggerVars
<1>2. TypeOK'
  BY <1>1, NextIInv DEF IInvLogger, IInv
<1>3. TypeOKLogger'
  BY <1>1, <1>2 DEF IInvLogger, TypeOKLogger
<1>. QED  BY <1>1, <1>3, QuietLoggerStep

LEMMA NextIInvLogger == IInvLogger /\ [NextLogger]_allVars => IInvLogger'
<1> SUFFICES ASSUME IInvLogger, [NextLogger]_allVars PROVE IInvLogger'
  OBVIOUS
<1>1. CASE \E p \in Producers : LogPush(p) \/ Notify(p)
  BY <1>1, LogPushStep, NotifyStep
<1>2. CASE Worker
  BY <1>2, WaitStep, WorkerPopStep, WriteLoggerStep, WorkerThrowsStep DEF Worker
<1>3. CASE Destroy \/ Dtor
  BY <1>3, StopStep, DtorPopStep, WriteLoggerStep DEF Dtor
<1>4. CASE UNCHANGED allVars
  BY <1>4, LoggerStutter
<1>. QED  BY <1>1, <1>2, <1>3, <1>4 DEF NextLogger

(* The inductive invariant of the logger, that of its queue included.      *)
THEOREM LoggerInvariance == SafeSpecLogger => []IInvLogger
BY InitIInvLogger, NextIInvLogger, PTL DEF SafeSpecLogger

(* Every variable of the logger keeps its type.                            *)
THEOREM LoggerTypeCorrect == SafeSpecLogger => []TypeOKLogger
<1>1. IInvLogger => TypeOKLogger
  BY DEF IInvLogger
<1>. QED  BY <1>1, LoggerInvariance, PTL

(* The worker and the destructor are never inside pop() at the same time.  *)
THEOREM SingleConsumer == SafeSpecLogger => []OneConsumer
<1>1. IInvLogger => OneConsumer
  BY DEF IInvLogger
<1>. QED  BY <1>1, LoggerInvariance, PTL

(* The log is the accepted messages in ticket order, and a destroyed       *)
(* logger has written all of them, unless writing failed.                  *)
THEOREM LogComplete == SafeSpecLogger => []WrittenInOrder
<1>1. IInvLogger => WrittenInOrder
  <2> SUFFICES ASSUME IInvLogger, ~threw PROVE WrittenInOrder
    BY DEF WrittenInOrder
  <2>1. /\ Len(out) = Len(written) + (IF InHand THEN 1 ELSE 0)
        /\ \A i \in 1 .. Len(written) : written[i] = out[i]
    BY DEF IInvLogger, WrittenInv
  <2>2. /\ Len(order) = head /\ Len(out) = Released
        /\ \A i \in 1 .. Released : out[i] = order[i]
        /\ Released \in Nat /\ head \in Nat /\ Released <= head
        /\ order \in Seq(Items) /\ written \in Seq(Items) /\ Len(written) \in Nat
    BY LiveFacts DEF IInvLogger, IInv, HistoryInv, TypeOK, TypeOKLogger
  <2>3. Len(written) <= Released
    BY <2>1, <2>2
  <2>4. /\ SubSeq(order, 1, Len(written)) \in Seq(Items)
        /\ Len(SubSeq(order, 1, Len(written))) = Len(written)
        /\ \A i \in 1 .. Len(written) : SubSeq(order, 1, Len(written))[i] = order[i]
    BY <2>2, <2>3
  <2>5. \A i \in 1 .. Len(written) : written[i] = order[i]
    BY <2>1, <2>2, <2>3
  <2>6. written = SubSeq(order, 1, Len(written))
    BY <2>2, <2>4, <2>5
  <2>7. dtor = "done" => Len(written) = head
    <3> SUFFICES ASSUME dtor = "done" PROVE Len(written) = head
      OBVIOUS
    <3>1. wpc = "exited" /\ cpc = "idle"
      BY DEF IInvLogger, OneConsumer
    <3>2. ~InHand
      BY <3>1 DEF InHand
    <3>3. Released = head
      BY DEF IInvLogger, DrainInv
    <3>. QED  BY <2>1, <2>2, <3>2, <3>3
  <2>8. Len(written) <= head
    BY <2>2, <2>3
  <2>. QED  BY <2>6, <2>7, <2>8, Zenon DEF WrittenInOrder
<1>. QED  BY <1>1, LoggerInvariance, PTL

(***************************************************************************)
(* Logging uses the queue as its clients may, and draining it ends.        *)
(***************************************************************************)

(* Whatever the logger does to the queue is a push or a pop of it.         *)
LEMMA LoggerUsesQueue == [NextLogger]_allVars => [Next]_vars
<1> SUFFICES ASSUME [NextLogger]_allVars PROVE [Next]_vars
  OBVIOUS
<1>1. ASSUME NEW p \in Producers, LogPush(p) \/ Notify(p)
      PROVE  (Push(p) \/ UNCHANGED vars)
  BY Zenon, <1>1 DEF LogPush, Notify
<1>2. CASE Worker \/ Destroy \/ Dtor
  <2>1. Pop \/ UNCHANGED vars
    BY Zenon, <1>2 DEF Worker, TestRun, Wake, WorkerPop, WorkerWrite,
       WorkerThrows, Destroy, Dtor, Join, DtorPop, DtorWrite
  <2>. QED  BY <2>1 DEF Next
<1>3. CASE UNCHANGED allVars
  BY <1>3 DEF allVars
<1>. QED  BY <1>1, <1>2, <1>3 DEF NextLogger, Next

(* Every theorem about the queue therefore holds inside the logger ...     *)
THEOREM LoggerQueue == SafeSpecLogger => SafeSpec
<1>1. InitLogger => Init
  BY DEF InitLogger
<1>. QED  BY <1>1, LoggerUsesQueue, PTL DEF SafeSpecLogger, SafeSpec

(* ... such as that the queue the loggers share is a bounded FIFO.         *)
THEOREM LoggerFifo == SafeSpecLogger => Fifo!Init /\ [][Fifo!Next]_(Fifo!vars)
BY LoggerQueue, Implementation, PTL

(* What ~Logger() has left to do: the steps for each message still in the  *)
(* queue, and those of the message it is at.                               *)
StepsAhead ==
  IF dtor = "done" THEN 0
  ELSE IF dtor = "write" THEN 6
  ELSE IF cpc = "advance" THEN 7
  ELSE IF cpc = "idle" THEN 5
  ELSE IF cpc = "check" THEN 4
  ELSE IF cpc = "move" THEN 3
  ELSE IF cpc = "invalidate" THEN 2
  ELSE 1

DrainLeft == 8 * (head - Released) + StepsAhead

LEMMA DrainLeftType == IInvLogger => DrainLeft \in Nat
<1> SUFFICES ASSUME IInvLogger PROVE DrainLeft \in Nat
  OBVIOUS
<1>1. Released \in Nat /\ head \in Nat /\ Released <= head
  BY LiveFacts DEF IInvLogger, IInv, TypeOK
<1>2. StepsAhead \in 0 .. 7
  BY DEF StepsAhead
<1>. QED  BY <1>1, <1>2 DEF DrainLeft

LEMMA DrainStep ==
  ASSUME IInvLogger, IInvLogger', DtorPop \/ DtorWrite
  PROVE  DrainLeft' < DrainLeft
<1>1. Released \in Nat /\ head \in Nat /\ tail \in Nat
  BY LiveFacts DEF IInvLogger, IInv, TypeOK
<1>2. CASE DtorWrite
  <2>1. /\ dtor = "write" /\ dtor' = "pop" /\ UNCHANGED <<cpc, tail, head>>
    BY <1>2 DEF DtorWrite, vars
  <2>2. cpc = "idle"
    BY <2>1 DEF IInvLogger, OneConsumer, TypeOKLogger
  <2>3. Released' = Released
    BY <2>1 DEF Released
  <2>. QED  BY <1>1, <2>1, <2>2, <2>3 DEF DrainLeft, StepsAhead
<1>3. CASE DtorPop
  <2>1. /\ Pop /\ dtor = "pop" /\ dtor' = AfterPop("pop", "write", "done")
    BY Zenon, <1>3 DEF DtorPop
  <2>2. /\ cpc' # "idle" => dtor' = "pop"
        /\ cpc' = "idle" /\ obj' # None => dtor' = "write"
        /\ cpc' = "idle" /\ obj' = None => dtor' = "done"
    BY <2>1 DEF AfterPop
  <2>3. cpc' = "idle" /\ obj' = None => Released' = head'
    BY <2>1, DrainPop
  <2>4. head' = head
    BY <2>1, PopEffect
  <2>5. CASE LoadUsed
    <3>1. /\ UNCHANGED <<tail, head>> /\ cpc = "idle" /\ obj' = None
          /\ cpc' \in {"idle", "check"}
      BY <2>5 DEF LoadUsed, shared
    <3>2. Released' = Released /\ Released <= head
      BY <3>1, LiveFacts DEF Released, IInvLogger, IInv, TypeOK
    <3>. QED  BY <1>1, <2>1, <2>2, <2>3, <2>4, <3>1, <3>2 DEF DrainLeft, StepsAhead
  <2>6. CASE CheckValid
    <3>1. /\ UNCHANGED <<tail, head, obj>> /\ cpc = "check"
          /\ cpc' \in {"idle", "move"}
      BY <2>6 DEF CheckValid, shared
    <3>2. obj' = None
      BY <3>1 DEF IInvLogger, HandInv
    <3>3. Released' = Released /\ Released <= head
      BY <3>1, LiveFacts DEF Released, IInvLogger, IInv, TypeOK
    <3>. QED  BY <1>1, <2>1, <2>2, <2>3, <2>4, <3>1, <3>2, <3>3 DEF DrainLeft, StepsAhead
  <2>7. CASE MoveOut \/ Invalidate
    <3>1. /\ tail' = tail
          /\ \/ cpc = "move" /\ cpc' = "invalidate"
             \/ cpc = "invalidate" /\ cpc' = "release"
      BY <2>7 DEF MoveOut, Invalidate, shared
    <3>. QED  BY <1>1, <2>1, <2>2, <2>4, <3>1 DEF DrainLeft, StepsAhead, Released
  <2>8. CASE Release
    <3>1. tail' = tail /\ cpc = "release" /\ cpc' = "advance"
      BY <2>8 DEF Release
    <3>. QED  BY <1>1, <2>1, <2>2, <2>4, <3>1 DEF DrainLeft, StepsAhead, Released
  <2>9. CASE Advance
    <3>1. tail' = tail + 1 /\ cpc = "advance" /\ cpc' = "idle"
      BY <2>9 DEF Advance
    <3>2. obj' # None
      BY <2>1, <3>1, PopEffect
    <3>. QED  BY <1>1, <2>1, <2>2, <2>4, <3>1, <3>2 DEF DrainLeft, StepsAhead, Released
  <2>. QED  BY <2>1, <2>5, <2>6, <2>7, <2>8, <2>9 DEF Pop
<1>. QED  BY <1>2, <1>3

(* What is safety in DestructorReturns: once ~Logger() has joined the      *)
(* worker, nobody else moves, and each of its steps brings it nearer to    *)
(* its end, so that draining the queue cannot go on for ever.              *)
THEOREM DrainTerminates ==
  SafeSpecLogger =>
    [][(dtor \in {"pop", "write"}) =>
         DrainLeft \in Nat /\ DrainLeft' \in Nat /\ DrainLeft' < DrainLeft]_allVars
<1>1. ASSUME IInvLogger, IInvLogger', NextLogger, dtor \in {"pop", "write"}
      PROVE  DrainLeft' < DrainLeft
  <2>1. /\ toNotify = {} /\ wpc = "exited"
        /\ \A p \in Producers : pc[p] = "idle"
    BY <1>1 DEF IInvLogger, OneConsumer, DrainInv
  <2>2. ASSUME NEW p \in Producers, LogPush(p) \/ Notify(p)
        PROVE  FALSE
    BY <1>1, <2>1, <2>2 DEF LogPush, Notify
  <2>3. ~Worker
    BY <2>1 DEF Worker, TestRun, Wake, WorkerPop, WorkerWrite, WorkerThrows
  <2>4. ~Destroy /\ ~Join
    BY <1>1 DEF Destroy, Join
  <2>5. DtorPop \/ DtorWrite
    BY Zenon, <1>1, <2>2, <2>3, <2>4 DEF NextLogger, Dtor
  <2>. QED  BY <1>1, <2>5, DrainStep
<1>2. IInvLogger /\ IInvLogger' /\ DrainLeft \in Nat /\ (DrainLeft \in Nat)'
        /\ [NextLogger]_allVars
      => [(dtor \in {"pop", "write"}) =>
            DrainLeft \in Nat /\ DrainLeft' \in Nat /\ DrainLeft' < DrainLeft]_allVars
  BY Zenon, <1>1
<1>. QED  BY <1>2, DrainLeftType, LoggerInvariance, PTL DEF SafeSpecLogger
=============================================================================

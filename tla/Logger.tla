------------------------------- MODULE Logger -------------------------------
(***************************************************************************)
(* The asynchronous logger of src/src/logging.{hpp,cpp}: any thread pushes *)
(* a message into the queue of Mpsc and notifies a condition variable      *)
(* without holding its mutex; one worker thread waits on that variable     *)
(* with a time-out and writes out whatever the queue yields; the           *)
(* destructor stops and joins the worker and drains the queue itself.      *)
(*                                                                         *)
(* All log*() functions are one push followed by one notify_one(); what a  *)
(* message says is abstracted, as is the formatting in serialize().        *)
(***************************************************************************)
EXTENDS Mpsc

VARIABLES run,       \* the atomic flag the worker polls
          wpc,       \* worker: "test" run, "wait", "pop", "write", "exited"
          signal,    \* a notify_one() reached the waiting worker
          toNotify,  \* producers that have pushed and not notified yet
          dtor,      \* ~Logger(): "no", "join", "pop", "write", "done"
          threw,     \* writing a message failed
          written    \* history: messages written to console and log file

loggerVars == <<run, wpc, signal, toNotify, dtor, threw, written>>
allVars == <<vars, loggerVars>>

InitLogger ==
  /\ Init
  /\ run = TRUE /\ wpc = "test" /\ signal = FALSE /\ toNotify = {}
  /\ dtor = "no" /\ threw = FALSE /\ written = <<>>

-----------------------------------------------------------------------------
(* Any thread that logs. *)

(* push(), refused or not, then notify_one(). *)
LogPush(p) ==
  /\ p \notin toNotify
  /\ pc[p] = "idle" => dtor = "no"
  /\ Push(p)
  /\ toNotify' = IF pc'[p] = "idle" THEN toNotify \cup {p} ELSE toNotify
  /\ UNCHANGED <<run, wpc, signal, dtor, threw, written>>

(* notify_one() is lost on a worker that is not waiting at this moment. *)
Notify(p) ==
  /\ p \in toNotify
  /\ toNotify' = toNotify \ {p}
  /\ signal' = (signal \/ wpc = "wait")
  /\ UNCHANGED <<vars, run, wpc, dtor, threw, written>>

-----------------------------------------------------------------------------
(* The worker thread. *)

TestRun ==
  /\ wpc = "test"
  /\ wpc' = IF run THEN "wait" ELSE "exited"
  /\ signal' = FALSE
  /\ UNCHANGED <<vars, run, toNotify, dtor, threw, written>>

\* Mutant: cond_var.wait() instead of wait_for().
WakeNotified ==
  /\ wpc = "wait" /\ signal
  /\ wpc' = "pop"
  /\ UNCHANGED <<vars, run, signal, toNotify, dtor, threw, written>>

(* wait_for() returns: notified, spuriously, or after 50 ms. *)
Wake ==
  /\ wpc = "wait"
  /\ wpc' = "pop"
  /\ UNCHANGED <<vars, run, signal, toNotify, dtor, threw, written>>

(* serialize_messages(): one step of queue.pop(), and what it leads to once *)
(* it returns a message or nothing.                                         *)
AfterPop(pop, write, empty) ==
  IF cpc' # "idle" THEN pop ELSE IF obj' = None THEN empty ELSE write

WorkerPop ==
  /\ wpc = "pop"
  /\ Pop
  /\ wpc' = AfterPop("pop", "write", "test")
  /\ UNCHANGED <<run, signal, toNotify, dtor, threw, written>>

WorkerWrite ==
  /\ wpc = "write"
  /\ written' = Append(written, obj)
  /\ wpc' = "pop"
  /\ UNCHANGED <<vars, run, signal, toNotify, dtor, threw>>

(* An exception while writing ends the thread; the message is gone. *)
WorkerThrows ==
  /\ wpc = "write"
  /\ wpc' = "exited"
  /\ run' = FALSE /\ threw' = TRUE
  /\ UNCHANGED <<vars, signal, toNotify, dtor, written>>

-----------------------------------------------------------------------------
\* Mutant: the worker is joined without being stopped.
DestroyKeepsRun ==
  /\ dtor = "no"
  /\ \A p \in Producers : pc[p] = "idle"
  /\ toNotify = {}
  /\ dtor' = "join"
  /\ UNCHANGED <<vars, run, wpc, signal, toNotify, threw, written>>

(* ~Logger().  "Only destroy after all other log producing threads have    *)
(* been terminated" (logging.cpp:735-736): main() destroys every component *)
(* that logs before the logger.                                            *)

Destroy ==
  /\ dtor = "no"
  /\ \A p \in Producers : pc[p] = "idle"
  /\ toNotify = {}
  /\ dtor' = "join" /\ run' = FALSE
  /\ UNCHANGED <<vars, wpc, signal, toNotify, threw, written>>

\* Mutant: the destructor relies on the worker having drained the queue.
JoinOnly ==
  /\ dtor = "join" /\ wpc = "exited"
  /\ dtor' = "done"
  /\ UNCHANGED <<vars, run, wpc, signal, toNotify, threw, written>>

\* Mutant: the destructor drains the queue without joining the worker first.
JoinLater ==
  /\ dtor = "join"
  /\ dtor' = "pop"
  /\ UNCHANGED <<vars, run, wpc, signal, toNotify, threw, written>>

Join ==
  /\ dtor = "join" /\ wpc = "exited"
  /\ dtor' = "pop"
  /\ UNCHANGED <<vars, run, wpc, signal, toNotify, threw, written>>

DtorPop ==
  /\ dtor = "pop"
  /\ Pop
  /\ dtor' = AfterPop("pop", "write", "done")
  /\ UNCHANGED <<run, wpc, signal, toNotify, threw, written>>

DtorWrite ==
  /\ dtor = "write"
  /\ written' = Append(written, obj)
  /\ dtor' = "pop"
  /\ UNCHANGED <<vars, run, wpc, signal, toNotify, threw>>

-----------------------------------------------------------------------------
Worker == TestRun \/ Wake \/ WorkerPop \/ WorkerWrite \/ WorkerThrows
Dtor == Join \/ DtorPop \/ DtorWrite

NextLogger ==
  \/ \E p \in Producers : LogPush(p) \/ Notify(p)
  \/ Worker
  \/ Destroy \/ Dtor

(* Threads inside log*(), the worker and a running destructor are always   *)
(* scheduled again; nobody has to log, and nobody has to destroy the       *)
(* logger.                                                                 *)
FairnessLogger ==
  /\ \A p \in Producers : WF_allVars((pc[p] # "idle" /\ LogPush(p)) \/ Notify(p))
  /\ WF_allVars(TestRun \/ Wake \/ WorkerPop \/ WorkerWrite)
  /\ WF_allVars(Dtor)

SafeSpecLogger == InitLogger /\ [][NextLogger]_allVars
SpecLogger == SafeSpecLogger /\ FairnessLogger

-----------------------------------------------------------------------------
TypeOKLogger ==
  /\ TypeOK
  /\ run \in BOOLEAN /\ signal \in BOOLEAN /\ threw \in BOOLEAN
  /\ wpc \in {"test", "wait", "pop", "write", "exited"}
  /\ dtor \in {"no", "join", "pop", "write", "done"}
  /\ toNotify \subseteq Producers
  /\ written \in Seq(Items)

(* The queue admits one consumer, yet two threads pop it in turn: the      *)
(* destructor must not start while the worker is anywhere inside pop().    *)
OneConsumer ==
  /\ dtor \in {"pop", "write", "done"} => wpc = "exited"
  /\ cpc # "idle" => wpc = "pop" \/ dtor = "pop"

(* Messages come out in the order in which they were accepted, and a       *)
(* destroyed logger has written every one of them, unless writing failed.  *)
WrittenInOrder ==
  threw \/ /\ Len(written) <= head
           /\ written = SubSeq(order, 1, Len(written))
           /\ dtor = "done" => Len(written) = head

(* A message does not stay in the queue because its notification was lost  *)
(* (logging.hpp:291-293): the worker looks again after 50 ms.              *)
MessageIsWritten ==
  \A n \in 1 .. MaxPush * Cardinality(Producers) :
    (head >= n) ~> (Len(written) >= n \/ threw)

(* The destructor returns: it waits for at most one time-out, and draining *)
(* ends because nobody logs any more.                                      *)
DestructorReturns == (dtor = "join") ~> (dtor = "done")

-----------------------------------------------------------------------------
(***************************************************************************)
(* The inductive invariant behind the two safety properties, on top of     *)
(* that of the queue: what is written is what was popped, but for the      *)
(* object in the hands of the one thread that pops.                        *)
(***************************************************************************)

(* An object has left the queue and is not written yet. *)
InHand == cpc = "advance" \/ wpc = "write" \/ dtor = "write"

HandInv ==
  /\ cpc \in {"check", "move"} => obj = None
  /\ InHand => Len(out) > 0 /\ obj = out[Len(out)]

WrittenInv ==
  threw \/ /\ Len(out) = Len(written) + (IF InHand THEN 1 ELSE 0)
           /\ \A i \in 1 .. Len(written) : written[i] = out[i]

(* Nobody logs once the destructor runs, so what it finds reserved is      *)
(* published, and it ends with an empty queue.                             *)
DrainInv ==
  /\ dtor # "no" => toNotify = {} /\ \A p \in Producers : pc[p] = "idle"
  /\ dtor = "pop" /\ cpc = "check" => tail < head
  /\ dtor = "done" => Released = head

IInvLogger ==
  /\ IInv /\ TypeOKLogger /\ OneConsumer
  /\ HandInv /\ WrittenInv /\ DrainInv

=============================================================================

--------------------------- MODULE InputConsumer ---------------------------
(***************************************************************************)
(* The consumer of the input queue: Engine.consume and handle on several   *)
(* replicas, over an SQS FIFO queue with a visibility timeout and redrive  *)
(* to a dead letter queue.  The queue is external: it is modelled by what  *)
(* sqs.Client asks of it.  Store.ProcessWager is the commit of WagerStore: *)
(* its effect happens once, a repetition is a replay and succeeds.         *)
(*                                                                         *)
(* Messages are numbered in the order the producers sent them.  A receipt  *)
(* is the number of the receive it belongs to: only the latest one of a    *)
(* message that is still invisible is good.                                *)
(***************************************************************************)
EXTENDS Naturals, FiniteSets

CONSTANTS
  Instances,    \* engine processes
  Steady,       \* processes that no one stops or kills
  Messages,     \* messages, in sending order
  Group,        \* MessageGroupId of each message: its wallet
  Refused,      \* messages that Decode or ProcessWager refuses every time; any other may
                \* be refused for as long as it is not committed
  Concurrency,  \* messages per receive
  MaxReceive,   \* maxReceiveCount of the redrive policy
  MaxFaults     \* bounds lost calls, failed transactions, kills, pauses, cut-off drains

ASSUME InstancesAssumption == Steady \subseteq Instances
ASSUME MessagesAssumption == Messages \subseteq Nat /\ Refused \subseteq Messages
ASSUME ReceiveAssumption == {Concurrency, MaxReceive} \subseteq Nat \ {0} /\ MaxFaults \in Nat

VARIABLES
  queue,      \* where a message is, and how often it was received
  committed,  \* messages whose command the store has committed
  spent,      \* receives of a message that came to nothing without any fault
  task,       \* handle: where it is with a message, and its receipt
  phase,      \* the life cycle of an instance
  faults

vars == <<queue, committed, spent, task, phase, faults>>

Places == {"unsent", "visible", "hidden", "deleted", "dead"}
NoTask == [at |-> "none", receipt |-> 0]

Init ==
  /\ queue = [m \in Messages |-> [at |-> "unsent", count |-> 0]]
  /\ committed = {}
  /\ spent = [m \in Messages |-> 0]
  /\ task  = [i \in Instances |-> [m \in Messages |-> NoTask]]
  /\ phase = [i \in Instances |-> "up"]
  /\ faults = MaxFaults

Fault == faults > 0 /\ faults' = faults - 1
Goto(i, m, at) == task' = [task EXCEPT ![i][m] = IF at = "none" THEN NoTask
                                                 ELSE [@ EXCEPT !.at = at]]
Spend(S) == spent' = [m \in Messages |-> IF m \in S THEN spent[m] + 1 ELSE spent[m]]
Busy(i) == \E m \in Messages : task[i][m].at # "none"

(***************************************************************************)
(* The queue.                                                              *)
(***************************************************************************)
Send(m) ==
  /\ queue[m].at = "unsent"
  /\ \A n \in Messages : n < m /\ Group[n] = Group[m] => queue[n].at # "unsent"
  /\ queue' = [queue EXCEPT ![m].at = "visible"]
  /\ UNCHANGED <<committed, spent, task, phase, faults>>

\* FIFO: a group with an invisible message gives out nothing, and a message goes
\* out with or after the earlier ones of its group.
Receivable(S) ==
  \A m \in S : /\ queue[m].at = "visible" /\ queue[m].count < MaxReceive
               /\ \A n \in Messages : Group[n] = Group[m] =>
                    /\ queue[n].at # "hidden"
                    /\ n < m /\ queue[n].at = "visible" => n \in S

\* The broker answers a receive with the messages S, and counts it for each.
GiveOut(S) ==
  /\ S # {} /\ Cardinality(S) <= Concurrency /\ Receivable(S)
  /\ queue' = [m \in Messages |->
       IF m \in S THEN [at |-> "hidden", count |-> queue[m].count + 1] ELSE queue[m]]

\* The broker moves a message that is due for one more receive.
Redrive(m) ==
  /\ queue[m].at = "visible" /\ queue[m].count = MaxReceive
  /\ queue' = [queue EXCEPT ![m].at = "dead"]
  /\ UNCHANGED <<committed, spent, task, phase, faults>>

\* The visibility timeout, or the delay that handle asked for, passes.  While handle
\* is at work this is a fault: config.Load keeps the timeout above the deadline of
\* the handler.
Working(m) == \E i \in Instances : /\ task[i][m].at # "none"
                                   /\ task[i][m].receipt = queue[m].count
Reappear(m) ==
  /\ queue[m].at = "hidden"
  /\ queue' = [queue EXCEPT ![m].at = "visible"]
  /\ IF Working(m) THEN Fault ELSE UNCHANGED faults
  /\ UNCHANGED <<committed, spent, task, phase>>

Good(i, m) == queue[m].at = "hidden" /\ task[i][m].receipt = queue[m].count

(***************************************************************************)
(* consume and handle.                                                     *)
(***************************************************************************)
\* Receive, when the last batch is done.  The answer may be lost on its way.
Receive(i) ==
  /\ phase[i] = "up" /\ ~Busy(i)
  /\ \E S \in SUBSET Messages :
       /\ GiveOut(S)
       /\ \/ /\ task' = [task EXCEPT ![i] = [m \in Messages |->
                  IF m \in S THEN [at |-> "process", receipt |-> queue[m].count + 1]
                  ELSE NoTask]]
             /\ UNCHANGED faults
          \/ Fault /\ UNCHANGED task
  /\ UNCHANGED <<committed, spent, phase>>

\* Mutant: a replay is an error.
ProcessOnce(i, m) ==
  /\ task[i][m].at = "process"
  /\ IF m \in Refused \cup committed
     THEN Goto(i, m, "retain") /\ Spend({m} \cap Refused) /\ UNCHANGED committed
     ELSE Goto(i, m, "delete") /\ committed' = committed \cup {m} /\ UNCHANGED spent
  /\ UNCHANGED <<queue, phase, faults>>

\* Mutant: what Decode or the store refuses for good is acknowledged.
ProcessDropping(i, m) ==
  /\ task[i][m].at = "process"
  /\ Goto(i, m, "delete")
  /\ committed' = IF m \in Refused THEN committed ELSE committed \cup {m}
  /\ UNCHANGED <<queue, spent, phase, faults>>

\* Decode and ProcessWager: a commit or a replay; a refusal, for good or as things stand
\* (the wallet is not there yet, another command has taken the key, the clock of the
\* replica is late); a context that is cancelled; an error without effect; or a commit
\* whose answer is lost.
Process(i, m) ==
  /\ task[i][m].at = "process"
  /\ \/ /\ m \notin Refused /\ phase[i] # "cancelled"
        /\ committed' = committed \cup {m}
        /\ Goto(i, m, "delete") /\ UNCHANGED <<spent, faults>>
     \/ /\ m \notin committed /\ Spend({m})
        /\ Goto(i, m, "retain") /\ UNCHANGED <<committed, faults>>
     \/ /\ phase[i] = "cancelled"
        /\ Goto(i, m, "retain") /\ UNCHANGED <<committed, spent, faults>>
     \/ Fault /\ Goto(i, m, "retain") /\ UNCHANGED <<committed, spent>>
     \/ /\ m \notin Refused
        /\ committed' = committed \cup {m}
        /\ Fault /\ Goto(i, m, "retain") /\ UNCHANGED spent
  /\ UNCHANGED <<queue, phase>>

\* Delete, with a context of its own.  An expired receipt is an error; so is a lost
\* call, which may have worked.
Delete(i, m) ==
  /\ task[i][m].at = "delete"
  /\ \/ /\ Good(i, m) /\ phase[i] # "cancelled"
        /\ queue' = [queue EXCEPT ![m].at = "deleted"]
        /\ Goto(i, m, "none") /\ UNCHANGED faults
     \/ /\ ~Good(i, m) \/ phase[i] = "cancelled"
        /\ Goto(i, m, "retain") /\ UNCHANGED <<queue, faults>>
     \/ Fault /\ Goto(i, m, "retain") /\ UNCHANGED queue
     \/ /\ Fault /\ Good(i, m)
        /\ queue' = [queue EXCEPT ![m].at = "deleted"]
        /\ Goto(i, m, "retain")
  /\ UNCHANGED <<committed, spent, phase>>

\* Mutant: a failed message is sent again as a new one, its receives forgotten.
RetainResending(i, m) ==
  /\ task[i][m].at = "retain"
  /\ Goto(i, m, "none")
  /\ queue' = [queue EXCEPT ![m] = IF Good(i, m) THEN [at |-> "visible", count |-> 0] ELSE @]
  /\ spent' = [spent EXCEPT ![m] = IF Good(i, m) THEN 0 ELSE @]
  /\ UNCHANGED <<committed, phase, faults>>

\* The message stays, to be seen again after a delay, or at once while the work is
\* being cancelled.  The error of this call is ignored.
Retain(i, m) ==
  /\ task[i][m].at = "retain"
  /\ Goto(i, m, "none")
  /\ \/ /\ queue' = IF Good(i, m) /\ phase[i] = "cancelled"
                      THEN [queue EXCEPT ![m].at = "visible"] ELSE queue
        /\ UNCHANGED faults
     \/ Fault /\ UNCHANGED queue
  /\ UNCHANGED <<committed, spent, phase>>

(***************************************************************************)
(* The life of an instance, as in OutboxPublisher.                         *)
(***************************************************************************)
\* The long poll of consume has the context that StopIntake cancels: the broker may have
\* answered it, and nobody takes the answer.
StopIntake(i) ==
  /\ phase[i] = "up" /\ i \notin Steady
  /\ phase' = [phase EXCEPT ![i] = "draining"]
  /\ \/ UNCHANGED <<queue, spent>>
     \/ ~Busy(i) /\ \E S \in SUBSET Messages : GiveOut(S) /\ Spend(S)
  /\ UNCHANGED <<committed, task, faults>>

\* The shutdown deadline passes before the loops have ended.
CancelWork(i) ==
  /\ phase[i] = "draining" /\ Fault
  /\ phase' = [phase EXCEPT ![i] = "cancelled"]
  /\ UNCHANGED <<queue, committed, spent, task>>

Stop(i) ==
  /\ phase[i] \in {"draining", "cancelled"} /\ ~Busy(i)
  /\ phase' = [phase EXCEPT ![i] = "down"]
  /\ UNCHANGED <<queue, committed, spent, task, faults>>

Crash(i) ==
  /\ phase[i] # "down" /\ i \notin Steady /\ Fault
  /\ phase' = [phase EXCEPT ![i] = "down"]
  /\ task' = [task EXCEPT ![i] = [m \in Messages |-> NoTask]]
  /\ UNCHANGED <<queue, committed, spent>>

Start(i) ==
  /\ phase[i] = "down"
  /\ phase' = [phase EXCEPT ![i] = "up"]
  /\ UNCHANGED <<queue, committed, spent, task, faults>>

HandleStep(i) == \E m \in Messages : \/ Process(i, m) \/ Delete(i, m) \/ Retain(i, m)

Next ==
  \/ \E m \in Messages : Send(m) \/ Redrive(m) \/ Reappear(m)
  \/ \E i \in Instances : \/ Receive(i) \/ HandleStep(i) \/ StopIntake(i)
                          \/ CancelWork(i) \/ Stop(i) \/ Crash(i) \/ Start(i)

Spec == Init /\ [][Next]_vars

(***************************************************************************)
(* Fairness: goroutines run, timeouts pass and the broker redrives.        *)
(* Nothing restarts a process or sends a message.  The queue gives out the *)
(* oldest message of a group first and long polling keeps asking, so a     *)
(* message that can be received again and again is received.               *)
(***************************************************************************)
Receives(m) == (\E i \in Instances : Receive(i)) /\ queue'[m].count # queue[m].count

Fairness ==
  /\ \A i \in Instances : WF_vars(HandleStep(i)) /\ WF_vars(Stop(i))
  /\ \A m \in Messages : /\ WF_vars(Redrive(m)) /\ WF_vars(Reappear(m))
                         /\ SF_vars(Receives(m))

FairSpec == Spec /\ Fairness

(***************************************************************************)
(* Properties.                                                             *)
(***************************************************************************)

\* A message is acknowledged only for a durable success: whatever is deleted from
\* the queue has been committed, so a refused message is never lost.
AckedOnlyIfCommitted ==
  \A m \in Messages : queue[m].at = "deleted" => m \in committed

\* A message ends in the dead letter queue only if each of its receives has a cause of its
\* own: a fault, a refusal of the store, or a shutdown that cut off the long poll.  A replay
\* of what is committed, a refused neighbour in its group, a batch that is drained and a
\* copy of it that is handled late use up none of its attempts.
DeadOnlyWithCause ==
  \A m \in Messages :
    queue[m].at = "dead" => spent[m] + (MaxFaults - faults) >= MaxReceive

\* No message stays in the queue for ever, and so no group stays blocked: each one
\* is acknowledged or ends in the dead letter queue, as long as one process keeps
\* running.
MessagesSettle ==
  \A m \in Messages : queue[m].at = "visible" ~> queue[m].at \in {"deleted", "dead"}
=============================================================================

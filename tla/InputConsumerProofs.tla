------------------------ MODULE InputConsumerProofs -------------------------
(***************************************************************************)
(* Proofs about InputConsumer, for any number of processes, messages,      *)
(* groups, receives and faults.                                            *)
(*                                                                         *)
(* The inductive invariant IndInv adds to the types that a message is      *)
(* deleted only after its commit (Committed), that no two processes hold   *)
(* the same receipt (Receipts), and an account of the receives: every      *)
(* receive of a message has been paid for by a fault, a refusal or a long  *)
(* poll that a shutdown cut off, except one that is still being handled or *)
(* has succeeded (Paid).                                                   *)
(***************************************************************************)
EXTENDS InputConsumer, TLAPS

Letter == [at : Places, count : Nat]
Task == [at : {"none", "process", "delete", "retain"}, receipt : Nat]

Types ==
  /\ queue \in [Messages -> Letter]
  /\ committed \subseteq Messages
  /\ spent \in [Messages -> Nat]
  /\ task \in [Instances -> [Messages -> Task]]
  /\ phase \in [Instances -> {"up", "draining", "cancelled", "down"}]
  /\ faults \in 0 .. MaxFaults

\* Delete is called for what is committed, and only Delete removes a message.
Committed ==
  \A m \in Messages :
    /\ queue[m].at = "deleted" => m \in committed
    /\ \A i \in Instances : task[i][m].at = "delete" => m \in committed

\* A receipt is the number of a receive that has happened, and each receive has been
\* answered to one process.
Receipts ==
  \A m \in Messages, i \in Instances : task[i][m].at # "none" =>
    /\ task[i][m].receipt <= queue[m].count
    /\ \A j \in Instances : /\ task[j][m].at # "none"
                            /\ task[j][m].receipt = task[i][m].receipt
                            => i = j

\* Process i handles the last receive of m, and nothing has gone wrong with it yet.
InHand(i, m) ==
  /\ queue[m].at = "hidden"
  /\ task[i][m].at \in {"process", "delete"}
  /\ task[i][m].receipt = queue[m].count
  /\ phase[i] # "cancelled"

\* How many receives of m the faults there have been and what m has spent account for.
Credit(m) == spent[m] + (MaxFaults - faults)

\* The receives of a message are at most as many as there are causes for, and one more
\* while the last of them is in hand.
Paid ==
  \A m \in Messages :
    \/ queue[m].at = "deleted"
    \/ queue[m].count <= Credit(m)
    \/ /\ queue[m].count <= Credit(m) + 1
       /\ \E i \in Instances : InHand(i, m)

\* Only the last receive leads to the dead letter queue.
Redriven == \A m \in Messages : queue[m].at = "dead" => queue[m].count = MaxReceive

IndInv == Types /\ Committed /\ Receipts /\ Paid /\ Redriven

-----------------------------------------------------------------------------
(* What the assignments of the actions do, place by place. *)

\* The step of one task leaves every other task alone.
LEMMA GotoEffect ==
  ASSUME Types, NEW i \in Instances, NEW m \in Messages,
         NEW a \in {"none", "process", "delete", "retain"}, Goto(i, m, a)
  PROVE  /\ task' \in [Instances -> [Messages -> Task]]
         /\ task'[i][m].at = a
         /\ a # "none" => task'[i][m].receipt = task[i][m].receipt
         /\ \A j \in Instances, n \in Messages :
              j # i \/ n # m => task'[j][n] = task[j][n]
<1>. DEFINE t == IF a = "none" THEN NoTask ELSE [task[i][m] EXCEPT !.at = a]
<1>1. t \in Task /\ t.at = a /\ (a # "none" => t.receipt = task[i][m].receipt)
  BY DEF Types, Task, NoTask
<1>2. task' = [task EXCEPT ![i] = [task[i] EXCEPT ![m] = t]]
  BY DEF Goto, Types
<1>. HIDE DEF t
<1>. QED  BY <1>1, <1>2 DEF Types

\* The move of one message leaves its receives and every other message alone.
LEMMA MoveEffect ==
  ASSUME Types, NEW m \in Messages, NEW a \in Places,
         queue' = [queue EXCEPT ![m].at = a]
  PROVE  /\ queue' \in [Messages -> Letter]
         /\ queue'[m].at = a /\ queue'[m].count = queue[m].count
         /\ \A n \in Messages : n # m => queue'[n] = queue[n]
<1>. DEFINE q == [queue[m] EXCEPT !.at = a]
<1>1. q \in Letter /\ q.at = a /\ q.count = queue[m].count
  BY DEF Types, Letter
<1>2. queue' = [queue EXCEPT ![m] = q]
  BY DEF Types
<1>. HIDE DEF q
<1>. QED  BY <1>1, <1>2 DEF Types

\* A fault is one of those that are left.
LEMMA FaultEffect ==
  ASSUME Types, Fault
  PROVE  faults' \in 0 .. MaxFaults /\ faults' = faults - 1
BY ReceiveAssumption DEF Types, Fault

\* What messages spend leaves the others alone.
LEMMA SpendEffect ==
  ASSUME Types, NEW S \in SUBSET Messages, Spend(S)
  PROVE  /\ spent' \in [Messages -> Nat]
         /\ \A n \in S : spent'[n] = spent[n] + 1
         /\ \A n \in Messages \ S : spent'[n] = spent[n]
BY DEF Types, Spend

\* The receives of a message are numbers, and so is what accounts for them.
LEMMA Numbers ==
  ASSUME Types, NEW m \in Messages
  PROVE  /\ queue[m].count \in Nat /\ spent[m] \in Nat /\ faults \in Nat /\ MaxFaults \in Nat
         /\ faults <= MaxFaults /\ Credit(m) = spent[m] + (MaxFaults - faults)
BY ReceiveAssumption DEF Types, Letter, Credit

\* A receive that was given out counts once more for each of its messages.
LEMMA GiveEffect ==
  ASSUME Types, NEW S \in SUBSET Messages, GiveOut(S)
  PROVE  /\ queue' \in [Messages -> Letter]
         /\ \A m \in S : /\ queue[m].at = "visible" /\ queue'[m].at = "hidden"
                        /\ queue'[m].count = queue[m].count + 1
         /\ \A m \in Messages \ S : queue'[m] = queue[m]
BY DEF GiveOut, Receivable, Types, Letter, Places

\* A receive that was given out and that nobody handles keeps the other parts of the
\* invariant, and its messages have one receive more.
LEMMA LostEffect ==
  ASSUME Types, Committed, Receipts, Redriven, NEW S \in SUBSET Messages, GiveOut(S),
         UNCHANGED <<committed, task>>
  PROVE  Committed' /\ Receipts' /\ Redriven'
<1>1. /\ \A m \in S : /\ queue[m].at = "visible" /\ queue'[m].at = "hidden"
                     /\ queue'[m].count = queue[m].count + 1
      /\ \A m \in Messages \ S : queue'[m] = queue[m]
  BY GiveEffect
<1>2. Committed' /\ Redriven'
  BY <1>1 DEF Committed, Redriven
<1>3. ASSUME NEW m \in Messages, NEW j \in Instances, task'[j][m].at # "none"
      PROVE  task'[j][m].receipt <= queue'[m].count
  <2>1. task'[j][m] = task[j][m] /\ task[j][m].receipt <= queue[m].count
    BY <1>3 DEF Receipts
  <2>2. task[j][m].receipt \in Nat /\ queue[m].count \in Nat
    BY DEF Types, Letter, Task
  <2>. QED  BY <1>1, <2>1, <2>2
<1>. QED  BY <1>2, <1>3 DEF Receipts

-----------------------------------------------------------------------------
(* The inductive step. *)

\* Nothing has been sent or received at first.
LEMMA InitInv == Init => IndInv
<1>. SUFFICES ASSUME Init PROVE IndInv
  OBVIOUS
<1>1. NoTask \in Task /\ NoTask.at = "none" /\ [at |-> "unsent", count |-> 0] \in Letter
  BY DEF NoTask, Task, Letter, Places
<1>2. Types
  BY <1>1, ReceiveAssumption DEF Init, Types
<1>3. Committed /\ Receipts /\ Redriven
  BY <1>1 DEF Init, Committed, Receipts, Redriven
<1>4. Paid
  BY ReceiveAssumption DEF Init, Paid, Credit
<1>. QED  BY <1>2, <1>3, <1>4 DEF IndInv

\* A message is sent, is redriven or reappears.
LEMMA QueueInv ==
  ASSUME IndInv, NEW m \in Messages, Send(m) \/ Redrive(m) \/ Reappear(m)
  PROVE  IndInv'
<1>. USE DEF IndInv
<1>1. PICK a \in {"visible", "dead"} :
        /\ queue' = [queue EXCEPT ![m].at = a]
        /\ a = "dead" => queue[m].count = MaxReceive
  BY DEF Send, Redrive, Reappear
<1>2. /\ queue' \in [Messages -> Letter]
      /\ queue'[m].at = a /\ queue'[m].count = queue[m].count
      /\ \A n \in Messages : n # m => queue'[n] = queue[n]
  BY <1>1, MoveEffect DEF Places
<1>3. UNCHANGED <<committed, spent, task, phase>> /\ queue[m].at # "deleted"
  BY DEF Send, Redrive, Reappear
<1>4. /\ faults' \in 0 .. MaxFaults /\ faults' <= faults
      /\ (\E i \in Instances : InHand(i, m)) => faults' = faults - 1
  BY FaultEffect, ReceiveAssumption
     DEF Types, Send, Redrive, Reappear, Working, InHand
<1>5. Types' /\ Committed' /\ Receipts' /\ Redriven'
  BY <1>1, <1>2, <1>3, <1>4 DEF Types, Committed, Receipts, Redriven
<1>6. Paid'
  <2>. SUFFICES ASSUME NEW n \in Messages
                PROVE  \/ queue'[n].at = "deleted"
                       \/ queue'[n].count <= Credit(n)'
                       \/ /\ queue'[n].count <= Credit(n)' + 1
                          /\ \E i \in Instances : InHand(i, n)'
    BY DEF Paid
  <2>1. Credit(n)' = spent[n] + (MaxFaults - faults') /\ faults' \in Nat
    BY <1>3, <1>4, ReceiveAssumption DEF Credit
  <2>2. CASE n = m
    BY <1>2, <1>3, <1>4, <2>1, <2>2, Numbers DEF Paid
  <2>3. CASE n # m
    <3>1. \A i \in Instances : InHand(i, n) => InHand(i, n)'
      BY <1>2, <1>3, <2>3 DEF InHand
    <3>. QED  BY <1>2, <1>4, <2>1, <2>3, <3>1, Numbers DEF Paid
  <2>. QED  BY <2>2, <2>3
<1>. QED  BY <1>5, <1>6

\* Messages are received, or their answer is lost.
LEMMA ReceiveInv ==
  ASSUME IndInv, NEW i \in Instances, Receive(i)
  PROVE  IndInv'
<1>. USE DEF IndInv
<1>1. PICK S \in SUBSET Messages :
        /\ GiveOut(S)
        /\ \/ /\ task' = [task EXCEPT ![i] = [m \in Messages |->
                   IF m \in S THEN [at |-> "process", receipt |-> queue[m].count + 1]
                   ELSE NoTask]]
              /\ UNCHANGED faults
           \/ Fault /\ UNCHANGED task
  BY DEF Receive
<1>2. /\ UNCHANGED <<committed, spent, phase>> /\ phase[i] = "up"
      /\ \A m \in Messages : task[i][m].at = "none"
  BY DEF Receive, Busy
<1>3. /\ queue' \in [Messages -> Letter]
      /\ \A m \in S : /\ queue[m].at = "visible" /\ queue'[m].at = "hidden"
                     /\ queue'[m].count = queue[m].count + 1
      /\ \A m \in Messages \ S : queue'[m] = queue[m]
  BY <1>1, GiveEffect
<1>4. CASE task' = [task EXCEPT ![i] = [m \in Messages |->
                      IF m \in S THEN [at |-> "process", receipt |-> queue[m].count + 1]
                      ELSE NoTask]]
           /\ UNCHANGED faults
  <2>1. /\ task' \in [Instances -> [Messages -> Task]]
        /\ \A j \in Instances \ {i} : task'[j] = task[j]
        /\ \A m \in S : /\ task'[i][m].at = "process"
                        /\ task'[i][m].receipt = queue[m].count + 1
        /\ \A m \in Messages \ S : task'[i][m].at = "none"
    <3>1. NoTask \in Task /\ NoTask.at = "none"
      BY DEF NoTask, Task
    <3>2. \A m \in S : /\ [at |-> "process", receipt |-> queue[m].count + 1] \in Task
                       /\ [at |-> "process", receipt |-> queue[m].count + 1].at = "process"
                       /\ [at |-> "process", receipt |-> queue[m].count + 1].receipt
                            = queue[m].count + 1
      BY DEF Types, Letter, Task
    <3>. QED  BY <1>4, <3>1, <3>2 DEF Types
  <2>2. Types'
    BY <1>2, <1>3, <1>4, <2>1 DEF Types
  <2>3. Committed' /\ Redriven'
    BY <1>1, <1>2, <1>3, <2>1 DEF Committed, Redriven
  <2>4. Receipts'
    <3>1. ASSUME NEW m \in Messages, NEW j \in Instances, task'[j][m].at # "none"
          PROVE  /\ task'[j][m].receipt <= queue'[m].count
                 /\ m \in S /\ j # i => task'[j][m].receipt # task'[i][m].receipt
                 /\ j = i => m \in S
                 /\ j # i => task'[j][m] = task[j][m]
      <4>1. CASE j = i
        BY <1>3, <2>1, <3>1, <4>1 DEF Types, Letter
      <4>2. CASE j # i
        <5>1. task'[j][m] = task[j][m] /\ task[j][m].receipt <= queue[m].count
          BY <2>1, <3>1, <4>2 DEF Receipts
        <5>2. task[j][m].receipt \in Nat /\ queue[m].count \in Nat
          BY DEF Types, Letter, Task
        <5>. QED  BY <1>3, <2>1, <4>2, <5>1, <5>2
      <4>. QED  BY <4>1, <4>2
    <3>2. ASSUME NEW m \in Messages, NEW j \in Instances, NEW k \in Instances,
                 task'[j][m].at # "none", task'[k][m].at # "none",
                 task'[j][m].receipt = task'[k][m].receipt
          PROVE  j = k
      BY <3>1, <3>2 DEF Receipts
    <3>. QED  BY <3>1, <3>2 DEF Receipts
  <2>5. ASSUME NEW m \in Messages
        PROVE  \/ queue'[m].at = "deleted"
               \/ queue'[m].count <= Credit(m)'
               \/ /\ queue'[m].count <= Credit(m)' + 1
                  /\ \E j \in Instances : InHand(j, m)'
    <3>0. Credit(m)' = Credit(m)
      BY <1>2, <1>4 DEF Credit
    <3>1. CASE m \in S
      <4>1. queue[m].count <= Credit(m)
        BY <1>3, <3>1 DEF Paid, InHand
      <4>2. InHand(i, m)'
        BY <1>2, <1>3, <2>1, <3>1 DEF InHand
      <4>. QED  BY <1>3, <3>0, <3>1, <4>1, <4>2, Numbers
    <3>2. CASE m \notin S
      <4>1. ASSUME NEW j \in Instances, InHand(j, m) PROVE InHand(j, m)'
        BY <1>2, <1>3, <2>1, <3>2, <4>1 DEF InHand
      <4>. QED  BY <1>3, <3>0, <3>2, <4>1 DEF Paid
    <3>. QED  BY <3>1, <3>2
  <2>. QED  BY <2>2, <2>3, <2>4, <2>5 DEF Paid
<1>5. CASE Fault /\ UNCHANGED task
  <2>1. faults' \in 0 .. MaxFaults /\ faults' = faults - 1
    BY <1>5, FaultEffect
  <2>2. Types'
    BY <1>2, <1>3, <1>5, <2>1 DEF Types
  <2>3. Committed' /\ Receipts' /\ Redriven'
    BY <1>1, <1>2, <1>5, LostEffect
  <2>4. ASSUME NEW m \in Messages
        PROVE  queue'[m].at = "deleted" \/ queue'[m].count <= Credit(m)'
    <3>1. Credit(m)' = Credit(m) + 1
      BY <1>2, <2>1, Numbers DEF Credit
    <3>2. CASE m \in S
      <4>1. queue[m].count <= Credit(m)
        BY <1>3, <3>2 DEF Paid, InHand
      <4>. QED  BY <1>3, <3>1, <3>2, <4>1, Numbers
    <3>3. CASE m \notin S
      BY <1>3, <3>1, <3>3, Numbers DEF Paid
    <3>. QED  BY <3>2, <3>3
  <2>. QED  BY <2>2, <2>3, <2>4 DEF Paid
<1>. QED  BY <1>1, <1>4, <1>5

\* handle: a commit or a refusal of the store, an acknowledgement, or neither.
LEMMA HandleInv ==
  ASSUME IndInv, NEW i \in Instances, NEW m \in Messages,
         Process(i, m) \/ Delete(i, m) \/ Retain(i, m)
  PROVE  IndInv'
<1>. USE DEF IndInv
<1>1. PICK a \in {"none", "delete", "retain"} : Goto(i, m, a) /\ (a = "delete" => m \in committed')
  BY DEF Process, Delete, Retain
<1>2. /\ task' \in [Instances -> [Messages -> Task]]
      /\ task'[i][m].at = a
      /\ a # "none" => task'[i][m].receipt = task[i][m].receipt
      /\ \A j \in Instances, n \in Messages :
           j # i \/ n # m => task'[j][n] = task[j][n]
  BY <1>1, GotoEffect
<1>3. /\ UNCHANGED phase /\ task[i][m].at # "none"
      /\ committed \subseteq committed' /\ committed' \subseteq Messages
  BY DEF Process, Delete, Retain, Types
<1>4. UNCHANGED faults \/ Fault
  BY DEF Process, Delete, Retain
<1>5. faults' \in 0 .. MaxFaults /\ (faults' = faults \/ faults' = faults - 1)
  BY <1>4, FaultEffect DEF Types
<1>6. PICK q \in {"deleted", "visible", "hidden"} :
        /\ q # "hidden" => queue' = [queue EXCEPT ![m].at = q] /\ Good(i, m)
        /\ q = "deleted" => m \in committed
        /\ q = "visible" => task[i][m].at = "retain"
        /\ q = "hidden" => UNCHANGED queue
  BY DEF Process, Delete, Retain, Committed
<1>7. /\ queue' \in [Messages -> Letter]
      /\ q # "hidden" => queue'[m].at = q
      /\ q = "hidden" => queue'[m] = queue[m]
      /\ queue'[m].count = queue[m].count
      /\ \A n \in Messages : n # m => queue'[n] = queue[n]
  BY <1>6, MoveEffect DEF Places, Types
<1>8. UNCHANGED spent \/ Spend({m})
  BY DEF Process, Delete, Retain
<1>9. /\ spent' \in [Messages -> Nat] /\ spent'[m] >= spent[m]
      /\ spent'[m] = spent[m] + 1 \/ spent' = spent
      /\ \A n \in Messages \ {m} : spent'[n] = spent[n]
  BY <1>8, SpendEffect DEF Types
<1>10. Types' /\ Committed' /\ Redriven'
  <2>1. Types'
    BY <1>2, <1>3, <1>5, <1>7, <1>9 DEF Types
  <2>. QED  BY <1>1, <1>2, <1>3, <1>6, <1>7, <2>1 DEF Committed, Redriven
<1>11. Receipts'
  BY <1>2, <1>3, <1>7 DEF Receipts
<1>12. \A j \in Instances, n \in Messages :
         InHand(j, n) /\ (j # i \/ n # m) => InHand(j, n)'
  <2>. SUFFICES ASSUME NEW j \in Instances, NEW n \in Messages, InHand(j, n), j # i \/ n # m
                PROVE  InHand(j, n)'
    OBVIOUS
  <2>1. CASE n # m
    BY <1>2, <1>3, <1>7, <2>1 DEF InHand
  <2>2. CASE n = m
    <3>1. j # i
      BY <2>2
    <3>2. ~Good(i, m)
      BY <1>3, <2>2, <3>1 DEF Receipts, Good, InHand
    <3>. QED  BY <1>2, <1>3, <1>6, <1>7, <2>2, <3>1, <3>2 DEF InHand
  <2>. QED  BY <2>1, <2>2
<1>13. InHand(i, m) => \/ queue'[m].at = "deleted" \/ InHand(i, m)'
                       \/ faults' = faults - 1 \/ spent'[m] = spent[m] + 1
  <2>. SUFFICES ASSUME InHand(i, m), ~Fault, ~Spend({m})
                PROVE  queue'[m].at = "deleted" \/ InHand(i, m)'
    BY SpendEffect DEF Fault
  <2>1. CASE Process(i, m)
    <3>1. Goto(i, m, "delete") /\ UNCHANGED queue
      BY <2>1 DEF Process, InHand
    <3>2. task'[i][m].at = "delete" /\ task'[i][m].receipt = task[i][m].receipt
      BY <3>1, GotoEffect
    <3>. QED  BY <1>3, <3>1, <3>2 DEF InHand
  <2>2. CASE Delete(i, m)
    <3>1. queue' = [queue EXCEPT ![m].at = "deleted"]
      BY <2>2 DEF Delete, InHand, Good
    <3>. QED  BY <3>1, MoveEffect DEF Places
  <2>3. CASE Retain(i, m)
    BY <2>3 DEF Retain, InHand
  <2>. QED  BY <2>1, <2>2, <2>3
<1>14. \A n \in Messages : /\ queue'[n].count = queue[n].count /\ queue[n].count \in Nat
                           /\ queue[n].at = "deleted" => queue'[n].at = "deleted"
  BY <1>6, <1>7 DEF Types, Letter, Good
<1>15. Paid'
  <2>. SUFFICES ASSUME NEW n \in Messages
                PROVE  \/ queue'[n].at = "deleted"
                       \/ queue'[n].count <= Credit(n)'
                       \/ /\ queue'[n].count <= Credit(n)' + 1
                          /\ \E j \in Instances : InHand(j, n)'
    BY DEF Paid
  <2>1. /\ Credit(n)' \in Nat /\ Credit(n) \in Nat /\ Credit(n)' >= Credit(n)
        /\ faults' = faults - 1 \/ spent'[n] = spent[n] + 1 => Credit(n)' >= Credit(n) + 1
    <3>1. Credit(n)' = spent'[n] + (MaxFaults - faults')
      BY DEF Credit
    <3>2. spent'[n] \in Nat /\ (spent'[n] = spent[n] + 1 \/ spent'[n] = spent[n])
      BY <1>9
    <3>. QED  BY <1>5, <3>1, <3>2, Numbers
  <2>2. CASE faults' = faults - 1 \/ spent'[n] = spent[n] + 1
    BY <1>14, <2>1, <2>2 DEF Paid
  <2>3. CASE ~(faults' = faults - 1 \/ spent'[n] = spent[n] + 1)
    <3>1. ASSUME NEW j \in Instances, InHand(j, n)
          PROVE  queue'[n].at = "deleted" \/ InHand(j, n)'
      BY <1>12, <1>13, <2>3, <3>1
    <3>. QED  BY <1>14, <2>1, <3>1 DEF Paid
  <2>. QED  BY <2>2, <2>3
<1>. QED  BY <1>10, <1>11, <1>15

\* A shutdown cuts off a long poll that the broker has answered.
LEMMA CutOffInv ==
  ASSUME IndInv, NEW i \in Instances, StopIntake(i), NEW S \in SUBSET Messages,
         GiveOut(S), Spend(S)
  PROVE  IndInv'
<1>. USE DEF IndInv
<1>1. /\ UNCHANGED <<committed, task, faults>>
      /\ phase' = [phase EXCEPT ![i] = "draining"]
  BY DEF StopIntake
<1>2. /\ phase' \in [Instances -> {"up", "draining", "cancelled", "down"}]
      /\ \A j \in Instances : phase[j] # "cancelled" => phase'[j] # "cancelled"
  BY <1>1 DEF Types
<1>3. /\ queue' \in [Messages -> Letter]
      /\ \A m \in S : /\ queue[m].at = "visible" /\ queue'[m].at = "hidden"
                     /\ queue'[m].count = queue[m].count + 1
      /\ \A m \in Messages \ S : queue'[m] = queue[m]
  BY GiveEffect
<1>4. /\ spent' \in [Messages -> Nat]
      /\ \A m \in S : spent'[m] = spent[m] + 1
      /\ \A m \in Messages \ S : spent'[m] = spent[m]
  BY SpendEffect
<1>5. Types'
  BY <1>1, <1>2, <1>3, <1>4 DEF Types
<1>6. Committed' /\ Receipts' /\ Redriven'
  BY <1>1, LostEffect
<1>7. ASSUME NEW m \in Messages
      PROVE  \/ queue'[m].at = "deleted"
             \/ queue'[m].count <= Credit(m)'
             \/ /\ queue'[m].count <= Credit(m)' + 1
                /\ \E j \in Instances : InHand(j, m)'
  <2>1. Credit(m)' = spent'[m] + (MaxFaults - faults)
    BY <1>1 DEF Credit
  <2>2. CASE m \in S
    <3>1. queue[m].count <= Credit(m)
      BY <1>3, <2>2 DEF Paid, InHand
    <3>. QED  BY <1>3, <1>4, <2>1, <2>2, <3>1, Numbers
  <2>3. CASE m \notin S
    <3>1. Credit(m)' = Credit(m)
      BY <1>4, <2>1, <2>3 DEF Credit
    <3>2. ASSUME NEW j \in Instances, InHand(j, m) PROVE InHand(j, m)'
      BY <1>1, <1>2, <1>3, <2>3, <3>2 DEF InHand
    <3>. QED  BY <1>3, <2>3, <3>1, <3>2 DEF Paid
  <2>. QED  BY <2>2, <2>3
<1>. QED  BY <1>5, <1>6, <1>7 DEF Paid

\* The life of a process, when no answer of the broker is cut off.
LEMMA LifeInv ==
  ASSUME IndInv, NEW i \in Instances,
         StopIntake(i) \/ CancelWork(i) \/ Stop(i) \/ Crash(i) \/ Start(i),
         UNCHANGED <<queue, spent>>
  PROVE  IndInv'
<1>. USE DEF IndInv
<1>1. UNCHANGED <<queue, committed, spent>>
  BY DEF StopIntake, CancelWork, Stop, Crash, Start
<1>2. /\ phase' \in [Instances -> {"up", "draining", "cancelled", "down"}]
      /\ \A j \in Instances \ {i} : phase'[j] = phase[j]
  BY DEF StopIntake, CancelWork, Stop, Crash, Start, Types
<1>3. /\ task' \in [Instances -> [Messages -> Task]]
      /\ \A j \in Instances, n \in Messages :
           task'[j][n] = task[j][n] \/ (j = i /\ task'[j][n].at = "none")
  <2>1. NoTask \in Task /\ NoTask.at = "none"
    BY DEF NoTask, Task
  <2>. QED  BY <2>1 DEF StopIntake, CancelWork, Stop, Crash, Start, Types
<1>4. /\ faults' \in 0 .. MaxFaults
      /\ \/ faults' = faults - 1
         \/ faults' = faults /\ \A n \in Messages : task'[i][n] = task[i][n]
  BY FaultEffect DEF StopIntake, CancelWork, Stop, Crash, Start, Types
<1>5. faults' = faults - 1 \/ phase'[i] # "cancelled"
  BY FaultEffect DEF StopIntake, CancelWork, Stop, Crash, Start, Types
<1>6. Types' /\ Committed' /\ Redriven'
  BY <1>1, <1>2, <1>3, <1>4 DEF Types, Committed, Redriven
<1>7. Receipts'
  BY <1>1, <1>3 DEF Receipts
<1>8. Paid'
  <2>. SUFFICES ASSUME NEW n \in Messages
                PROVE  \/ queue'[n].at = "deleted"
                       \/ queue'[n].count <= Credit(n)'
                       \/ /\ queue'[n].count <= Credit(n)' + 1
                          /\ \E j \in Instances : InHand(j, n)'
    BY DEF Paid
  <2>1. queue'[n] = queue[n] /\ Credit(n)' = spent[n] + (MaxFaults - faults')
    BY <1>1 DEF Credit
  <2>2. CASE faults' = faults - 1
    BY <2>1, <2>2, Numbers DEF Paid
  <2>3. CASE faults' = faults /\ faults' # faults - 1
    <3>1. \A j \in Instances : task'[j][n] = task[j][n]
      BY <1>3, <1>4, <2>3
    <3>2. \A j \in Instances : InHand(j, n) => InHand(j, n)'
      BY <1>1, <1>2, <1>5, <2>3, <3>1 DEF InHand
    <3>3. Credit(n)' = Credit(n)
      BY <2>1, <2>3 DEF Credit
    <3>. QED  BY <2>1, <3>2, <3>3 DEF Paid
  <2>. QED  BY <1>4, <2>2, <2>3, Numbers
<1>. QED  BY <1>6, <1>7, <1>8

\* Every step, and every stuttering step, keeps the invariant.
LEMMA IndStep == IndInv /\ [Next]_vars => IndInv'
<1>1. ASSUME IndInv, NEW i \in Instances,
             StopIntake(i) \/ CancelWork(i) \/ Stop(i) \/ Crash(i) \/ Start(i)
      PROVE  IndInv'
  <2>1. CASE UNCHANGED <<queue, spent>>
    BY <1>1, <2>1, LifeInv
  <2>2. CASE ~UNCHANGED <<queue, spent>>
    <3>1. StopIntake(i) /\ \E S \in SUBSET Messages : GiveOut(S) /\ Spend(S)
      BY <1>1, <2>2 DEF StopIntake, CancelWork, Stop, Crash, Start
    <3>. QED  BY <1>1, <3>1, CutOffInv
  <2>. QED  BY <2>1, <2>2
<1>2. ASSUME IndInv, Next PROVE IndInv'
  BY <1>1, <1>2, QueueInv, ReceiveInv, HandleInv DEF Next, HandleStep
<1>3. ASSUME IndInv, UNCHANGED vars PROVE IndInv'
  BY <1>3 DEF IndInv, Types, Committed, Receipts, Paid, Credit, InHand, Redriven, vars
<1>. QED  BY <1>2, <1>3

-----------------------------------------------------------------------------
(* The theorems. *)

\* Deletes follow commits, receipts are unique, and every receive that came to nothing has
\* a cause of its own: a fault, a refusal of the store, or a long poll cut off by a shutdown.
THEOREM ReceivesAccounted == Spec => []IndInv
<1>. QED  BY InitInv, IndStep, PTL DEF Spec

\* handle acknowledges a message only after ProcessWager has committed its command.
THEOREM AcknowledgeCorrect == Spec => []AckedOnlyIfCommitted
<1>1. IndInv => AckedOnlyIfCommitted
  BY DEF IndInv, Committed, AckedOnlyIfCommitted
<1>. QED  BY <1>1, ReceivesAccounted, PTL

\* A message is dead-lettered only when each of its maxReceiveCount receives has been lost
\* to a fault, a refusal of the store or a shutdown that cut off the long poll; replays,
\* drains and late copies cost nothing.
THEOREM DeadLetterCorrect == Spec => []DeadOnlyWithCause
<1>1. ASSUME IndInv, NEW m \in Messages, queue[m].at = "dead"
      PROVE  spent[m] + (MaxFaults - faults) >= MaxReceive
  <2>1. queue[m].count = MaxReceive /\ queue[m].count <= Credit(m)
    BY <1>1 DEF IndInv, Redriven, Paid, InHand
  <2>. QED  BY <1>1, <2>1, ReceiveAssumption, Numbers DEF IndInv
<1>2. IndInv => DeadOnlyWithCause
  BY <1>1 DEF DeadOnlyWithCause
<1>. QED  BY <1>2, ReceivesAccounted, PTL
=============================================================================

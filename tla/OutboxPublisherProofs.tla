----------------------- MODULE OutboxPublisherProofs ------------------------
(***************************************************************************)
(* Proofs about OutboxPublisher, for any number of processes, events and   *)
(* tokens, any batch and any number of faults, under every assignment of   *)
(* InstanceIDs.                                                            *)
(*                                                                         *)
(* The inductive invariant IndInv adds to TypeOK what was sent before a    *)
(* row is marked (Arrived), that a token is held by one goroutine          *)
(* (Unique), that goroutines run within a batch (Batches), and what holds  *)
(* as long as nothing has failed and every process has an InstanceID of    *)
(* its own (Quiet): a goroutine at work owns a live claim.                 *)
(***************************************************************************)
EXTENDS OutboxPublisher, TLAPS

\* What is about to be marked or is marked was accepted by the broker.
Arrived ==
  /\ \A i \in Instances, e \in Events : job[i][e].at = "mark" => arrived[e] > 0
  /\ NothingLost

\* No two goroutines work on an event under one token.
Unique ==
  \A e \in Events, i, j \in Instances :
    job[i][e].token # 0 /\ job[i][e].token = job[j][e].token => i = j

\* A goroutine belongs to the batch its loop waits for, and no loop of a process that is
\* down waits for one.
Batches ==
  \A i \in Instances :
    /\ \A e \in Events : job[i][e].at # "none" => loop[i] = "batch"
    /\ phase[i] = "down" => loop[i] # "batch"

\* Process i holds the claim of e.
Holds(i, e) == Mine(i, e) /\ row[e].token # 0 /\ row[e].by = owner[i] /\ row[e].live

\* What a process does while nothing fails.
QuietJob(i, e) ==
  /\ job[i][e].at \notin {"retry", "failed"}
  /\ job[i][e].at \in {"send", "mark"} => Holds(i, e)
  /\ job[i][e].at = "send" => arrived[e] = 0

\* What has become of an event while nothing fails.
QuietEvent(e) ==
  arrived[e] # 0 => /\ arrived[e] = 1
                    /\ \/ row[e].state = "published"
                       \/ \E i \in Instances : job[i][e].at = "mark"

Quiet ==
  faults = MaxFaults /\ OwnIds =>
    /\ \A i \in Instances : phase[i] # "cancelled"
    /\ \A i \in Instances, e \in Events : QuietJob(i, e)
    /\ \A e \in Events : QuietEvent(e)

IndInv == TypeOK /\ Arrived /\ Unique /\ Batches /\ Quiet

-----------------------------------------------------------------------------
(* Rows, claims and faults. *)

\* What the schema allows a row to be.
RowCheck(r) ==
  /\ r \in Row
  /\ r.by = Nobody <=> r.token = 0
  /\ r.live => r.by # Nobody
  /\ r.state # "pending" => r.by = Nobody

\* What TypeOK says of the rows, row by row.
LEMMA RowsChecked ==
  ASSUME TypeOK PROVE row \in [Events -> Row] /\ \A e \in Events : RowCheck(row[e])
BY DEF TypeOK, RowCheck

\* Every process has an InstanceID, which is not that of no one.
LEMMA OwnerFacts ==
  ASSUME TypeOK, NEW i \in Instances
  PROVE  owner[i] \in Owners /\ owner[i] # Nobody
BY InstancesAssumption DEF TypeOK, Owners

\* The fields of a row after a claim is cleared.
LEMMA ClearedFacts ==
  ASSUME NEW r, RowCheck(r)
  PROVE  /\ RowCheck(Cleared(r))
         /\ Cleared(r).state = r.state /\ Cleared(r).token = 0
<1>1. /\ Cleared(r) \in Row /\ Cleared(r).by = Nobody /\ Cleared(r).token = 0
      /\ Cleared(r).live = FALSE /\ Cleared(r).state = r.state
  BY DEF RowCheck, Row, Cleared
<1>. QED  BY <1>1 DEF RowCheck

\* A fault is one of those that are left, and is not undone.
LEMMA FaultFacts ==
  ASSUME TypeOK, Fault \/ UNCHANGED faults
  PROVE  /\ faults' \in 0 .. MaxFaults
         /\ faults' = MaxFaults => faults = MaxFaults /\ UNCHANGED faults
         /\ Fault => faults' # MaxFaults
BY BatchAssumption DEF TypeOK, Fault

\* The step of one goroutine leaves all the others alone.
LEMMA GotoEffect ==
  ASSUME TypeOK, NEW i \in Instances, NEW e \in Events,
         NEW a \in {"none", "send", "mark", "retry", "ok", "failed"}, Goto(i, e, a)
  PROVE  /\ job' \in [Instances -> [Events -> Job]]
         /\ job'[i][e].at = a /\ job'[i][e].token = job[i][e].token
         /\ \A j \in Instances, d \in Events :
              j # i \/ d # e => job'[j][d] = job[j][d]
<1>. DEFINE t == [job[i][e] EXCEPT !.at = a]
<1>0. job[i][e] \in Job
  BY DEF TypeOK
<1>1. t \in Job /\ t.at = a /\ t.token = job[i][e].token
  BY <1>0 DEF Job
<1>2. job' = [job EXCEPT ![i] = [job[i] EXCEPT ![e] = t]]
  BY DEF Goto, TypeOK
<1>. HIDE DEF t
<1>. QED  BY <1>1, <1>2 DEF TypeOK

-----------------------------------------------------------------------------
(* The inductive step. *)

\* No event is there at first.
LEMMA InitInv == Init => IndInv
<1>. SUFFICES ASSUME Init PROVE IndInv
  OBVIOUS
<1>. DEFINE none == [state |-> "none", by |-> Nobody, token |-> 0, live |-> FALSE, due |-> FALSE]
<1>1. RowCheck(none) /\ none.state = "none"
  BY DEF RowCheck, Row
<1>2. NoJob \in Job /\ NoJob.at = "none" /\ NoJob.token = 0
  BY DEF NoJob, Job
<1>3. row = [e \in Events |-> none]
  BY DEF Init
<1>. HIDE DEF none
<1>4. row \in [Events -> Row] /\ \A e \in Events : RowCheck(row[e]) /\ row[e].state = "none"
  BY <1>1, <1>3 DEF RowCheck
<1>5. TypeOK
  <2>1. fifo \in Seq(Events) /\ DOMAIN fifo = {}
    BY DEF Init
  <2>2. job \in [Instances -> [Events -> Job]] /\ faults \in 0 .. MaxFaults
    BY <1>2, BatchAssumption DEF Init
  <2>3. /\ owner \in Deployments /\ arrived \in [Events -> 0 .. 2]
        /\ loop \in [Instances -> {"poll", "batch", "wait"}]
        /\ phase \in [Instances -> {"up", "draining", "cancelled", "down"}]
    BY DEF Init
  <2>. QED  BY <1>4, <2>1, <2>2, <2>3 DEF TypeOK, RowCheck
<1>6. Arrived /\ Unique /\ Batches
  BY <1>2, <1>4 DEF Init, Arrived, NothingLost, Unique, Batches
<1>7. Quiet
  BY <1>2 DEF Init, Quiet, QuietJob, QuietEvent
<1>. QED  BY <1>5, <1>6, <1>7 DEF IndInv

\* An event is inserted, becomes due, or its lease expires: no claim changes hands.
LEMMA TimeInv ==
  ASSUME IndInv, NEW e \in Events, InsertEvent(e) \/ BecomesDue(e) \/ LeaseExpires(e)
  PROVE  IndInv'
<1>. USE DEF IndInv
<1>1. UNCHANGED <<owner, arrived, fifo, loop, job, phase>>
  BY DEF InsertEvent, BecomesDue, LeaseExpires
<1>2. PICK r \in Row :
        /\ row' = [row EXCEPT ![e] = r]
        /\ r.by = row[e].by /\ r.token = row[e].token
        /\ r.live => row[e].live
        /\ r.state = row[e].state \/ (row[e].state = "none" /\ r.state = "pending")
        /\ ~AtWork(e) \/ r.live = row[e].live \/ Fault
  <2>0. row[e] \in Row
    BY DEF TypeOK
  <2>1. CASE InsertEvent(e)
    <3>. DEFINE r == [[row[e] EXCEPT !.state = "pending"] EXCEPT !.due = TRUE]
    <3>1. /\ r \in Row /\ r.by = row[e].by /\ r.token = row[e].token
          /\ r.live = row[e].live /\ r.state = "pending"
      BY <2>0 DEF Row
    <3>2. row' = [row EXCEPT ![e] = r]
      BY <2>1 DEF InsertEvent, TypeOK
    <3>. HIDE DEF r
    <3>. QED  BY <2>1, <3>1, <3>2 DEF InsertEvent
  <2>2. CASE BecomesDue(e)
    <3>. DEFINE r == [row[e] EXCEPT !.due = TRUE]
    <3>1. /\ r \in Row /\ r.by = row[e].by /\ r.token = row[e].token
          /\ r.live = row[e].live /\ r.state = row[e].state
      BY <2>0 DEF Row
    <3>2. row' = [row EXCEPT ![e] = r]
      BY <2>2 DEF BecomesDue
    <3>. HIDE DEF r
    <3>. QED  BY <3>1, <3>2
  <2>3. CASE LeaseExpires(e)
    <3>. DEFINE r == [row[e] EXCEPT !.live = FALSE]
    <3>1. /\ r \in Row /\ r.by = row[e].by /\ r.token = row[e].token
          /\ r.live = FALSE /\ r.state = row[e].state
      BY <2>0 DEF Row
    <3>2. row' = [row EXCEPT ![e] = r]
      BY <2>3 DEF LeaseExpires
    <3>. HIDE DEF r
    <3>. QED  BY <2>3, <3>1, <3>2 DEF LeaseExpires
  <2>. QED  BY <2>1, <2>2, <2>3
<1>3. /\ row' \in [Events -> Row] /\ row'[e] = r
      /\ \A d \in Events : d # e => row'[d] = row[d]
  BY <1>2 DEF TypeOK
<1>4. RowCheck(r)
  BY <1>2, RowsChecked DEF RowCheck
<1>5. faults' \in 0 .. MaxFaults /\ (faults' = MaxFaults => faults = MaxFaults /\ ~Fault)
  BY FaultFacts DEF InsertEvent, BecomesDue, LeaseExpires
<1>6. TypeOK'
  BY <1>1, <1>3, <1>4, <1>5, RowsChecked DEF TypeOK, RowCheck
<1>7. Arrived' /\ Unique' /\ Batches'
  BY <1>1, <1>2, <1>3 DEF Arrived, NothingLost, Unique, Batches
<1>8. Quiet'
  <2>. SUFFICES ASSUME faults' = MaxFaults, OwnIds
                PROVE  /\ \A i \in Instances, d \in Events : QuietJob(i, d)'
                       /\ \A d \in Events : QuietEvent(d)'
    BY <1>1, <1>5 DEF Quiet, OwnIds
  <2>1. ~Fault /\ (\A i \in Instances, d \in Events : QuietJob(i, d))
        /\ (\A d \in Events : QuietEvent(d))
    BY <1>5 DEF Quiet
  <2>2. ASSUME NEW i \in Instances, NEW d \in Events, job[i][d].at \in {"send", "mark"}
        PROVE  Holds(i, d)'
    <3>1. Holds(i, d)
      BY <2>1, <2>2 DEF QuietJob
    <3>2. CASE d = e
      BY <1>1, <1>2, <1>3, <2>1, <2>2, <3>1, <3>2 DEF Holds, Mine, AtWork
    <3>3. CASE d # e
      BY <1>1, <1>3, <3>1, <3>3 DEF Holds, Mine
    <3>. QED  BY <3>2, <3>3
  <2>3. \A i \in Instances, d \in Events : QuietJob(i, d)'
    BY <1>1, <2>1, <2>2 DEF QuietJob
  <2>4. \A d \in Events : QuietEvent(d)'
    BY <1>1, <1>2, <1>3, <2>1 DEF QuietEvent
  <2>. QED  BY <2>3, <2>4
<1>. QED  BY <1>6, <1>7, <1>8

\* A process claims a batch, each row under a token that no one else has.
LEMMA ClaimInv ==
  ASSUME IndInv, NEW i \in Instances, ClaimOutbox(i)
  PROVE  IndInv'
<1>. USE DEF IndInv
<1>1. PICK S \in SUBSET Candidates, J \in SUBSET Candidates :
        /\ J \subseteq S /\ TokensFor(S) # {}
        /\ row' = Claimed(i, S, NewTokens(S))
        /\ job' = [job EXCEPT ![i] = [e \in Events |->
                     IF e \in J THEN [at |-> "send", token |-> NewTokens(S)[e]] ELSE NoJob]]
        /\ (J = S /\ UNCHANGED faults) \/ Fault
  BY DEF ClaimOutbox, Fault
<1>2. /\ UNCHANGED <<owner, arrived, fifo, phase>> /\ loop[i] = "poll" /\ phase[i] = "up"
      /\ loop' = [loop EXCEPT ![i] = "batch"]
  BY DEF ClaimOutbox
<1>. DEFINE token == NewTokens(S)
<1>3. token \in TokensFor(S)
  BY <1>1 DEF NewTokens
<1>4. \A e \in S : /\ token[e] \in Tokens /\ token[e] # 0
                   /\ \A j \in Instances : job[j][e].token # token[e]
  BY <1>1, <1>3, TokensAssumption DEF TokensFor, Fresh, Candidates
<1>. HIDE DEF token
<1>5. S \subseteq Events /\ \A e \in S : row[e].state = "pending" /\ ~row[e].live
  BY <1>1, RowsChecked DEF Candidates, RowCheck
<1>6. /\ row' \in [Events -> Row]
      /\ \A e \in S : /\ RowCheck(row'[e])
                      /\ row'[e].state = "pending" /\ row'[e].token = token[e]
                      /\ row'[e].by = owner[i] /\ row'[e].live
      /\ \A e \in Events \ S : row'[e] = row[e]
  <2>1. row' = [e \in Events |->
                 IF e \in S THEN [row[e] EXCEPT !.by = owner[i], !.token = token[e], !.live = TRUE]
                 ELSE row[e]]
    BY <1>1 DEF Claimed, token
  <2>2. ASSUME NEW e \in S
        PROVE  LET r == [row[e] EXCEPT !.by = owner[i], !.token = token[e], !.live = TRUE] IN
               /\ r \in Row /\ RowCheck(r) /\ r.state = "pending" /\ r.token = token[e]
               /\ r.by = owner[i] /\ r.live
    <3>1. row[e] \in Row /\ row[e].state = "pending" /\ token[e] \in Tokens /\ token[e] # 0
          /\ owner[i] \in Owners /\ owner[i] # Nobody
      BY <1>4, <1>5, <2>2, OwnerFacts DEF TypeOK
    <3>. QED  BY <3>1 DEF RowCheck, Row
  <2>. QED  BY <1>5, <2>1, <2>2 DEF TypeOK
<1>7. /\ job' \in [Instances -> [Events -> Job]]
      /\ \A j \in Instances \ {i} : job'[j] = job[j]
      /\ \A e \in J : job'[i][e].at = "send" /\ job'[i][e].token = token[e]
      /\ \A e \in Events \ J : job'[i][e].at = "none" /\ job'[i][e].token = 0
  <2>1. NoJob \in Job /\ NoJob.at = "none" /\ NoJob.token = 0
    BY DEF NoJob, Job
  <2>2. \A e \in J : /\ [at |-> "send", token |-> token[e]] \in Job
                     /\ [at |-> "send", token |-> token[e]].at = "send"
                     /\ [at |-> "send", token |-> token[e]].token = token[e]
    BY <1>1, <1>4 DEF Job
  <2>3. job' = [job EXCEPT ![i] = [e \in Events |->
                  IF e \in J THEN [at |-> "send", token |-> token[e]] ELSE NoJob]]
    BY <1>1 DEF token
  <2>. QED  BY <1>1, <1>5, <2>1, <2>2, <2>3 DEF TypeOK
<1>8. /\ loop' \in [Instances -> {"poll", "batch", "wait"}] /\ loop'[i] = "batch"
      /\ \A j \in Instances \ {i} : loop'[j] = loop[j]
  BY <1>2 DEF TypeOK
<1>9. /\ faults' \in 0 .. MaxFaults
      /\ faults' = MaxFaults => faults = MaxFaults /\ J = S
  BY <1>1, FaultFacts
<1>10. TypeOK'
  BY <1>2, <1>6, <1>7, <1>8, <1>9, RowsChecked DEF TypeOK, RowCheck
<1>11. Arrived'
  BY <1>2, <1>5, <1>6, <1>7 DEF Arrived, NothingLost
<1>12. Unique'
  <2>1. ASSUME NEW e \in Events, NEW j \in Instances, j # i, job'[i][e].token # 0
        PROVE  job'[j][e].token # job'[i][e].token
    <3>1. e \in J /\ e \in S /\ job'[i][e].token = token[e] /\ job'[j][e] = job[j][e]
      BY <1>1, <1>7, <2>1
    <3>. QED  BY <1>4, <3>1
  <2>2. ASSUME NEW e \in Events, NEW j \in Instances, NEW k \in Instances, j # i, k # i,
               job'[j][e].token # 0, job'[j][e].token = job'[k][e].token
        PROVE  j = k
    BY <1>7, <2>2 DEF Unique
  <2>. QED  BY <2>1, <2>2 DEF Unique
<1>13. Batches'
  BY <1>2, <1>7, <1>8 DEF Batches
<1>14. Quiet'
  <2>. SUFFICES ASSUME faults' = MaxFaults, OwnIds
                PROVE  /\ \A j \in Instances : phase'[j] # "cancelled"
                       /\ \A j \in Instances, d \in Events : QuietJob(j, d)'
                       /\ \A d \in Events : QuietEvent(d)'
    BY <1>2 DEF Quiet, OwnIds
  <2>1. /\ J = S /\ \A j \in Instances : phase[j] # "cancelled"
        /\ \A j \in Instances, d \in Events : QuietJob(j, d)
        /\ \A d \in Events : QuietEvent(d)
    BY <1>9 DEF Quiet
  <2>2. \A d \in S : /\ arrived[d] = 0
                     /\ \A j \in Instances : job[j][d].at \notin {"send", "mark"}
    BY <1>5, <2>1 DEF QuietJob, QuietEvent, Holds
  <2>3. ASSUME NEW j \in Instances, NEW d \in Events PROVE QuietJob(j, d)'
    <3>1. CASE d \in S /\ j = i
      BY <1>2, <1>4, <1>6, <1>7, <2>1, <2>2, <3>1 DEF QuietJob, Holds, Mine
    <3>2. CASE d \in S /\ j # i
      BY <1>7, <2>1, <2>2, <3>2 DEF QuietJob
    <3>3. CASE d \notin S /\ j = i
      BY <1>7, <2>1, <3>3 DEF QuietJob
    <3>4. CASE d \notin S /\ j # i
      BY <1>2, <1>6, <1>7, <2>1, <3>4 DEF QuietJob, Holds, Mine
    <3>. QED  BY <3>1, <3>2, <3>3, <3>4
  <2>4. ASSUME NEW d \in Events PROVE QuietEvent(d)'
    <3>1. CASE d \in S
      BY <1>2, <2>2, <3>1 DEF QuietEvent
    <3>2. CASE d \notin S
      <4>1. \A j \in Instances : job[j][d].at = "mark" => job'[j][d].at = "mark"
        BY <1>2, <1>7 DEF Batches
      <4>. QED  BY <1>2, <1>6, <2>1, <3>2, <4>1 DEF QuietEvent
    <3>. QED  BY <3>1, <3>2
  <2>. QED  BY <1>2, <2>1, <2>3, <2>4
<1>. QED  BY <1>10, <1>11, <1>12, <1>13, <1>14

\* publishOne: the event is sent, marked or given back.
LEMMA JobInv ==
  ASSUME IndInv, NEW i \in Instances, NEW e \in Events,
         Publish(i, e) \/ MarkPublished(i, e) \/ RetryOutbox(i, e)
  PROVE  IndInv'
<1>. USE DEF IndInv
<1>1. /\ UNCHANGED <<owner, loop, phase>> /\ (Fault \/ UNCHANGED faults)
      /\ job[i][e].at # "none"
  BY DEF Publish, MarkPublished, RetryOutbox
<1>2. PICK a \in {"mark", "retry", "ok", "failed"} : Goto(i, e, a)
  BY DEF Publish, MarkPublished, RetryOutbox
<1>3. /\ job' \in [Instances -> [Events -> Job]]
      /\ job'[i][e].at = a /\ job'[i][e].token = job[i][e].token
      /\ \A j \in Instances, d \in Events :
           j # i \/ d # e => job'[j][d] = job[j][d]
  BY <1>2, GotoEffect
<1>4. /\ faults' \in 0 .. MaxFaults
      /\ faults' = MaxFaults => faults = MaxFaults /\ ~Fault
  BY <1>1, FaultFacts
<1>5. PICK r \in Row :
        /\ row' = [row EXCEPT ![e] = r] /\ RowCheck(r)
        /\ \/ r = row[e]
           \/ Mine(i, e) /\ r.state \in {"pending", "published"}
        /\ r.state = "published" /\ row[e].state # "published" => job[i][e].at = "mark"
        /\ r.state # row[e].state => r.state = "published"
  <2>0. row[e] \in Row /\ RowCheck(row[e]) /\ row = [row EXCEPT ![e] = row[e]]
    BY RowsChecked
  <2>1. CASE UNCHANGED row
    BY <2>0, <2>1
  <2>2. CASE /\ Mine(i, e) /\ job[i][e].at = "mark"
             /\ row' = [row EXCEPT ![e] = [Cleared(row[e]) EXCEPT !.state = "published"]]
    <3>. DEFINE r == [Cleared(row[e]) EXCEPT !.state = "published"]
    <3>1. r \in Row /\ RowCheck(r) /\ r.state = "published"
      <4>1. Cleared(row[e]) \in Row /\ Cleared(row[e]).by = Nobody
            /\ Cleared(row[e]).token = 0 /\ Cleared(row[e]).live = FALSE
        BY <2>0 DEF Row, Cleared
      <4>. QED  BY <4>1 DEF RowCheck, Row
    <3>2. row' = [row EXCEPT ![e] = r]
      BY <2>2
    <3>. HIDE DEF r
    <3>. QED  BY <2>2, <3>1, <3>2
  <2>3. CASE /\ Mine(i, e)
             /\ row' = [row EXCEPT ![e] = [Cleared(row[e]) EXCEPT !.due = FALSE]]
    <3>. DEFINE r == [Cleared(row[e]) EXCEPT !.due = FALSE]
    <3>1. r \in Row /\ RowCheck(r) /\ r.state = row[e].state
      <4>1. Cleared(row[e]) \in Row /\ Cleared(row[e]).by = Nobody
            /\ Cleared(row[e]).token = 0 /\ Cleared(row[e]).live = FALSE
            /\ Cleared(row[e]).state = row[e].state
        BY <2>0 DEF Row, Cleared
      <4>. QED  BY <4>1 DEF RowCheck, Row
    <3>2. row' = [row EXCEPT ![e] = r]
      BY <2>3
    <3>. HIDE DEF r
    <3>. QED  BY <2>3, <3>1, <3>2 DEF Mine
  <2>. QED  BY <2>1, <2>2, <2>3 DEF Publish, MarkPublished, RetryOutbox
<1>6. /\ row' \in [Events -> Row] /\ row'[e] = r
      /\ \A d \in Events : d # e => row'[d] = row[d]
  BY <1>5 DEF TypeOK
<1>7. \/ UNCHANGED <<arrived, fifo>>
      \/ Accept(e) /\ job[i][e].at = "send"
  BY DEF Publish, MarkPublished, RetryOutbox
<1>8. /\ arrived' \in [Events -> 0 .. 2]
      /\ \A d \in Events : arrived[d] # 0 => arrived'[d] # 0
      /\ \A d \in Events : d # e \/ ~Accept(e) => arrived'[d] = arrived[d]
      /\ Accept(e) => arrived'[e] # 0 /\ (arrived[e] = 0 => arrived'[e] = 1)
  BY <1>7 DEF Accept, TypeOK
<1>9. fifo' \in Seq(Events)
  <2>1. fifo \in Seq(Events) /\ Append(fifo, e) \in Seq(Events)
    BY DEF TypeOK
  <2>. QED  BY <1>7, <2>1 DEF Accept
<1>10. TypeOK'
  BY <1>1, <1>3, <1>4, <1>5, <1>6, <1>8, <1>9, RowsChecked DEF TypeOK, RowCheck
<1>11. a = "mark" => Accept(e)
  <2>1. a = job'[i][e].at
    BY <1>3
  <2>2. CASE Publish(i, e)
    <3>1. Accept(e) \/ Goto(i, e, "retry")
      BY <2>2 DEF Publish
    <3>. QED  BY <2>1, <3>1, GotoEffect
  <2>3. CASE MarkPublished(i, e) \/ RetryOutbox(i, e)
    <3>1. Goto(i, e, "ok") \/ Goto(i, e, "retry") \/ Goto(i, e, "failed")
      BY <2>3 DEF MarkPublished, RetryOutbox
    <3>. QED  BY <2>1, <3>1, GotoEffect
  <2>. QED  BY <2>2, <2>3
<1>12. Arrived'
  <2>0. \A d \in Events : arrived'[d] # 0 => arrived'[d] > 0
    BY <1>8
  <2>1. ASSUME NEW j \in Instances, NEW d \in Events, job'[j][d].at = "mark"
        PROVE  arrived'[d] > 0
    <3>1. CASE j = i /\ d = e
      BY <1>3, <1>8, <1>11, <2>0, <2>1, <3>1
    <3>2. CASE j # i \/ d # e
      BY <1>3, <1>8, <2>0, <2>1, <3>2 DEF Arrived
    <3>. QED  BY <3>1, <3>2
  <2>2. ASSUME NEW d \in Events, row'[d].state = "published" PROVE arrived'[d] > 0
    <3>1. arrived[d] > 0
      BY <1>5, <1>6, <2>2 DEF Arrived, NothingLost
    <3>. QED  BY <1>8, <2>0, <3>1
  <2>. QED  BY <2>1, <2>2 DEF Arrived, NothingLost
<1>13. Unique'
  <2>1. \A j \in Instances, d \in Events : job'[j][d].token = job[j][d].token
    BY <1>3
  <2>. QED  BY <2>1 DEF Unique
<1>14. Batches'
  BY <1>1, <1>3 DEF Batches
<1>15. Quiet'
  <2>. SUFFICES ASSUME faults' = MaxFaults, OwnIds
                PROVE  /\ \A j \in Instances : phase'[j] # "cancelled"
                       /\ \A j \in Instances, d \in Events : QuietJob(j, d)'
                       /\ \A d \in Events : QuietEvent(d)'
    BY <1>1 DEF Quiet, OwnIds
  <2>1. /\ ~Fault /\ phase[i] # "cancelled"
        /\ \A j \in Instances : phase[j] # "cancelled"
        /\ \A j \in Instances, d \in Events : QuietJob(j, d)
        /\ \A d \in Events : QuietEvent(d)
    BY <1>4 DEF Quiet
  <2>2. \/ /\ job[i][e].at = "send" /\ Accept(e) /\ Goto(i, e, "mark") /\ UNCHANGED row
        \/ /\ job[i][e].at = "mark" /\ Goto(i, e, "ok") /\ UNCHANGED <<arrived, fifo>>
           /\ row' = [row EXCEPT ![e] = [Cleared(row[e]) EXCEPT !.state = "published"]]
    BY <2>1 DEF Publish, MarkPublished, RetryOutbox, QuietJob, Holds
  <2>3. ASSUME NEW j \in Instances, j # i PROVE job[j][e].at \notin {"send", "mark"}
    <3>1. Holds(i, e)
      BY <2>1, <2>2 DEF QuietJob
    <3>. QED  BY <2>1, <2>3, <3>1 DEF QuietJob, Holds, Mine, Unique
  <2>4. CASE /\ job[i][e].at = "send" /\ Accept(e) /\ Goto(i, e, "mark") /\ UNCHANGED row
    <3>1. job'[i][e].at = "mark" /\ arrived[e] = 0 /\ arrived'[e] = 1 /\ Holds(i, e)
      BY <1>8, <2>1, <2>4, GotoEffect DEF QuietJob
    <3>2. \A j \in Instances, d \in Events : Holds(j, d) => Holds(j, d)'
      BY <1>1, <1>3, <2>4 DEF Holds, Mine
    <3>3. ASSUME NEW j \in Instances, NEW d \in Events PROVE QuietJob(j, d)'
      <4>1. CASE j = i /\ d = e
        BY <3>1, <3>2, <4>1 DEF QuietJob
      <4>2. CASE j # i /\ d = e
        BY <1>3, <2>1, <2>3, <4>2 DEF QuietJob
      <4>3. CASE d # e
        BY <1>3, <1>8, <2>1, <3>2, <4>3 DEF QuietJob
      <4>. QED  BY <4>1, <4>2, <4>3
    <3>4. ASSUME NEW d \in Events PROVE QuietEvent(d)'
      <4>1. CASE d = e
        BY <3>1, <4>1 DEF QuietEvent
      <4>2. CASE d # e
        BY <1>3, <1>8, <2>1, <2>4, <4>2 DEF QuietEvent
      <4>. QED  BY <4>1, <4>2
    <3>. QED  BY <1>1, <2>1, <3>3, <3>4
  <2>5. CASE /\ job[i][e].at = "mark" /\ Goto(i, e, "ok") /\ UNCHANGED <<arrived, fifo>>
             /\ row' = [row EXCEPT ![e] = [Cleared(row[e]) EXCEPT !.state = "published"]]
    <3>1. job'[i][e].at = "ok"
      BY <2>5, GotoEffect
    <3>2. row'[e].state = "published"
      <4>1. Cleared(row[e]) \in Row
        BY RowsChecked, ClearedFacts DEF RowCheck
      <4>. QED  BY <2>5, <4>1 DEF Row, TypeOK
    <3>3. ASSUME NEW j \in Instances, NEW d \in Events PROVE QuietJob(j, d)'
      <4>1. CASE j = i /\ d = e
        BY <3>1, <4>1 DEF QuietJob
      <4>2. CASE j # i /\ d = e
        BY <1>3, <2>1, <2>3, <4>2 DEF QuietJob
      <4>3. CASE d # e
        <5>1. Holds(j, d) => Holds(j, d)'
          BY <1>1, <1>3, <1>6, <4>3 DEF Holds, Mine
        <5>. QED  BY <1>3, <2>1, <2>5, <4>3, <5>1 DEF QuietJob
      <4>. QED  BY <4>1, <4>2, <4>3
    <3>4. ASSUME NEW d \in Events PROVE QuietEvent(d)'
      <4>1. CASE d = e
        BY <2>1, <2>5, <3>2, <4>1 DEF QuietEvent
      <4>2. CASE d # e
        BY <1>3, <1>6, <2>1, <2>5, <4>2 DEF QuietEvent
      <4>. QED  BY <4>1, <4>2
    <3>. QED  BY <1>1, <2>1, <3>3, <3>4
  <2>. QED  BY <2>2, <2>4, <2>5
<1>. QED  BY <1>10, <1>12, <1>13, <1>14, <1>15

\* A loop ends its batch or its wait: its goroutines have ended before.
LEMMA LoopInv ==
  ASSUME IndInv, NEW i \in Instances, EndBatch(i) \/ Wake(i)
  PROVE  IndInv'
<1>. USE DEF IndInv
<1>1. UNCHANGED <<owner, row, arrived, fifo, phase, faults>>
  BY DEF EndBatch, Wake
<1>2. /\ loop' \in [Instances -> {"poll", "batch", "wait"}] /\ loop'[i] # "batch"
      /\ \A j \in Instances \ {i} : loop'[j] = loop[j]
  BY DEF EndBatch, Wake, TypeOK
<1>3. /\ job' \in [Instances -> [Events -> Job]]
      /\ \A j \in Instances \ {i} : job'[j] = job[j]
      /\ \A e \in Events : /\ job'[i][e].at = "none"
                           /\ job'[i][e].token = 0 \/ job'[i][e].token = job[i][e].token
                           /\ job[i][e].at \in {"none", "ok", "failed"}
  <2>1. NoJob \in Job /\ NoJob.at = "none" /\ NoJob.token = 0
    BY DEF NoJob, Job
  <2>2. CASE EndBatch(i)
    BY <2>1, <2>2 DEF EndBatch, TypeOK
  <2>3. CASE Wake(i)
    BY <2>3 DEF Wake, TypeOK, Batches
  <2>. QED  BY <2>2, <2>3
<1>4. TypeOK'
  BY <1>1, <1>2, <1>3 DEF TypeOK
<1>5. Arrived'
  BY <1>1, <1>3 DEF Arrived, NothingLost
<1>6. Unique'
  BY <1>3 DEF Unique
<1>7. Batches'
  BY <1>1, <1>2, <1>3 DEF Batches
<1>8. Quiet'
  <2>. SUFFICES ASSUME faults = MaxFaults, OwnIds
                PROVE  /\ \A j \in Instances : phase'[j] # "cancelled"
                       /\ \A j \in Instances, d \in Events : QuietJob(j, d)'
                       /\ \A d \in Events : QuietEvent(d)'
    BY <1>1 DEF Quiet, OwnIds
  <2>1. /\ \A j \in Instances : phase[j] # "cancelled"
        /\ \A j \in Instances, d \in Events : QuietJob(j, d)
        /\ \A d \in Events : QuietEvent(d)
    BY DEF Quiet
  <2>2. ASSUME NEW j \in Instances, NEW d \in Events PROVE QuietJob(j, d)'
    <3>1. CASE j = i
      BY <1>3, <3>1 DEF QuietJob
    <3>2. CASE j # i
      BY <1>1, <1>3, <2>1, <3>2 DEF QuietJob, Holds, Mine
    <3>. QED  BY <3>1, <3>2
  <2>3. ASSUME NEW d \in Events PROVE QuietEvent(d)'
    <3>1. \A j \in Instances : job[j][d].at = "mark" => job'[j][d].at = "mark"
      BY <1>3
    <3>. QED  BY <1>1, <2>1, <3>1 DEF QuietEvent
  <2>. QED  BY <1>1, <2>1, <2>2, <2>3
<1>. QED  BY <1>4, <1>5, <1>6, <1>7, <1>8

\* The engine of a process stops, and gives back the claims of its owner.
LEMMA StopInv ==
  ASSUME IndInv, NEW i \in Instances, Stop(i)
  PROVE  IndInv'
<1>. USE DEF IndInv
<1>1. /\ UNCHANGED <<owner, arrived, fifo, loop, job>> /\ (Fault \/ UNCHANGED faults)
      /\ loop[i] # "batch" /\ phase' = [phase EXCEPT ![i] = "down"]
  BY DEF Stop
<1>2. /\ row' \in [Events -> Row]
      /\ \A e \in Events :
           /\ RowCheck(row'[e]) /\ row'[e].state = row[e].state
           /\ row'[e] = row[e] \/ row[e].by = owner[i]
  <2>1. CASE UNCHANGED row
    BY <2>1, RowsChecked
  <2>2. CASE row' = ReleasedBy(i)
    <3>1. \A e \in Events : /\ RowCheck(Cleared(row[e])) /\ Cleared(row[e]) \in Row
                            /\ Cleared(row[e]).state = row[e].state
      BY RowsChecked, ClearedFacts DEF RowCheck
    <3>. QED  BY <2>2, <3>1, RowsChecked DEF ReleasedBy
  <2>. QED  BY <2>1, <2>2 DEF Stop
<1>3. /\ faults' \in 0 .. MaxFaults
      /\ faults' = MaxFaults => faults = MaxFaults /\ ~Fault
  BY <1>1, FaultFacts
<1>4. /\ phase' \in [Instances -> {"up", "draining", "cancelled", "down"}]
      /\ \A j \in Instances : phase'[j] = phase[j] \/ (j = i /\ phase'[j] = "down")
  BY <1>1 DEF TypeOK
<1>5. TypeOK'
  BY <1>1, <1>2, <1>3, <1>4 DEF TypeOK, RowCheck
<1>6. Arrived' /\ Unique' /\ Batches'
  BY <1>1, <1>2, <1>4 DEF Arrived, NothingLost, Unique, Batches
<1>7. Quiet'
  <2>. SUFFICES ASSUME faults' = MaxFaults, OwnIds
                PROVE  /\ \A j \in Instances : phase'[j] # "cancelled"
                       /\ \A j \in Instances, d \in Events : QuietJob(j, d)'
                       /\ \A d \in Events : QuietEvent(d)'
    BY <1>1 DEF Quiet, OwnIds
  <2>1. /\ \A j \in Instances : phase[j] # "cancelled"
        /\ \A j \in Instances, d \in Events : QuietJob(j, d)
        /\ \A d \in Events : QuietEvent(d)
    BY <1>3 DEF Quiet
  <2>2. ASSUME NEW j \in Instances, NEW d \in Events PROVE QuietJob(j, d)'
    <3>1. CASE job[j][d].at \in {"send", "mark"}
      <4>1. Holds(j, d) /\ loop[j] = "batch"
        BY <2>1, <3>1 DEF QuietJob, Batches
      <4>2. row'[d] = row[d]
        BY <1>1, <1>2, <4>1 DEF Holds, OwnIds
      <4>. QED  BY <1>1, <2>1, <4>1, <4>2 DEF QuietJob, Holds, Mine
    <3>2. CASE job[j][d].at \notin {"send", "mark"}
      BY <1>1, <2>1, <3>2 DEF QuietJob
    <3>. QED  BY <3>1, <3>2
  <2>3. ASSUME NEW d \in Events PROVE QuietEvent(d)'
    BY <1>1, <1>2, <2>1 DEF QuietEvent
  <2>. QED  BY <1>4, <2>1, <2>2, <2>3
<1>. QED  BY <1>5, <1>6, <1>7

\* Intake is stopped, the drain is cut off, the process is killed or started again.
LEMMA LifeInv ==
  ASSUME IndInv, NEW i \in Instances, StopIntake(i) \/ CancelWork(i) \/ Crash(i) \/ Start(i)
  PROVE  IndInv'
<1>. USE DEF IndInv
<1>1. UNCHANGED <<owner, row, arrived, fifo>> /\ (Fault \/ UNCHANGED faults)
  BY DEF StopIntake, CancelWork, Crash, Start
<1>2. /\ phase' \in [Instances -> {"up", "draining", "cancelled", "down"}]
      /\ ~Fault => \A j \in Instances : phase'[j] = phase[j] \/ phase'[j] # "cancelled"
  BY DEF StopIntake, CancelWork, Crash, Start, TypeOK
<1>3. /\ job' \in [Instances -> [Events -> Job]]
      /\ \A j \in Instances : \/ job'[j] = job[j]
                              \/ Fault /\ \A e \in Events : /\ job'[j][e].at = "none"
                                                            /\ job'[j][e].token = 0
  <2>1. NoJob \in Job /\ NoJob.at = "none" /\ NoJob.token = 0
    BY DEF NoJob, Job
  <2>2. CASE Crash(i)
    BY <2>1, <2>2 DEF Crash, TypeOK
  <2>3. CASE UNCHANGED job
    BY <2>3 DEF TypeOK
  <2>. QED  BY <2>2, <2>3 DEF StopIntake, CancelWork, Start
<1>4. loop' \in [Instances -> {"poll", "batch", "wait"}]
  BY DEF StopIntake, CancelWork, Crash, Start, TypeOK
<1>5. /\ faults' \in 0 .. MaxFaults
      /\ faults' = MaxFaults => faults = MaxFaults /\ ~Fault
  BY <1>1, FaultFacts
<1>6. TypeOK'
  BY <1>1, <1>2, <1>3, <1>4, <1>5 DEF TypeOK
<1>7. Arrived'
  BY <1>1, <1>3 DEF Arrived, NothingLost
<1>8. Unique'
  BY <1>3 DEF Unique
<1>9. Batches'
  <2>1. CASE StopIntake(i) \/ CancelWork(i)
    BY <2>1 DEF StopIntake, CancelWork, Batches, TypeOK
  <2>2. CASE Start(i)
    BY <2>2 DEF Start, Batches, TypeOK
  <2>3. CASE Crash(i)
    <3>1. /\ \A e \in Events : job'[i][e].at = "none"
          /\ \A j \in Instances \ {i} : job'[j] = job[j] /\ loop'[j] = loop[j] /\ phase'[j] = phase[j]
          /\ loop'[i] = "wait"
      BY <2>3 DEF Crash, TypeOK, NoJob
    <3>. QED  BY <3>1 DEF Batches
  <2>. QED  BY <2>1, <2>2, <2>3
<1>10. Quiet'
  <2>. SUFFICES ASSUME faults' = MaxFaults, OwnIds
                PROVE  /\ \A j \in Instances : phase'[j] # "cancelled"
                       /\ \A j \in Instances, d \in Events : QuietJob(j, d)'
                       /\ \A d \in Events : QuietEvent(d)'
    BY <1>1 DEF Quiet, OwnIds
  <2>1. /\ ~Fault /\ \A j \in Instances : phase[j] # "cancelled"
        /\ \A j \in Instances, d \in Events : QuietJob(j, d)
        /\ \A d \in Events : QuietEvent(d)
    BY <1>5 DEF Quiet
  <2>2. \A j \in Instances : job'[j] = job[j] /\ phase'[j] # "cancelled"
    BY <1>2, <1>3, <2>1
  <2>3. \A j \in Instances, d \in Events : QuietJob(j, d)'
    BY <1>1, <2>1, <2>2 DEF QuietJob, Holds, Mine
  <2>4. \A d \in Events : QuietEvent(d)'
    BY <1>1, <2>1, <2>2 DEF QuietEvent
  <2>. QED  BY <2>2, <2>3, <2>4
<1>. QED  BY <1>6, <1>7, <1>8, <1>9, <1>10

\* Every step, and every stuttering step, keeps the invariant.
LEMMA IndStep == IndInv /\ [Next]_vars => IndInv'
<1>1. ASSUME IndInv, Next PROVE IndInv'
  BY <1>1, TimeInv, ClaimInv, JobInv, LoopInv, StopInv, LifeInv DEF Next, EngineStep, JobStep
<1>2. ASSUME IndInv, UNCHANGED vars PROVE IndInv'
  BY <1>2 DEF IndInv, TypeOK, Arrived, NothingLost, Unique, Batches, Quiet, QuietJob, QuietEvent,
     Holds, Mine, OwnIds, vars
<1>. QED  BY <1>1, <1>2

-----------------------------------------------------------------------------
(* The theorems. *)

\* Rows, claims, goroutines and the queue stay within IndInv.
THEOREM ClaimsCorrect == Spec => []IndInv
<1>. QED  BY InitInv, IndStep, PTL DEF Spec

\* The CHECK of the outbox table holds in every state: whoever claims, marks, retries or
\* releases sets or clears the claim columns together.
THEOREM TypeCorrect == Spec => []TypeOK
<1>1. IndInv => TypeOK
  BY DEF IndInv
<1>. QED  BY <1>1, ClaimsCorrect, PTL

\* MarkPublished marks only what the broker has accepted.
THEOREM NothingLostCorrect == Spec => []NothingLost
<1>1. IndInv => NothingLost
  BY DEF IndInv, Arrived
<1>. QED  BY <1>1, ClaimsCorrect, PTL

\* The token of a row fences off all goroutines but one.
THEOREM OneHolderCorrect == Spec => []OneHolder
<1>1. IndInv => OneHolder
  BY DEF IndInv, Unique, OneHolder
<1>. QED  BY <1>1, ClaimsCorrect, PTL

\* Without a fault and with an InstanceID for each process, an event arrives once, however
\* short the window of the deduplication is.
THEOREM SentOnceCorrect == Spec => []SentOnceUnlessFaulty
<1>1. IndInv => SentOnceUnlessFaulty
  BY DEF IndInv, Quiet, QuietEvent, SentOnceUnlessFaulty
<1>. QED  BY <1>1, ClaimsCorrect, PTL

\* No late worker, release or expiry changes a published row.
THEOREM PublishedCorrect == Spec => PublishedFinal
<1>1. ASSUME IndInv, Next, NEW e \in Events, row[e].state = "published"
      PROVE  row'[e] = row[e]
  <2>1. TypeOK /\ ~row[e].live
    BY <1>1, RowsChecked DEF IndInv, RowCheck
  <2>2. ASSUME NEW d \in Events, InsertEvent(d) \/ BecomesDue(d) \/ LeaseExpires(d)
        PROVE  row'[e] = row[e]
    BY <1>1, <2>1, <2>2 DEF InsertEvent, BecomesDue, LeaseExpires, TypeOK
  <2>3. ASSUME NEW i \in Instances, NEW d \in Events,
               Publish(i, d) \/ MarkPublished(i, d) \/ RetryOutbox(i, d)
        PROVE  row'[e] = row[e]
    BY <1>1, <2>1, <2>3 DEF Publish, MarkPublished, RetryOutbox, Mine, TypeOK
  <2>4. ASSUME NEW i \in Instances, ClaimOutbox(i) PROVE row'[e] = row[e]
    BY <1>1, <2>4 DEF ClaimOutbox, Claimed, Candidates
  <2>5. ASSUME NEW i \in Instances, Stop(i) PROVE row'[e] = row[e]
    BY <1>1, <2>5 DEF Stop, ReleasedBy
  <2>. QED  BY <1>1, <2>2, <2>3, <2>4, <2>5 DEF Next, EngineStep, JobStep, EndBatch, Wake,
            StopIntake, CancelWork, Crash, Start
<1>2. IndInv /\ [Next]_vars =>
        [\A e \in Events : row[e].state = "published" => row'[e] = row[e]]_vars
  BY <1>1
<1>. QED  BY <1>2, ClaimsCorrect, PTL DEF Spec, PublishedFinal
=============================================================================

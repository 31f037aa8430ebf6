-------------------------- MODULE OutboxPublisher --------------------------
(***************************************************************************)
(* The publishers of the outbox: Engine.publish and publishOne on several  *)
(* replicas, over Store.ClaimOutbox, MarkPublished, RetryOutbox and        *)
(* ReleaseClaims, with the start, drain and stop of the engine.            *)
(*                                                                         *)
(* A claim is a short transaction; the send to the broker lies between it  *)
(* and the statement that marks the row.  The goroutine of instance i for  *)
(* event e is job[i][e], with the claim token it was started with.         *)
(***************************************************************************)
EXTENDS Naturals, FiniteSets, Sequences

CONSTANTS
  Instances,   \* engine processes
  Deployments, \* InstanceIDs given to the processes, which a deployment may repeat
  Steady,      \* processes that no one stops or kills
  Nobody,      \* no owner
  Events,      \* the events of one wallet, numbered in the order of their commits
  Tokens,      \* claim tokens, a uuidv7 each; 0 is NULL
  Batch,       \* publishBatch
  MaxFaults    \* bounds lost calls, kills and early expiries

ASSUME InstancesAssumption == /\ Steady \subseteq Instances
                              /\ \A d \in Deployments : DOMAIN d = Instances
                              /\ \A d \in Deployments, i \in Instances : d[i] # Nobody
ASSUME EventsAssumption == Events \subseteq Nat
ASSUME TokensAssumption == 0 \notin Tokens
ASSUME BatchAssumption == Batch \in Nat \ {0} /\ MaxFaults \in Nat

VARIABLES
  owner,   \* the InstanceID of each process
  row,     \* the outbox rows: state, claim and next attempt
  arrived, \* arrivals of each event in the output queue: 0, 1, or 2 for more
  fifo,    \* the order in which events first entered the FIFO group of the wallet
  loop,    \* where the publish loop of an instance is
  job,     \* its goroutines
  phase,   \* its life cycle
  faults   \* faults left to happen

vars == <<owner, row, arrived, fifo, loop, job, phase, faults>>

Owners == UNION {{d[i] : i \in Instances} : d \in Deployments}
Row == [state : {"none", "pending", "published"}, by : Owners \cup {Nobody},
        token : Tokens \cup {0}, live : BOOLEAN, due : BOOLEAN]
Job == [at : {"none", "send", "mark", "retry", "ok", "failed"}, token : Tokens \cup {0}]
NoJob == [at |-> "none", token |-> 0]

Init ==
  /\ owner \in Deployments
  /\ row   = [e \in Events |-> [state |-> "none", by |-> Nobody, token |-> 0,
                                live |-> FALSE, due |-> FALSE]]
  /\ arrived = [e \in Events |-> 0]
  /\ fifo  = <<>>
  /\ loop  = [i \in Instances |-> "poll"]
  /\ job   = [i \in Instances |-> [e \in Events |-> NoJob]]
  /\ phase = [i \in Instances |-> "up"]
  /\ faults = MaxFaults

(***************************************************************************)
(* Rows and claims.                                                        *)
(***************************************************************************)
\* insertEvent, with the commit of the wager it is about: the wallet lock orders the
\* events of a wallet.
InsertEvent(e) ==
  /\ row[e].state = "none"
  /\ \A d \in Events : d < e => row[d].state # "none"
  /\ row' = [row EXCEPT ![e].state = "pending", ![e].due = TRUE]
  /\ UNCHANGED <<owner, arrived, fifo, loop, job, phase, faults>>

Cleared(r) == [r EXCEPT !.by = Nobody, !.token = 0, !.live = FALSE]
Fresh == {t \in Tokens : /\ \A e \in Events : row[e].token # t
                         /\ \A i \in Instances, e \in Events : job[i][e].token # t}

\* Mutant: only rows without a claim are candidates, whatever its age.
UnclaimedOnly == {e \in Events : /\ row[e].state = "pending" /\ row[e].due
                                 /\ row[e].by = Nobody}

\* The WHERE of ClaimOutbox.
Candidates == {e \in Events : /\ row[e].state = "pending" /\ row[e].due
                              /\ row[e].by = Nobody \/ ~row[e].live}

\* The rows of claim S by instance i, each under a token of its own.
Claimed(i, S, token) ==
  [e \in Events |-> IF e \in S THEN [row[e] EXCEPT !.by = owner[i], !.token = token[e],
                                                   !.live = TRUE]
                    ELSE row[e]]

\* What uuidv7() may give to the rows of a claim: tokens that no one else has.
TokensFor(S) == {f \in [S -> Fresh] : \A d, e \in S : f[d] = f[e] => d = e}

\* Mutant: a token that is there is kept when an expired claim is taken over.
KeptTokens(S) ==
  LET new == CHOOSE f \in TokensFor(S) : TRUE IN
  [e \in S |-> IF row[e].token # 0 THEN row[e].token ELSE new[e]]

\* uuidv7() of every row of a claim.
NewTokens(S) == CHOOSE f \in TokensFor(S) : TRUE

\* ClaimOutbox.  SKIP LOCKED may leave out what another process has locked, LIMIT what
\* is beyond the batch.  The answer may be lost, or
\* cut short, after the claim is committed: then only the records J are worked on.
ClaimOutbox(i) ==
  /\ phase[i] = "up" /\ loop[i] = "poll"
  /\ \E S \in SUBSET Candidates, J \in SUBSET Candidates :
       LET token == NewTokens(S) IN
       /\ Cardinality(S) <= Batch /\ J \subseteq S
       /\ TokensFor(S) # {}
       /\ S = {} => Candidates = {}
       /\ \/ S = Candidates \/ Cardinality(S) = Batch
          \/ \E j \in Instances \ {i} : phase[j] # "down"
       /\ row' = Claimed(i, S, token)
       /\ job' = [job EXCEPT ![i] = [e \in Events |->
                    IF e \in J THEN [at |-> "send", token |-> token[e]] ELSE NoJob]]
       /\ loop' = [loop EXCEPT ![i] = "batch"]
       /\ \/ J = S /\ UNCHANGED faults
          \/ J # S /\ faults > 0 /\ faults' = faults - 1
  /\ UNCHANGED <<owner, arrived, fifo, phase>>

\* The loop waits for its batch.  Only a full batch that was published entirely is
\* followed by the next claim at once.
EndBatch(i) ==
  LET work == {e \in Events : job[i][e].at # "none"} IN
  /\ loop[i] = "batch"
  /\ \A e \in work : job[i][e].at \in {"ok", "failed"}
  /\ loop' = [loop EXCEPT ![i] =
       IF Cardinality(work) = Batch /\ \A e \in work : job[i][e].at = "ok"
       THEN "poll" ELSE "wait"]
  /\ job' = [job EXCEPT ![i] = [e \in Events |-> NoJob]]
  /\ UNCHANGED <<owner, row, arrived, fifo, phase, faults>>

\* PollInterval passes.
Wake(i) ==
  /\ phase[i] = "up" /\ loop[i] = "wait"
  /\ loop' = [loop EXCEPT ![i] = "poll"]
  /\ UNCHANGED <<owner, row, arrived, fifo, job, phase, faults>>

(***************************************************************************)
(* publishOne.  Once the work context is cancelled, calls under it fail;   *)
(* RetryOutbox has a context of its own.                                   *)
(***************************************************************************)
Goto(i, e, at) == job' = [job EXCEPT ![i][e].at = at]
Fault == faults > 0 /\ faults' = faults - 1
\* SendMessage is accepted.  The MessageDeduplicationId is the event id: the broker drops a
\* repetition within its window and takes the event once more after it.  Which of the two
\* it is depends on the delay of the next attempt, which is anything up to an hour.
Accept(e) ==
  /\ fifo' = IF arrived[e] = 0 THEN Append(fifo, e) ELSE fifo
  /\ \/ arrived' = [arrived EXCEPT ![e] = IF @ = 0 THEN 1 ELSE 2]
     \/ arrived[e] > 0 /\ UNCHANGED arrived

\* Mutant: an error of the broker is not told from success.
PublishUnchecked(i, e) ==
  /\ job[i][e].at = "send"
  /\ \/ phase[i] # "cancelled" /\ Accept(e) /\ UNCHANGED faults
     \/ phase[i] = "cancelled" /\ UNCHANGED <<arrived, fifo, faults>>
     \/ Fault /\ UNCHANGED <<arrived, fifo>>
  /\ Goto(i, e, "mark")
  /\ UNCHANGED <<owner, row, loop, phase>>

\* SendMessage: answered, refused, or accepted without an answer.
Publish(i, e) ==
  /\ job[i][e].at = "send"
  /\ \/ phase[i] # "cancelled" /\ Accept(e) /\ Goto(i, e, "mark") /\ UNCHANGED faults
     \/ phase[i] = "cancelled" /\ UNCHANGED <<arrived, fifo, faults>> /\ Goto(i, e, "retry")
     \/ Fault /\ UNCHANGED <<arrived, fifo>> /\ Goto(i, e, "retry")
     \/ Fault /\ Accept(e) /\ Goto(i, e, "retry")
  /\ UNCHANGED <<owner, row, loop, phase>>

\* The fence of both updates: the token of the job is still the token of the row.
Mine(i, e) == row[e].token = job[i][e].token /\ row[e].state = "pending"

\* Mutant: the token is cleared, its owner is forgotten.
MarkKeepingOwner(i, e) ==
  /\ job[i][e].at = "mark"
  /\ IF Mine(i, e)
     THEN /\ row' = [row EXCEPT ![e].state = "published", ![e].token = 0]
          /\ Goto(i, e, "ok")
     ELSE UNCHANGED row /\ Goto(i, e, "retry")
  /\ UNCHANGED <<owner, arrived, fifo, loop, phase, faults>>

\* MarkPublished: done, CLAIM_LOST, or a failed call whose update may have run.
MarkPublished(i, e) ==
  LET marked == [row EXCEPT ![e] = [Cleared(@) EXCEPT !.state = "published"]] IN
  /\ job[i][e].at = "mark"
  /\ \/ phase[i] # "cancelled" /\ Mine(i, e) /\ row' = marked /\ Goto(i, e, "ok")
        /\ UNCHANGED faults
     \/ phase[i] # "cancelled" /\ ~Mine(i, e) /\ Goto(i, e, "retry")
        /\ UNCHANGED <<row, faults>>
     \/ phase[i] = "cancelled" /\ Goto(i, e, "retry") /\ UNCHANGED <<row, faults>>
     \/ Fault /\ UNCHANGED row /\ Goto(i, e, "retry")
     \/ Fault /\ Mine(i, e) /\ row' = marked /\ Goto(i, e, "retry")
  /\ UNCHANGED <<owner, arrived, fifo, loop, phase>>

\* Mutant: the update is by event id alone.
RetryUnfenced(i, e) ==
  /\ job[i][e].at = "retry"
  /\ Goto(i, e, "failed")
  /\ row' = [row EXCEPT ![e] = [Cleared(@) EXCEPT !.due = FALSE]]
  /\ UNCHANGED <<owner, arrived, fifo, loop, phase, faults>>

\* RetryOutbox: the row is released and its next attempt delayed.  Its error is
\* ignored, so a lost claim, or a lost call, leaves the row as it is.
RetryOutbox(i, e) ==
  /\ job[i][e].at = "retry"
  /\ Goto(i, e, "failed")
  /\ \/ /\ Mine(i, e)
        /\ row' = [row EXCEPT ![e] = [Cleared(@) EXCEPT !.due = FALSE]]
        /\ UNCHANGED faults
     \/ ~Mine(i, e) /\ UNCHANGED <<row, faults>>
     \/ Fault /\ UNCHANGED row
  /\ UNCHANGED <<owner, arrived, fifo, loop, phase>>

(***************************************************************************)
(* The life of an instance.                                                *)
(***************************************************************************)
\* OnStop: StopIntake, while accepted work goes on.
StopIntake(i) ==
  /\ phase[i] = "up" /\ i \notin Steady
  /\ phase' = [phase EXCEPT ![i] = "draining"]
  /\ UNCHANGED <<owner, row, arrived, fifo, loop, job, faults>>

\* The shutdown deadline passes before the loops have ended (this one, or another of
\* the engine): cancelWork, then wait for them.
CancelWork(i) ==
  /\ phase[i] = "draining"
  /\ phase' = [phase EXCEPT ![i] = "cancelled"]
  /\ Fault
  /\ UNCHANGED <<owner, row, arrived, fifo, loop, job>>

ReleasedBy(i) ==
  [e \in Events |-> IF row[e].by = owner[i] /\ row[e].state = "pending"
                    THEN Cleared(row[e]) ELSE row[e]]

\* Mutant: the claims are released without waiting for the loops.
StopEarly(i) ==
  /\ phase[i] = "draining"
  /\ row' = ReleasedBy(i)
  /\ phase' = [phase EXCEPT ![i] = "down"]
  /\ UNCHANGED <<owner, arrived, fifo, loop, job, faults>>

\* Stop: the loops have ended.  After a drain in time the claims of this owner are
\* released (a call that may fail); after a cancelled one they are left to expire.
Stop(i) ==
  /\ phase[i] \in {"draining", "cancelled"} /\ loop[i] # "batch"
  /\ phase' = [phase EXCEPT ![i] = "down"]
  /\ \/ phase[i] = "draining" /\ row' = ReleasedBy(i) /\ UNCHANGED faults
     \/ phase[i] = "draining" /\ Fault /\ UNCHANGED row
     \/ phase[i] = "cancelled" /\ UNCHANGED <<row, faults>>
  /\ UNCHANGED <<owner, arrived, fifo, loop, job>>

Crash(i) ==
  /\ phase[i] # "down" /\ i \notin Steady
  /\ Fault
  /\ phase' = [phase EXCEPT ![i] = "down"]
  /\ loop' = [loop EXCEPT ![i] = "wait"]
  /\ job' = [job EXCEPT ![i] = [e \in Events |-> NoJob]]
  /\ UNCHANGED <<owner, row, arrived, fifo>>

\* A new process under the same InstanceID.
Start(i) ==
  /\ phase[i] = "down"
  /\ phase' = [phase EXCEPT ![i] = "up"]
  /\ loop' = [loop EXCEPT ![i] = "poll"]
  /\ UNCHANGED <<owner, row, arrived, fifo, job, faults>>

(***************************************************************************)
(* Time.                                                                   *)
(***************************************************************************)
BecomesDue(e) ==
  /\ row[e].state = "pending" /\ ~row[e].due
  /\ row' = [row EXCEPT ![e].due = TRUE]
  /\ UNCHANGED <<owner, arrived, fifo, loop, job, phase, faults>>

\* The lease is longer than a job may take (config.Load), so while a job runs under
\* it, it only expires if the process was suspended: a fault.
AtWork(e) == \E i \in Instances : /\ job[i][e].token = row[e].token
                                  /\ job[i][e].at \in {"send", "mark", "retry"}
LeaseExpires(e) ==
  /\ row[e].live
  /\ row' = [row EXCEPT ![e].live = FALSE]
  /\ IF AtWork(e) THEN Fault ELSE UNCHANGED faults
  /\ UNCHANGED <<owner, arrived, fifo, loop, job, phase>>

JobStep(i) == \E e \in Events : Publish(i, e) \/ MarkPublished(i, e) \/ RetryOutbox(i, e)
EngineStep(i) == ClaimOutbox(i) \/ JobStep(i) \/ EndBatch(i) \/ Wake(i) \/ Stop(i)

Next ==
  \/ \E e \in Events : InsertEvent(e) \/ BecomesDue(e) \/ LeaseExpires(e)
  \/ \E i \in Instances : \/ EngineStep(i) \/ StopIntake(i) \/ CancelWork(i)
                          \/ Crash(i) \/ Start(i)

Spec == Init /\ [][Next]_vars

(***************************************************************************)
(* Fairness: the goroutines of an engine run, time passes.  Rows are       *)
(* claimed in the order of next_attempt_at, so none is passed over for     *)
(* ever.  Nothing restarts a process or inserts an event.                  *)
(***************************************************************************)
ClaimsEvent(i, e) == ClaimOutbox(i) /\ row[e].token # row'[e].token

Fairness ==
  /\ \A i \in Instances : /\ WF_vars(JobStep(i)) /\ WF_vars(EndBatch(i))
                          /\ WF_vars(Wake(i)) /\ WF_vars(Stop(i))
                          /\ WF_vars(ClaimOutbox(i))
  /\ \A i \in Instances, e \in Events : SF_vars(ClaimsEvent(i, e))
  /\ \A e \in Events : WF_vars(BecomesDue(e)) /\ WF_vars(LeaseExpires(e))

FairSpec == Spec /\ Fairness

(***************************************************************************)
(* Properties.                                                             *)
(***************************************************************************)
\* Every variable has its type, and the CHECK of the outbox table holds: the three claim
\* columns are set together or not at all, and no published row is claimed.  An event
\* may be in the queue more than once: delivery is at least once.
TypeOK ==
  /\ row \in [Events -> Row]
  /\ owner \in Deployments
  /\ arrived \in [Events -> 0 .. 2]
  /\ fifo \in Seq(Events)
  /\ loop \in [Instances -> {"poll", "batch", "wait"}]
  /\ job \in [Instances -> [Events -> Job]]
  /\ phase \in [Instances -> {"up", "draining", "cancelled", "down"}]
  /\ faults \in 0 .. MaxFaults
  /\ \A e \in Events : /\ row[e].by = Nobody <=> row[e].token = 0
                       /\ row[e].live => row[e].by # Nobody
                       /\ row[e].state # "pending" => row[e].by = Nobody

\* An event marked as published has reached the broker: no crash, lost answer or
\* lost claim lets MarkPublished run for an event that was never accepted.
NothingLost == \A e \in Events : row[e].state = "published" => arrived[e] > 0

\* The token of a row belongs to one goroutine at most, also when two processes run
\* under one InstanceID and when a claim changes hands while the old job still runs.
OneHolder ==
  \A e \in Events, i, j \in Instances :
    row[e].token # 0 /\ {job[i][e].token, job[j][e].token} = {row[e].token} => i = j

\* A published row never changes again, whatever a late worker still tries.
PublishedFinal ==
  [][\A e \in Events : row[e].state = "published" => row'[e] = row[e]]_vars

\* Every process has an InstanceID of its own.
OwnIds == \A i, j \in Instances : owner[i] = owner[j] => i = j

\* An event that concurrent publishers send, drains and restarts included, arrives once as
\* long as nothing fails and every process has an InstanceID of its own, without any help
\* of the deduplication: ReleaseClaims never hands over an event that is still at work.
SentOnceUnlessFaulty ==
  faults = MaxFaults /\ OwnIds => \A e \in Events : arrived[e] <= 1

\* The events of a wallet arrive in the order the database committed them in, as the
\* comment on insertEvent says of the column that orders the claims.  The code does
\* not keep this: see the finding in the README.
SentInOrder == \A i, j \in DOMAIN fifo : i < j => fifo[i] < fifo[j]

\* No event is given up: with one process left running, finitely many faults and an
\* InstanceID for each process, every committed event is published in the end, the
\* ones a dead worker had claimed or whose answers were lost included.  (Where two
\* processes share an id, one that is restarted for ever may release the claims of
\* the other before each of its marks.)
EventsPublished ==
  \A e \in Events : OwnIds /\ row[e].state = "pending" ~> row[e].state = "published"
=============================================================================

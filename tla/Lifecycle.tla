------------------------------ MODULE Lifecycle -----------------------------
(***************************************************************************)
(* One process from OnStart to its exit (modules/app.go), with the         *)
(* deadlines that config.Load relates to each other, in seconds.           *)
(*                                                                         *)
(* In the process run one HTTP request and one job of the engine: an event *)
(* or a waiting wager that was claimed, or a message that was received.    *)
(* Every call may end at any moment up to its deadline, and Tick cannot    *)
(* pass a deadline.  A job or a request only matters here for how long it  *)
(* takes and on what it may still act; what it does is in the other        *)
(* modules.  Fx, net/http and pgxpool are modelled from their use.         *)
(***************************************************************************)
EXTENDS Integers

CONSTANTS
  ProcessTimes, VisibilityTimes, ShutdownTimes, LeaseTimes,  \* the environment
  Margin,           \* the 10 s that Load adds to PROCESS_TIMEOUT
  ClaimTimeout,     \* one claim of the engine
  AckTimeout,       \* Delete in handle
  CleanupTimeout,   \* RetryOutbox, Visibility and ReleaseClaims
  HeaderTimeout,    \* Server.ReadHeaderTimeout
  ReadTimeout,      \* Server.ReadTimeout
  StopTimeout       \* fx.StopTimeout

Durations == {Margin, ClaimTimeout, AckTimeout, CleanupTimeout, HeaderTimeout, ReadTimeout, StopTimeout}
Settings == ProcessTimes \cup VisibilityTimes \cup ShutdownTimes \cup LeaseTimes

ASSUME DurationsAssumption == Durations \subseteq Nat \ {0}
ASSUME SettingsAssumption == Settings \subseteq Nat
\* What the fixed deadlines owe to the margin of Load.
ASSUME MarginAssumption ==
  /\ AckTimeout + CleanupTimeout <= Margin
  /\ ClaimTimeout + CleanupTimeout < Margin

VARIABLES
  cfg,        \* the Config that Load accepted
  stage,      \* where Fx is in the hooks
  ready,      \* Runtime.ready
  listening,  \* the socket takes connections
  pool,       \* the connection pool
  stopAge,    \* the time since the stop began
  cleanup,    \* the time ReleaseClaims has taken
  job,        \* what the loops of the engine do
  req         \* the HTTP request

process == <<cfg, stage, ready, listening, pool>>
vars == <<process, stopAge, cleanup, job, req>>

Starting == {"ping", "check", "resolve", "listen"}
Stopping == {"unready", "shutdown", "join", "cancel", "release", "close"}
Kinds == {"event", "reference", "message"}

Config == [process : ProcessTimes, visibility : VisibilityTimes, shutdown : ShutdownTimes, lease : LeaseTimes]

\* Plausible but wrong: the lease has to outlast the processing only.
SafeWithoutMargin(c) ==
  /\ c.process > 0
  /\ c.process < c.visibility
  /\ c.process < c.shutdown /\ c.shutdown < c.visibility
  /\ c.lease >= c.process

\* Plausible but wrong: the drain may be shorter than what it waits for.
SafeShortDrain(c) ==
  /\ c.process > 0
  /\ c.process + Margin < c.visibility
  /\ c.shutdown < c.visibility
  /\ c.lease >= c.process + Margin

\* What Load requires of the times.
Safe(c) ==
  /\ c.process > 0
  /\ c.process + Margin < c.visibility
  /\ c.process < c.shutdown /\ c.shutdown < c.visibility
  /\ c.lease >= c.process + Margin

Load == {c \in Config : Safe(c)}

Idle == [kind |-> "event", at |-> "idle", age |-> 0, held |-> 0]
NoRequest == [at |-> "none", read |-> 0, ctx |-> 0]

\* Plausible but wrong: OnStop works under the context of Fx alone.
DeadlineOfFx == StopTimeout

\* The context of OnStop ends with SHUTDOWN_TIMEOUT or with that of Fx.
Deadline == IF cfg.shutdown < StopTimeout THEN cfg.shutdown ELSE StopTimeout
Expired == stopAge >= Deadline

Fresh(c) ==
  /\ cfg' = c /\ stage' = "ping" /\ ready' = FALSE /\ listening' = FALSE /\ pool' = "open"
  /\ stopAge' = 0 /\ cleanup' = 0 /\ job' = Idle /\ req' = NoRequest

Init ==
  /\ cfg \in Load /\ stage = "ping" /\ ready = FALSE /\ listening = FALSE /\ pool = "open"
  /\ stopAge = 0 /\ cleanup = 0 /\ job = Idle /\ req = NoRequest

-----------------------------------------------------------------------------
(* The hooks of OnStart. *)

\* pool.Ping.  A hook that fails is not stopped.
Ping ==
  /\ stage = "ping"
  /\ stage' \in {"check", "exit"}
  /\ UNCHANGED <<cfg, ready, listening, pool, stopAge, cleanup, job, req>>

\* identity.Check and broker.Start; if one fails Fx stops the hooks that have
\* started, which is the pool.
OnStart ==
  /\ \/ stage = "check" /\ stage' = "resolve"
     \/ stage = "resolve" /\ stage' = "listen"
     \/ stage \in {"check", "resolve", "listen"} /\ stage' = "close"
  /\ UNCHANGED <<cfg, ready, listening, pool, stopAge, cleanup, job, req>>

\* net.Listen, engine.Start, readiness and Serve.
Serve ==
  /\ stage = "listen"
  /\ stage' = "up" /\ ready' = TRUE /\ listening' = TRUE
  /\ UNCHANGED <<cfg, pool, stopAge, cleanup, job, req>>

-----------------------------------------------------------------------------
(* One job of the engine. *)

\* The loops look at intake before they claim or receive.
Intake == stage = "up"
Cancelled == stage = "cancel"

\* ClaimOutbox or ClaimReferences is sent; the lease runs from its statement.
Claim(k) ==
  /\ Intake /\ job.at = "idle" /\ k \in {"event", "reference"}
  /\ job' = [Idle EXCEPT !.kind = k, !.at = "fetch"]
  /\ UNCHANGED <<process, stopAge, cleanup, req>>

\* The claim answers with a row, also when intake has just been stopped.
Claimed ==
  /\ job.at = "fetch"
  /\ job' = [job EXCEPT !.at = "work", !.age = 0]
  /\ UNCHANGED <<process, stopAge, cleanup, req>>

\* Receive answers with a message, whose visibility timeout begins.
Receive ==
  /\ Intake /\ job.at = "idle"
  /\ job' = [Idle EXCEPT !.kind = "message", !.at = "work"]
  /\ UNCHANGED <<process, stopAge, cleanup, req>>

\* The claim failed, or found nothing, or the job is over.
EndJob ==
  /\ \/ job.at \in {"fetch", "tail"}
     \/ job.at = "work" /\ job.kind # "message"
     \/ job.at = "ack"
  /\ job' = Idle
  /\ UNCHANGED <<process, stopAge, cleanup, req>>

\* ProcessWager has committed; Delete has a deadline of its own.
Acknowledge ==
  /\ job.at = "work" /\ job.kind = "message"
  /\ job' = [job EXCEPT !.at = "ack", !.age = 0]
  /\ UNCHANGED <<process, stopAge, cleanup, req>>

\* RetryOutbox or Visibility, in a context that no cancellation reaches.
Tidy ==
  /\ \/ job.at = "work" /\ job.kind # "reference"
     \/ job.at = "ack"
  /\ job' = [job EXCEPT !.at = "tail", !.age = 0]
  /\ UNCHANGED <<process, stopAge, cleanup, req>>

\* close(e.done): every loop has returned.
Done == ~Intake /\ job.at = "idle"

-----------------------------------------------------------------------------
(* One HTTP request. *)

\* Close has ended the connection, and with it the context of the handler.
Cut == stage \notin {"up", "unready", "shutdown"} /\ req.at # "none"

Accept ==
  /\ listening /\ req.at = "none"
  /\ req' = [NoRequest EXCEPT !.at = "header"]
  /\ UNCHANGED <<process, stopAge, cleanup, job>>

\* requestContext starts the clock of the handler, which then reads the body.
Handle ==
  /\ req.at = "header"
  /\ req' = [req EXCEPT !.at = "body", !.ctx = 0]
  /\ UNCHANGED <<process, stopAge, cleanup, job>>

\* The handler calls the store under what is left of its context.
CallStore ==
  /\ req.at = "body" /\ ~Cut /\ req.ctx < cfg.process
  /\ req' = [req EXCEPT !.at = "store", !.read = 0]
  /\ UNCHANGED <<process, stopAge, cleanup, job>>

\* The answer is written, or the connection is closed.
EndRequest ==
  /\ req.at # "none"
  /\ req' = NoRequest
  /\ UNCHANGED <<process, stopAge, cleanup, job>>

-----------------------------------------------------------------------------
(* The hooks of OnStop. *)

\* A signal, or Serve failed: the context of OnStop starts to run.
BeginStop ==
  /\ stage = "up"
  /\ stage' = "unready" /\ ready' = FALSE /\ stopAge' = 0
  /\ UNCHANGED <<cfg, listening, pool, cleanup, job, req>>

\* Server.Shutdown closes the socket and waits.
Shutdown ==
  /\ stage = "unready"
  /\ stage' = "shutdown" /\ listening' = FALSE
  /\ UNCHANGED <<cfg, ready, pool, stopAge, cleanup, job, req>>

\* Shutdown returns: the request is over, or Server.Close ends it.
ShutdownReturns ==
  /\ stage = "shutdown"
  /\ req.at = "none" \/ Expired
  /\ stage' = "join"
  /\ req' = IF req.at = "header" THEN NoRequest ELSE req
  /\ UNCHANGED <<cfg, ready, listening, pool, stopAge, cleanup, job>>

\* Engine.Stop: the loops have returned, and the claims are released.
Join ==
  /\ stage = "join" /\ Done
  /\ stage' = "release"
  /\ UNCHANGED <<cfg, ready, listening, pool, stopAge, cleanup, job, req>>

\* Engine.Stop: the drain has taken too long, and the work is cancelled.
CancelWork ==
  /\ stage = "join" /\ Expired
  /\ stage' = "cancel"
  /\ UNCHANGED <<cfg, ready, listening, pool, stopAge, cleanup, job, req>>

\* Plausible but wrong: Stop does not wait for the work it has cancelled.
LeaveCancelled ==
  /\ Cancelled
  /\ stage' = "close"
  /\ UNCHANGED <<cfg, ready, listening, pool, stopAge, cleanup, job, req>>

\* Plausible but wrong: Stop starts over once the cancelled work has ended.
JoinAgain ==
  /\ Cancelled /\ Done
  /\ stage' = "join"
  /\ UNCHANGED <<cfg, ready, listening, pool, stopAge, cleanup, job, req>>

\* Engine.Stop: the cancelled work has ended; claims are left to their leases.
JoinCancelled ==
  /\ Cancelled /\ Done
  /\ stage' = "close"
  /\ UNCHANGED <<cfg, ready, listening, pool, stopAge, cleanup, job, req>>

ReleaseClaims ==
  /\ stage = "release"
  /\ stage' = "close" /\ cleanup' = 0
  /\ UNCHANGED <<cfg, ready, listening, pool, stopAge, job, req>>

\* Fx runs the next hook only while its context lives; pool.Close waits for
\* the connections that are in use.
ClosePool ==
  /\ stage = "close" /\ stopAge < StopTimeout /\ req.at # "store"
  /\ pool' = "closed" /\ stage' = "exit"
  /\ UNCHANGED <<cfg, ready, listening, stopAge, cleanup, job, req>>

\* Run returns when the context of Fx has ended, whatever the hook still does.
StopTimedOut ==
  /\ stage \in Stopping /\ stopAge = StopTimeout
  /\ stage' = "exit"
  /\ UNCHANGED <<cfg, ready, listening, pool, stopAge, cleanup, job, req>>

\* The process is started again.
Restart == stage = "exit" /\ \E c \in Load : Fresh(c)

-----------------------------------------------------------------------------
(* Time. *)

CallTimeout ==
  [fetch |-> ClaimTimeout, work |-> cfg.process, ack |-> AckTimeout, tail |-> CleanupTimeout]

\* The job may take another second: its call has not reached its deadline, and
\* its context is not cancelled.
JobMayWait ==
  /\ job.at # "idle" => job.age < CallTimeout[job.at]
  /\ job.at = "fetch" => Intake
  /\ job.at \in {"work", "ack"} => ~Cancelled

RequestMayWait ==
  /\ req.at = "header" => req.read < HeaderTimeout
  /\ req.at = "body" => req.read < ReadTimeout
  /\ req.at = "store" => req.ctx < cfg.process
  /\ ~Cut

StopMayWait ==
  /\ stage # "unready"
  /\ stage = "shutdown" => req.at # "none" /\ ~Expired
  /\ stage = "join" => ~Done /\ ~Expired
  /\ Cancelled => ~Done
  /\ stage = "release" => cleanup < CleanupTimeout
  /\ stage # "close"
  /\ stage \in Stopping => stopAge < StopTimeout

\* A second passes for everyone.
Tick ==
  /\ stage \notin Starting \cup {"exit"}
  /\ JobMayWait /\ RequestMayWait /\ StopMayWait
  /\ stopAge' = IF stage \in Stopping THEN stopAge + 1 ELSE stopAge
  /\ cleanup' = IF stage = "release" THEN cleanup + 1 ELSE cleanup
  /\ job' = IF job.at = "idle" THEN job ELSE [job EXCEPT !.age = @ + 1, !.held = @ + 1]
  /\ req' = [req EXCEPT !.read = IF req.at \in {"header", "body"} THEN @ + 1 ELSE @,
                        !.ctx = IF req.at \in {"body", "store"} THEN @ + 1 ELSE @]
  /\ UNCHANGED process

JobStep == (\E k \in Kinds : Claim(k)) \/ Claimed \/ Receive \/ EndJob \/ Acknowledge \/ Tidy
RequestStep == Accept \/ Handle \/ CallStore \/ EndRequest
StopStep ==
  \/ Shutdown \/ ShutdownReturns \/ Join \/ CancelWork \/ JoinCancelled
  \/ ReleaseClaims \/ ClosePool \/ StopTimedOut

\* A process that has ended neither works nor answers.
Next ==
  \/ Ping \/ OnStart \/ Serve
  \/ stage # "exit" /\ (JobStep \/ RequestStep)
  \/ BeginStop \/ StopStep \/ Restart \/ Tick

Spec == Init /\ [][Next]_vars

\* Time goes on, and the runtime schedules every goroutine that can run.
Fairness ==
  /\ WF_vars(Tick) /\ WF_vars(StopStep)
  /\ WF_vars(stage # "exit" /\ EndJob) /\ WF_vars(stage # "exit" /\ Tidy)
  /\ WF_vars(stage # "exit" /\ EndRequest)

FairSpec == Spec /\ Fairness

-----------------------------------------------------------------------------
(* Properties. *)

\* The times Load accepts keep a job within its claim: from the claim or the
\* receipt to the last call of publishOne, RetryReference or handle, retries
\* and a cut-off drain included, no other replica can take the event, the
\* wager or the message.
HoldCoversWork ==
  job.at \in {"work", "ack", "tail"} =>
    job.held < IF job.kind = "message" THEN cfg.visibility ELSE cfg.lease

\* OnStop cuts off no financial commit and no send that was under way when the
\* stop began: when Server.Close or cancelWork comes, each has had all of its
\* PROCESS_TIMEOUT.  Only a request that was still arriving, or the tail of a
\* job, can meet them.
DrainCutsNothing ==
  [][cfg.process < StopTimeout =>
      /\ ~Cut /\ Cut' => ~(req.at = "store" /\ req.ctx >= stopAge)
      /\ ~Cancelled /\ Cancelled' => job.at # "work"]_vars

\* The pool is closed after the last job: no claim, mark or retry of the engine
\* and no transaction of a handler meets a closed pool, also when the drain was
\* cut off.
PoolClosedLast == pool = "closed" => job.at = "idle" /\ req.at # "store"

\* A stop is orderly when its deadline leaves room for the last cleanup before
\* Fx gives up: the process then ends with its jobs over and its pool closed.
\* Load accepts longer deadlines too, for which this does not hold.
StopIsOrderly ==
  /\ stage = "exit" /\ stopAge > 0
  /\ cfg.shutdown + CleanupTimeout < StopTimeout
  => pool = "closed" /\ job.at = "idle"

\* A stop ends in the exit of the process, whatever its job and its request do.
StopEnds == (stage \in Stopping) ~> (stage = "exit")
=============================================================================

-------------------------- MODULE LifecycleProofs ---------------------------
(***************************************************************************)
(* Proofs about Lifecycle, for all settings of the environment and all     *)
(* fixed deadlines that the assumptions of the module allow.               *)
(*                                                                         *)
(* The inductive invariant IndInv says how long a job has held its claim   *)
(* at each of its calls (JobTimes), what a handler has left of its context *)
(* (RequestTimes), in which order the parts of the process go (Order), and *)
(* how long a stop has taken at each of its hooks (StopTimes).             *)
(***************************************************************************)
EXTENDS Lifecycle, TLAPS

Stages == Starting \cup Stopping \cup {"up", "exit"}
Job == [kind : Kinds, at : {"idle", "fetch", "work", "ack", "tail"}, age : Nat, held : Nat]
Req == [at : {"none", "header", "body", "store"}, read : Nat, ctx : Nat]

Types ==
  /\ cfg \in Load
  /\ stage \in Stages
  /\ ready \in BOOLEAN /\ listening \in BOOLEAN /\ pool \in {"open", "closed"}
  /\ stopAge \in Nat /\ cleanup \in Nat
  /\ job \in Job /\ req \in Req

\* What a job has taken of its claim when it is in its n-th call: the claim itself (for a
\* message there is none), the work, the acknowledgement and the cleanup.
JobTimes ==
  /\ job.at = "fetch" => /\ job.kind # "message" /\ job.age <= ClaimTimeout
                         /\ job.held <= job.age
  /\ job.at = "work" => /\ job.age <= cfg.process
                        /\ job.kind = "message" => job.held <= job.age
                        /\ job.held <= ClaimTimeout + job.age
  /\ job.at = "ack" => /\ job.kind = "message" /\ job.age <= AckTimeout
                       /\ job.held <= cfg.process + job.age
  /\ job.at = "tail" => /\ job.age <= CleanupTimeout
                        /\ job.kind = "message" =>
                             job.held <= cfg.process + AckTimeout + job.age
                        /\ job.kind # "message" =>
                             job.held <= ClaimTimeout + cfg.process + job.age

\* A handler calls the store within its context.
RequestTimes == req.at = "store" => req.ctx <= cfg.process

\* Nothing runs before the process is up; the socket is closed before the drain; the
\* last hooks run after the last job; the pool is closed at the very end.
Order ==
  /\ stage \in Starting => job.at = "idle" /\ req.at = "none" /\ stopAge = 0 /\ ~listening
  /\ listening => stage \in {"up", "unready", "exit"}
  /\ stage \in {"release", "close"} => job.at = "idle"
  /\ pool = "closed" => stage = "exit" /\ job.at = "idle" /\ req.at # "store"
  /\ stage \notin {"release", "exit"} => cleanup = 0

\* A stop reaches the end of the drain at its deadline; from there on it waits for one
\* cleanup only, that of a job or its own.  Work that goes on during the drain was there
\* before the stop, and a claim that was being made has been answered at once.
StopTimes ==
  /\ stage \in {"unready", "shutdown", "join"} =>
       /\ stopAge <= Deadline
       /\ job.at = "fetch" => stopAge = 0
       /\ job.at = "work" => stopAge <= job.age
  /\ stage = "cancel" => stopAge <= Deadline + IF job.at = "tail" THEN job.age
                                               ELSE IF job.at = "idle" THEN CleanupTimeout
                                               ELSE 0
  /\ stage = "release" => cleanup <= CleanupTimeout /\ stopAge <= Deadline + cleanup
  /\ stage = "close" => stopAge <= Deadline + CleanupTimeout
  /\ stage = "exit" /\ stopAge > 0 /\ cfg.shutdown + CleanupTimeout < StopTimeout =>
       pool = "closed"

IndInv == Types /\ JobTimes /\ RequestTimes /\ Order /\ StopTimes

-----------------------------------------------------------------------------
(* The inductive step, one lemma for each group of actions. *)

\* What Load promises of the times, and what a process may be told.
LEMMA LoadFacts ==
  ASSUME NEW c \in Load
  PROVE  /\ c.process \in Nat /\ c.visibility \in Nat /\ c.shutdown \in Nat /\ c.lease \in Nat
         /\ c.process + Margin < c.visibility
         /\ c.process < c.shutdown
         /\ c.process + Margin <= c.lease
BY SettingsAssumption, DurationsAssumption DEF Load, Safe, Config, Settings, Durations

\* The fixed deadlines are numbers, and the margin of Load covers them.
LEMMA DurationFacts ==
  /\ Margin \in Nat /\ ClaimTimeout \in Nat /\ AckTimeout \in Nat
  /\ CleanupTimeout \in Nat /\ CleanupTimeout > 0 /\ StopTimeout \in Nat
  /\ HeaderTimeout \in Nat /\ ReadTimeout \in Nat
  /\ AckTimeout + CleanupTimeout <= Margin
  /\ ClaimTimeout + CleanupTimeout < Margin
BY DurationsAssumption, MarginAssumption DEF Durations

\* The deadline of OnStop lies between the process timeout and the shutdown timeout, or
\* is the one of Fx.
LEMMA DeadlineFacts ==
  ASSUME cfg \in Load
  PROVE  /\ cfg.process \in Nat /\ cfg.visibility \in Nat /\ cfg.shutdown \in Nat
         /\ cfg.lease \in Nat /\ Deadline \in Nat
         /\ cfg.process + Margin < cfg.visibility
         /\ cfg.process + Margin <= cfg.lease
         /\ Deadline <= cfg.shutdown
         /\ cfg.process < StopTimeout => cfg.process < Deadline
BY LoadFacts, DurationFacts DEF Deadline

\* A process starts within the invariant.
LEMMA InitInv == Init => IndInv
<1>. SUFFICES ASSUME Init PROVE IndInv
  OBVIOUS
<1>1. Types
  BY DEF Init, Types, Idle, NoRequest, Job, Req, Kinds, Stages, Starting
<1>2. JobTimes /\ RequestTimes
  BY DEF Init, JobTimes, RequestTimes, Idle, NoRequest
<1>3. Order /\ StopTimes
  BY DEF Init, Order, StopTimes, Idle, NoRequest, Starting
<1>. QED  BY <1>1, <1>2, <1>3 DEF IndInv

\* The hooks of OnStart, the signal that begins the stop, and the restart of the process.
LEMMA StartInv ==
  ASSUME IndInv, Ping \/ OnStart \/ Serve \/ BeginStop \/ Restart
  PROVE  IndInv'
<1>. USE DurationFacts DEF IndInv, Types, Stages, Starting, Stopping
<1>1. CASE Ping
  BY <1>1, LoadFacts DEF Ping, JobTimes, RequestTimes, Order, StopTimes, Deadline
<1>2. CASE OnStart
  BY <1>2, LoadFacts DEF OnStart, JobTimes, RequestTimes, Order, StopTimes, Deadline
<1>3. CASE Serve
  BY <1>3, LoadFacts DEF Serve, JobTimes, RequestTimes, Order, StopTimes, Deadline
<1>4. CASE BeginStop
  <2>1. Deadline' = Deadline
    BY <1>4 DEF BeginStop, Deadline
  <2>2. Types' /\ JobTimes' /\ RequestTimes' /\ Order'
    BY <1>4 DEF BeginStop, JobTimes, RequestTimes, Order
  <2>3. StopTimes'
    BY <1>4, <2>1, DeadlineFacts DEF BeginStop, StopTimes, Job
  <2>. QED  BY <2>2, <2>3
<1>5. CASE Restart
  <2>. PICK c \in Load : Fresh(c)
    BY <1>5 DEF Restart
  <2>a. Idle \in Job /\ NoRequest \in Req
    BY DEF Idle, NoRequest, Job, Req, Kinds
  <2>1. Types'
    BY <2>a DEF Fresh
  <2>2. JobTimes' /\ RequestTimes'
    BY DEF Fresh, JobTimes, RequestTimes, Idle, NoRequest
  <2>3. Order' /\ StopTimes'
    BY DEF Fresh, Order, StopTimes, Idle, NoRequest
  <2>. QED  BY <2>1, <2>2, <2>3
<1>. QED  BY <1>1, <1>2, <1>3, <1>4, <1>5

\* A call of the engine that ends, and the next one of its job.
LEMMA JobInv ==
  ASSUME IndInv, stage # "exit", JobStep
  PROVE  IndInv'
<1>. USE DurationFacts, DeadlineFacts
<1>. DEFINE Becomes(k, a, n, h) ==
       /\ job' \in Job
       /\ job'.kind = k /\ job'.at = a /\ job'.age = n /\ job'.held = h
       /\ UNCHANGED <<cfg, stage, ready, listening, pool, stopAge, cleanup, req>>
<1>. USE DEF IndInv, Types, Stages, Starting, Stopping, Intake, JobTimes, RequestTimes, Order,
             StopTimes, Deadline
<1>1. ASSUME NEW k \in Kinds, Claim(k) PROVE IndInv'
  <2>1. Becomes(k, "fetch", 0, 0)
    BY <1>1 DEF Claim, Job, Idle, process
  <2>. QED  BY <1>1, <2>1 DEF Claim
<1>2. CASE Claimed
  <2>1. Becomes(job.kind, "work", 0, job.held)
    BY <1>2 DEF Claimed, Job, process
  <2>. QED  BY <1>2, <2>1 DEF Claimed, Job
<1>3. CASE Receive
  <2>1. Becomes("message", "work", 0, 0)
    BY <1>3 DEF Receive, Job, Idle, Kinds, process
  <2>. QED  BY <1>3, <2>1 DEF Receive
<1>4. CASE EndJob
  <2>1. Becomes("event", "idle", 0, 0)
    BY <1>4 DEF EndJob, Job, Idle, Kinds, process
  <2>. QED  BY <1>4, <2>1 DEF EndJob, Job
<1>5. CASE Acknowledge
  <2>1. Becomes("message", "ack", 0, job.held)
    BY <1>5 DEF Acknowledge, Job, process
  <2>. QED  BY <1>5, <2>1 DEF Acknowledge, Job
<1>6. CASE Tidy
  <2>1. Becomes(job.kind, "tail", 0, job.held)
    BY <1>6 DEF Tidy, Job, process
  <2>. QED  BY <1>6, <2>1 DEF Tidy, Job
<1>. QED  BY <1>1, <1>2, <1>3, <1>4, <1>5, <1>6 DEF JobStep

\* A request that comes, goes on or ends.
LEMMA RequestInv ==
  ASSUME IndInv, stage # "exit", RequestStep
  PROVE  IndInv'
<1>. USE DurationFacts, DeadlineFacts
<1>. DEFINE Becomes(a, r, c) ==
       /\ req' \in Req
       /\ req'.at = a /\ req'.read = r /\ req'.ctx = c
       /\ UNCHANGED <<cfg, stage, ready, listening, pool, stopAge, cleanup, job>>
<1>. USE DEF IndInv, Types, Stages, Starting, Stopping, JobTimes, RequestTimes, Order,
             StopTimes, Deadline
<1>1. CASE Accept
  <2>1. Becomes("header", 0, 0)
    BY <1>1 DEF Accept, Req, NoRequest, process
  <2>. QED  BY <1>1, <2>1 DEF Accept
<1>2. CASE Handle
  <2>1. Becomes("body", req.read, 0)
    BY <1>2 DEF Handle, Req, process
  <2>. QED  BY <1>2, <2>1 DEF Handle
<1>3. CASE CallStore
  <2>1. Becomes("store", 0, req.ctx)
    BY <1>3 DEF CallStore, Req, process
  <2>. QED  BY <1>3, <2>1 DEF CallStore, Req, Cut
<1>4. CASE EndRequest
  <2>1. Becomes("none", 0, 0)
    BY <1>4 DEF EndRequest, Req, NoRequest, process
  <2>. QED  BY <1>4, <2>1 DEF EndRequest
<1>. QED  BY <1>1, <1>2, <1>3, <1>4 DEF RequestStep

\* The hooks of OnStop.
LEMMA StopInv ==
  ASSUME IndInv, StopStep
  PROVE  IndInv'
<1>. USE DurationFacts, LoadFacts
     DEF IndInv, Types, Stages, Starting, Stopping, Req, NoRequest, Job, process,
         JobTimes, RequestTimes, Order, StopTimes, Deadline, Expired, Done, Intake, Cancelled
<1>1. CASE Shutdown
  BY <1>1 DEF Shutdown
<1>2. CASE ShutdownReturns
  BY <1>2 DEF ShutdownReturns
<1>3. CASE Join
  BY <1>3 DEF Join
<1>4. CASE CancelWork
  BY <1>4 DEF CancelWork
<1>5. CASE JoinCancelled
  BY <1>5 DEF JoinCancelled
<1>6. CASE ReleaseClaims
  BY <1>6 DEF ReleaseClaims
<1>7. CASE ClosePool
  BY <1>7 DEF ClosePool
<1>8. CASE StopTimedOut
  BY <1>8 DEF StopTimedOut
<1>. QED  BY <1>1, <1>2, <1>3, <1>4, <1>5, <1>6, <1>7, <1>8 DEF StopStep

\* A second passes for everyone, and nobody passes a deadline.
LEMMA TickInv ==
  ASSUME IndInv, Tick
  PROVE  IndInv'
<1>. USE DurationFacts, LoadFacts
<1>1. Types'
  <2>1. job' \in Job
    <3>1. ASSUME NEW a \in Nat, NEW h \in Nat PROVE [job EXCEPT !.age = a, !.held = h] \in Job
      BY DEF IndInv, Types, Job
    <3>2. job \in Job /\ job.age + 1 \in Nat /\ job.held + 1 \in Nat
      BY DEF IndInv, Types, Job
    <3>3. [job EXCEPT !.age = job.age + 1, !.held = job.held + 1] \in Job
      BY <3>1, <3>2
    <3>. QED  BY <3>2, <3>3 DEF Tick
  <2>2. req' \in Req
    <3>1. ASSUME NEW r \in Nat, NEW c \in Nat PROVE [req EXCEPT !.read = r, !.ctx = c] \in Req
      BY DEF IndInv, Types, Req
    <3>2. /\ req.read \in Nat /\ req.read + 1 \in Nat
          /\ req.ctx \in Nat /\ req.ctx + 1 \in Nat
      BY DEF IndInv, Types, Req
    <3>. DEFINE r == IF req.at \in {"header", "body"} THEN req.read + 1 ELSE req.read
                c == IF req.at \in {"body", "store"} THEN req.ctx + 1 ELSE req.ctx
    <3>3. r \in Nat /\ c \in Nat
      BY <3>2
    <3>4. req' = [req EXCEPT !.read = r, !.ctx = c]
      BY DEF Tick
    <3>. QED  BY <3>1, <3>3, <3>4
  <2>. QED  BY <2>1, <2>2 DEF IndInv, Types, Tick, process
<1>2. JobTimes'
  BY DEF IndInv, Types, JobTimes, Tick, process, Job, JobMayWait, CallTimeout
<1>3. RequestTimes'
  BY DEF IndInv, Types, RequestTimes, Tick, process, Req, RequestMayWait
<1>4. Order'
  BY DEF IndInv, Types, Order, Tick, process, Job, Req, Stages, Starting, Stopping, StopMayWait
<1>5. StopTimes'
  <2>1. /\ cfg' = cfg /\ stage' = stage /\ pool' = pool /\ Deadline' = Deadline
        /\ Deadline \in Nat
    BY DeadlineFacts DEF IndInv, Types, Tick, process, Deadline
  <2>2. /\ job'.at = job.at
        /\ job.at # "idle" => job'.age = job.age + 1
        /\ job.age \in Nat /\ job.at \in {"idle", "fetch", "work", "ack", "tail"}
    BY DEF IndInv, Types, Tick, Job
  <2>3. CASE stage \in {"unready", "shutdown", "join"}
    BY <2>1, <2>2, <2>3 DEF IndInv, Types, StopTimes, Tick, Stopping, StopMayWait, JobMayWait,
       Expired, Intake
  <2>4. CASE stage \in {"cancel", "release", "close"}
    <3>1. stage # "cancel" \/ job.at = "tail"
      BY <2>2, <2>4 DEF Tick, StopMayWait, JobMayWait, Done, Intake, Cancelled
    <3>2. stage # "close" /\ (stage = "release" => cleanup < CleanupTimeout)
      BY DEF Tick, StopMayWait
    <3>3. stopAge' = stopAge + 1 /\ (stage = "release" => cleanup' = cleanup + 1)
      BY <2>4 DEF Tick, Stopping
    <3>4. stopAge \in Nat /\ cleanup \in Nat /\ StopTimes
      BY DEF IndInv, Types
    <3>. HIDE DEF Deadline
    <3>. QED  BY <2>1, <2>2, <2>4, <3>1, <3>2, <3>3, <3>4 DEF StopTimes
  <2>5. CASE stage \in Starting \cup {"up", "exit"}
    BY <2>1, <2>5 DEF IndInv, Types, StopTimes, Tick, Starting, Stopping
  <2>. QED  BY <2>3, <2>4, <2>5 DEF IndInv, Types, Stages, Stopping
<1>. QED  BY <1>1, <1>2, <1>3, <1>4, <1>5 DEF IndInv

\* Every step, and every stuttering step, keeps the invariant.
LEMMA IndStep == IndInv /\ [Next]_vars => IndInv'
<1>1. ASSUME IndInv, Next PROVE IndInv'
  BY <1>1, StartInv, JobInv, RequestInv, StopInv, TickInv DEF Next
<1>2. ASSUME IndInv, UNCHANGED vars PROVE IndInv'
  BY <1>2 DEF IndInv, Types, JobTimes, RequestTimes, Order, StopTimes, Deadline, vars, process
<1>. QED  BY <1>1, <1>2

-----------------------------------------------------------------------------
(* The theorems. *)

\* The times that a job, a request and a stop have taken at each of their calls stay
\* within IndInv, for every configuration that Load accepts.
THEOREM TimesCorrect == Spec => []IndInv
<1>. QED  BY InitInv, IndStep, PTL DEF Spec

\* No job outlives its claim: the margin that Load adds to PROCESS_TIMEOUT covers the
\* claim, the acknowledgement and the cleanup around the work.
THEOREM HoldCorrect == Spec => []HoldCoversWork
<1>1. IndInv => HoldCoversWork
  BY DurationFacts, DeadlineFacts DEF IndInv, Types, JobTimes, HoldCoversWork, Job
<1>. QED  BY <1>1, TimesCorrect, PTL

\* No job and no transaction of a handler meets a pool that OnStop has closed.
THEOREM PoolCorrect == Spec => []PoolClosedLast
<1>1. IndInv => PoolClosedLast
  BY DEF IndInv, Order, PoolClosedLast
<1>. QED  BY <1>1, TimesCorrect, PTL

\* A stop whose deadline leaves room for one cleanup ends with its jobs over and its
\* pool closed.
THEOREM OrderlyCorrect == Spec => []StopIsOrderly
<1>1. IndInv => StopIsOrderly
  BY DEF IndInv, Order, StopTimes, StopIsOrderly
<1>. QED  BY <1>1, TimesCorrect, PTL

\* Server.Close and cancelWork come after everything that was under way when the stop
\* began has had all of its PROCESS_TIMEOUT.
THEOREM DrainCorrect == Spec => DrainCutsNothing
<1>. DEFINE Gentle == cfg.process < StopTimeout =>
                        /\ ~Cut /\ Cut' => ~(req.at = "store" /\ req.ctx >= stopAge)
                        /\ ~Cancelled /\ Cancelled' => job.at # "work"
<1>1. ASSUME IndInv, Next, cfg.process < StopTimeout, ~Cut, Cut'
      PROVE  ~(req.at = "store" /\ req.ctx >= stopAge)
  <2>. SUFFICES ASSUME req.at = "store" PROVE req.ctx < stopAge
    BY <1>1 DEF IndInv, Types, Req
  <2>1. stage \in {"up", "unready", "shutdown"} /\ stage' \notin {"up", "unready", "shutdown"}
    BY <1>1 DEF Cut
  <2>2. ShutdownReturns \/ StopTimedOut
    BY <1>1, <2>1 DEF Next, Ping, OnStart, Serve, BeginStop, JobStep, Claim, Claimed, Receive,
       EndJob, Acknowledge, Tidy, RequestStep, Accept, Handle, CallStore, EndRequest, StopStep,
       Shutdown, Join, CancelWork, JoinCancelled, Cancelled, ReleaseClaims, ClosePool, Restart,
       Tick, process
  <2>3. stopAge >= Deadline \/ stopAge = StopTimeout
    BY <2>2 DEF ShutdownReturns, StopTimedOut, Expired
  <2>4. req.ctx <= cfg.process /\ req.ctx \in Nat /\ stopAge \in Nat
    BY <1>1 DEF IndInv, Types, RequestTimes, Req
  <2>. QED  BY <1>1, <2>3, <2>4, DeadlineFacts, DurationFacts DEF IndInv, Types
<1>2. ASSUME IndInv, Next, cfg.process < StopTimeout, ~Cancelled, Cancelled'
      PROVE  job.at # "work"
  <2>1. CancelWork
    BY <1>2 DEF Next, Ping, OnStart, Serve, BeginStop, JobStep, Claim, Claimed, Receive,
       EndJob, Acknowledge, Tidy, RequestStep, Accept, Handle, CallStore, EndRequest, StopStep,
       Shutdown, ShutdownReturns, Join, JoinCancelled, Cancelled, ReleaseClaims, ClosePool,
       StopTimedOut, Restart, Fresh, Tick, process
  <2>2. stage = "join" /\ stopAge >= Deadline
    BY <2>1 DEF CancelWork, Expired
  <2>3. job.at = "work" => stopAge <= job.age /\ job.age <= cfg.process
    BY <1>2, <2>2 DEF IndInv, StopTimes, JobTimes
  <2>. QED  BY <1>2, <2>2, <2>3, DeadlineFacts, DurationFacts DEF IndInv, Types, Job
<1>3. IndInv /\ [Next]_vars => [Gentle]_vars
  BY <1>1, <1>2
<1>. QED  BY <1>3, TimesCorrect, PTL DEF Spec, DrainCutsNothing
=============================================================================

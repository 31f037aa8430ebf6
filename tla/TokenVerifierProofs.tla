------------------------ MODULE TokenVerifierProofs -------------------------
(***************************************************************************)
(* Proofs about TokenVerifier, for any number of callers and keys and any  *)
(* TTL, timeout, number of rotations and of faults.                        *)
(*                                                                         *)
(* The inductive invariant IndInv bounds the age of what a response and    *)
(* the cache hold: a response under way was current when its request had   *)
(* begun (Arriving), and the cache was loaded from such a response         *)
(* (Current).  Both need that only the holder of the mutex is in refresh   *)
(* (Exclusive), as all calls share the response and the cache.             *)
(***************************************************************************)
EXTENDS TokenVerifier, TLAPS

Types ==
  /\ published \subseteq Kids
  /\ withdrawn \in [Kids -> Nat]
  /\ keys \subseteq Kids /\ doc \subseteq Kids
  /\ loaded \in Nat /\ attempt \in Nat /\ spent \in Nat
  /\ mu \in All \cup {Nobody}
  /\ at \in [All -> Fetching \cup {"idle", "wait"}]
  /\ kid \in [All -> Kids]
  /\ verdict \in [All -> {"none", "accepted", "refused"}]

\* A call is in refresh only while it holds the mutex.
Exclusive == \A c \in All : at[c] \in Fetching => mu = c

\* What is published has not been withdrawn.
Offered == \A k \in published : withdrawn[k] = 0

\* No request takes longer than the timeout of the client; what its response holds was
\* published after it had begun.
Arriving ==
  /\ spent <= GetTimeout
  /\ \A c \in All : at[c] = "arriving" => \A k \in doc : withdrawn[k] <= spent

\* What the cache holds was published, at most one request before it was loaded.
Current == loaded < TTL => \A k \in keys : withdrawn[k] <= loaded + GetTimeout

IndInv == Types /\ Exclusive /\ Offered /\ Arriving /\ Current

-----------------------------------------------------------------------------
(* The inductive step. *)

\* The process starts with nothing in the cache.
LEMMA InitInv == Init => IndInv
<1>. SUFFICES ASSUME Init PROVE IndInv
  OBVIOUS
<1>. USE TimesAssumption, CallersAssumption
<1>1. (CHOOSE k \in Kids : TRUE) \in Kids
  BY DEF Init
<1>2. Types
  BY <1>1 DEF Init, Types, All, Fetching, Tolerance
<1>3. Exclusive /\ Offered /\ Arriving /\ Current
  BY DEF Init, Exclusive, Offered, Arriving, Current, Fetching
<1>. QED  BY <1>2, <1>3 DEF IndInv

\* A call begins, and finds its key or takes the mutex for a refresh.
LEMMA LookupInv ==
  ASSUME IndInv, NEW c \in Callers, (\E k \in Kids : Validate(c, k)) \/ Lock(c)
  PROVE  IndInv'
<1>. USE TimesAssumption DEF IndInv, Lock, idp, cache, All
<1>1. /\ UNCHANGED <<published, withdrawn, keys, loaded, doc>>
      /\ spent' = spent \/ spent' = 0
      /\ attempt' = attempt \/ attempt' = 0
  BY DEF Validate, Key, Refresh
<1>2. /\ at' \in [All -> Fetching \cup {"idle", "wait"}]
      /\ kid' \in [All -> Kids] /\ verdict' \in [All -> {"none", "accepted", "refused"}]
      /\ mu' \in All \cup {Nobody}
  <2>1. CASE \E k \in Kids : Validate(c, k)
    BY <2>1 DEF Validate, Types
  <2>2. CASE Key(c)
    BY <2>2 DEF Key, Types, Return
  <2>3. CASE Refresh(c)
    BY <2>3 DEF Refresh, Types, Fetching
  <2>. QED  BY <2>1, <2>2, <2>3
<1>3. Exclusive'
  <2>1. CASE (\E k \in Kids : Validate(c, k)) \/ Key(c)
    BY <2>1 DEF Validate, Key, Types, Fetching, Return, Exclusive
  <2>2. CASE Refresh(c)
    BY <2>2, CallersAssumption DEF Refresh, Types, Fetching, Exclusive
  <2>. QED  BY <2>1, <2>2
<1>4. \/ mu' = mu /\ spent' = spent
      \/ mu' = c /\ mu = Nobody /\ at'[c] = "discovery"
  BY DEF Validate, Key, Refresh, Types
<1>5. \A d \in All : at'[d] = "arriving" => at[d] = "arriving" /\ mu' = mu /\ spent' = spent
  BY <1>4, CallersAssumption DEF Validate, Key, Refresh, Types, Fetching, Return, Exclusive
<1>6. Arriving'
  BY <1>1, <1>5 DEF Arriving, Types
<1>. QED  BY <1>1, <1>2, <1>3, <1>6 DEF Types, Offered, Current

\* The process is started again, and all of its calls are gone.
LEMMA FreshInv ==
  ASSUME IndInv, Fresh, UNCHANGED idp
  PROVE  IndInv'
<1>. USE TimesAssumption, CallersAssumption DEF IndInv, Fresh, idp
<1>1. Types'
  BY DEF Types, All, Fetching
<1>2. Exclusive' /\ Offered' /\ Arriving' /\ Current'
  BY DEF Types, Exclusive, Offered, Arriving, Current, Fetching
<1>. QED  BY <1>1, <1>2

\* The end of a call that holds the mutex, whatever it leaves in the cache.
LEMMA UnlockInv ==
  ASSUME IndInv, NEW c \in All, at[c] \in Fetching,
         NEW v \in {"accepted", "refused"}, Unlock(c, v),
         UNCHANGED <<published, withdrawn, attempt, kid>>,
         \/ UNCHANGED <<keys, loaded>>
         \/ at[c] = "arriving" /\ keys' = doc /\ loaded' = 0
  PROVE  IndInv'
<1>. USE TimesAssumption, CallersAssumption DEF IndInv, Unlock, Return
<1>1. Types'
  BY DEF Types, All, Fetching
<1>2. \A d \in All : at'[d] \notin Fetching
  BY DEF Types, Exclusive, Fetching
<1>3. Exclusive' /\ Offered'
  BY <1>2 DEF Exclusive, Offered
<1>4. Arriving'
  BY <1>2 DEF Arriving, Fetching
<1>5. Current'
  BY DEF Types, Arriving, Current
<1>. QED  BY <1>1, <1>3, <1>4, <1>5

\* The steps of refresh.
LEMMA FetchInv ==
  ASSUME IndInv, NEW c \in All, FetchStep(c) \/ GetFails(c)
  PROVE  IndInv'
<1>. USE TimesAssumption, CallersAssumption
<1>1. CASE Discover(c)
  <2>1. Types'
    BY <1>1 DEF IndInv, Types, Discover, idp, cache, Fetching
  <2>2. \A d \in All : at'[d] # "arriving"
    BY <1>1 DEF IndInv, Types, Discover, Exclusive, Fetching
  <2>3. Exclusive' /\ Offered' /\ Arriving' /\ Current'
    BY <1>1, <2>2 DEF IndInv, Types, Discover, idp, cache, Exclusive, Offered, Arriving, Current,
       Fetching
  <2>. QED  BY <2>1, <2>3 DEF IndInv
<1>2. CASE Serve(c)
  <2>1. Types'
    BY <1>2 DEF IndInv, Types, Serve, idp, cache, Fetching
  <2>2. Exclusive' /\ Offered' /\ Current'
    BY <1>2 DEF IndInv, Types, Serve, idp, cache, Exclusive, Offered, Current, Fetching
  <2>3. Arriving'
    BY <1>2 DEF IndInv, Types, Serve, idp, Offered, Arriving
  <2>. QED  BY <2>1, <2>2, <2>3 DEF IndInv
<1>3. CASE Load(c)
  BY <1>3, FreshInv, UnlockInv DEF Load, idp, cache, Fetching
<1>4. CASE GetFails(c)
  BY <1>4, FreshInv, UnlockInv DEF GetFails, idp, cache
<1>. QED  BY <1>1, <1>2, <1>3, <1>4 DEF FetchStep

\* The provider rotates its keys.
LEMMA RotateInv ==
  ASSUME IndInv, NEW S \in SUBSET Kids, Rotate(S)
  PROVE  IndInv'
<1>. USE TimesAssumption DEF IndInv, Rotate, cache
<1>1. /\ withdrawn' \in [Kids -> Nat]
      /\ \A k \in Kids : withdrawn'[k] = withdrawn[k] \/ withdrawn'[k] = 0
      /\ \A k \in S : withdrawn'[k] = 0
  BY DEF Types
<1>2. Types'
  BY <1>1 DEF Types
<1>3. Exclusive' /\ Offered'
  BY <1>1 DEF Exclusive, Offered
<1>4. Arriving' /\ Current'
  BY <1>1 DEF Types, Arriving, Current
<1>. QED  BY <1>2, <1>3, <1>4

\* What a capped age is a second later.
LEMMA OlderFacts ==
  ASSUME NEW n \in Nat, NEW cap \in Nat
  PROVE  /\ Older(n, cap) \in Nat /\ Older(n, cap) <= n + 1
         /\ Older(n, cap) < cap => Older(n, cap) = n + 1
BY DEF Older

\* A second passes for everyone: nothing is older by more than it.
LEMMA TickInv ==
  ASSUME IndInv, Tick
  PROVE  IndInv'
<1>. USE TimesAssumption DEF IndInv, Tick
<1>1. /\ withdrawn' \in [Kids -> Nat]
      /\ \A k \in Kids : withdrawn'[k] <= withdrawn[k] + 1
      /\ \A k \in published : withdrawn'[k] = 0
  <2>1. \A n \in Nat : Older(n, Tolerance + 1) \in Nat /\ Older(n, Tolerance + 1) <= n + 1
    <3>1. Tolerance + 1 \in Nat
      BY DEF Tolerance
    <3>. QED  BY <3>1, OlderFacts
  <2>. QED  BY <2>1 DEF Types
<1>2. /\ loaded' \in Nat /\ attempt' \in Nat /\ spent' \in Nat
      /\ loaded' < TTL => loaded' = loaded + 1
  <2>1. /\ Older(loaded, TTL) \in Nat /\ Older(attempt, 1) \in Nat
        /\ Older(loaded, TTL) < TTL => Older(loaded, TTL) = loaded + 1
    BY OlderFacts DEF Types
  <2>2. spent' \in Nat
    BY DEF Types, Busy
  <2>. QED  BY <2>1, <2>2 DEF Types
<1>3. Types'
  BY <1>1, <1>2 DEF Types
<1>4. Exclusive' /\ Offered'
  BY <1>1 DEF Exclusive, Offered
<1>5. \A c \in All : at[c] = "arriving" => spent' = spent + 1
  BY CallersAssumption DEF Exclusive, Fetching, Busy, All
<1>6. Arriving'
  BY <1>1, <1>5 DEF Types, Arriving, Busy
<1>7. Current'
  BY <1>1, <1>2 DEF Types, Current
<1>. QED  BY <1>3, <1>4, <1>6, <1>7

\* Every step, and every stuttering step, keeps the invariant.
LEMMA IndStep == IndInv /\ [Next]_vars => IndInv'
<1>1. ASSUME IndInv, Next PROVE IndInv'
  BY <1>1, LookupInv, FetchInv, RotateInv, TickInv, FreshInv DEF Next, Crash
<1>2. ASSUME IndInv, UNCHANGED vars PROVE IndInv'
  BY <1>2 DEF IndInv, Types, Exclusive, Offered, Arriving, Current, vars, idp, cache
<1>. QED  BY <1>1, <1>2

-----------------------------------------------------------------------------
(* The theorems. *)

\* What refresh has read and what it has cached is never older than IndInv says.
THEOREM CacheCorrect == Spec => []IndInv
<1>. QED  BY InitInv, IndStep, PTL DEF Spec

\* Validate accepts no token whose key was withdrawn longer ago than the TTL and the time
\* of one request.
THEOREM AcceptCorrect == Spec => NoStaleKey
<1>. DEFINE Accepts(c) == verdict[c] # "accepted" /\ verdict'[c] = "accepted"
<1>1. ASSUME IndInv, Next, NEW c \in Callers, Accepts(c)
      PROVE  \/ Cached(kid[c])
             \/ at[c] = "arriving" /\ kid[c] \in doc
  <2>1. \A d \in All, v \in {"accepted", "refused"} :
          Return(d, v) => d = c /\ v = "accepted"
    BY <1>1 DEF Return, IndInv, Types, All
  <2>2. ~Fresh
    BY <1>1 DEF Fresh, All
  <2>3. ASSUME NEW d \in Callers, NEW k \in Kids, Validate(d, k) PROVE FALSE
    BY <1>1, <2>3 DEF Validate, IndInv, Types, All
  <2>4. ASSUME NEW d \in Callers, Lock(d) PROVE Cached(kid[c])
    BY <1>1, <2>1, <2>4 DEF Lock, Key, Refresh, All
  <2>5. ASSUME NEW d \in All, FetchStep(d) PROVE at[c] = "arriving" /\ kid[c] \in doc
    BY <1>1, <2>1, <2>2, <2>5 DEF FetchStep, Discover, Serve, Load, Unlock
  <2>6. ASSUME NEW d \in All, GetFails(d) PROVE FALSE
    BY <1>1, <2>1, <2>2, <2>6 DEF GetFails, Unlock
  <2>7. ~Tick /\ \A S \in SUBSET Kids : ~Rotate(S)
    BY <1>1 DEF Tick, Rotate
  <2>. QED  BY <1>1, <2>2, <2>3, <2>4, <2>5, <2>6, <2>7 DEF Next, Crash
<1>2. ASSUME IndInv, Next, NEW c \in Callers, Accepts(c)
      PROVE  withdrawn[kid[c]] <= Tolerance
  BY <1>1, <1>2, TimesAssumption DEF IndInv, Types, Arriving, Current, Cached, Tolerance, All
<1>3. IndInv /\ [Next]_vars =>
        [\A c \in Callers : Accepts(c) => withdrawn[kid[c]] <= Tolerance]_vars
  BY <1>2
<1>. QED  BY <1>3, CacheCorrect, PTL DEF Spec, NoStaleKey
=============================================================================

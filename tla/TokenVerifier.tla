--------------------------- MODULE TokenVerifier ----------------------------
(***************************************************************************)
(* The cache of signing keys of auth.Verifier (oidc.go): Check at the      *)
(* start, key and refresh for every token.  One mutex is held from the     *)
(* lookup to the end of a refresh, across both of its HTTP requests.       *)
(*                                                                         *)
(* The identity provider is external: it publishes a set of usable keys,   *)
(* and rotates it.  A token is the id of the key that signed it; the other *)
(* checks of a token do not depend on any state.  Time passes in seconds;  *)
(* points in time are kept as ages.                                        *)
(***************************************************************************)
EXTENDS Naturals, FiniteSets

CONSTANTS
  Callers,       \* concurrent calls of Validate
  Boot,          \* the call of Check in OnStart
  Nobody,        \* no one
  Kids,          \* key ids
  TTL,           \* CacheTTL in seconds
  GetTimeout,    \* client.Timeout: what one request may take
  MaxRotations,
  MaxFaults      \* bounds failed requests, cancelled calls and kills

ASSUME CallersAssumption == Boot \notin Callers /\ Nobody \notin Callers \cup {Boot}
ASSUME TimesAssumption == {TTL, GetTimeout} \subseteq Nat \ {0}
ASSUME BoundsAssumption == {MaxRotations, MaxFaults} \subseteq Nat

VARIABLES
  published,   \* the keys the provider publishes
  withdrawn,   \* the age of the last moment each key was published, capped
  keys,        \* v.keys
  loaded,      \* the age of v.loadedAt
  attempt,     \* the age of v.lastAttempt
  mu,          \* who holds the mutex
  at,          \* where a call is
  kid,         \* the key id of its token
  doc,         \* the key set in the response under way
  spent,       \* the time the request under way has taken
  verdict,     \* how the last call of each caller ended
  up,          \* Check has succeeded
  rotations, faults

idp == <<published, withdrawn, rotations>>
cache == <<keys, loaded>>
vars == <<idp, cache, attempt, mu, at, kid, doc, spent, verdict, up, faults>>

All == Callers \cup {Boot}
Fetching == {"discovery", "jwks", "arriving"}
\* A key may be accepted for as long as this after it was withdrawn.
Tolerance == TTL + GetTimeout
Older(age, cap) == IF age < cap THEN age + 1 ELSE cap

\* The process starts with an empty cache, and Check begins.
Fresh ==
  /\ keys' = {} /\ loaded' = TTL /\ attempt' = 0
  /\ mu' = Boot /\ up' = FALSE
  /\ at' = [c \in All |-> IF c = Boot THEN "discovery" ELSE "idle"]
  /\ kid' = kid /\ doc' = {} /\ spent' = 0
  /\ verdict' = [c \in All |-> "none"]

Init ==
  /\ published \in {{k} : k \in Kids}
  /\ withdrawn = [k \in Kids |-> IF k \in published THEN 0 ELSE Tolerance + 1]
  /\ rotations = MaxRotations /\ faults = MaxFaults
  /\ keys = {} /\ loaded = TTL /\ attempt = 0
  /\ mu = Boot /\ up = FALSE
  /\ at = [c \in All |-> IF c = Boot THEN "discovery" ELSE "idle"]
  /\ kid = [c \in All |-> CHOOSE k \in Kids : TRUE] /\ doc = {} /\ spent = 0
  /\ verdict = [c \in All |-> "none"]

(***************************************************************************)
(* Validate and key.                                                       *)
(***************************************************************************)
Validate(c, k) ==
  /\ up /\ at[c] = "idle"
  /\ at' = [at EXCEPT ![c] = "wait"]
  /\ kid' = [kid EXCEPT ![c] = k]
  /\ verdict' = [verdict EXCEPT ![c] = "none"]
  /\ UNCHANGED <<idp, cache, attempt, mu, doc, spent, up, faults>>

Return(c, v) ==
  /\ at' = [at EXCEPT ![c] = "idle"]
  /\ verdict' = [verdict EXCEPT ![c] = v]

Cached(k) == k \in keys /\ loaded < TTL

\* Mutant: only a key that was known before is looked for again.
MayRefreshKnown(k) == attempt >= 1 /\ k \in keys

\* An attempt at most every second, for whatever key.
MayRefresh(k) == attempt >= 1

\* A good key is accepted at once; a refresh that would come too early is refused.
Key(c) ==
  /\ at[c] = "wait" /\ mu = Nobody
  /\ Cached(kid[c]) \/ ~MayRefresh(kid[c])
  /\ Return(c, IF Cached(kid[c]) THEN "accepted" ELSE "refused")
  /\ UNCHANGED <<idp, cache, attempt, mu, kid, doc, spent, up, faults>>

\* Any other token starts a refresh: the time of the attempt is taken first.
Refresh(c) ==
  /\ at[c] = "wait" /\ mu = Nobody
  /\ ~Cached(kid[c]) /\ MayRefresh(kid[c])
  /\ mu' = c /\ at' = [at EXCEPT ![c] = "discovery"]
  /\ attempt' = 0 /\ spent' = 0
  /\ UNCHANGED <<idp, cache, kid, doc, verdict, up, faults>>

(***************************************************************************)
(* refresh.                                                                *)
(***************************************************************************)
\* The discovery document is read and the request for the keys goes out.
Discover(c) ==
  /\ at[c] = "discovery"
  /\ at' = [at EXCEPT ![c] = "jwks"] /\ spent' = 0
  /\ UNCHANGED <<idp, cache, attempt, mu, kid, doc, verdict, up, faults>>

\* The provider answers with the keys it publishes at this moment.
Serve(c) ==
  /\ at[c] = "jwks"
  /\ at' = [at EXCEPT ![c] = "arriving"] /\ doc' = published
  /\ UNCHANGED <<idp, cache, attempt, mu, kid, spent, verdict, up, faults>>

\* The end of a call that holds the mutex.  When Check fails the process ends, and is
\* started again.
Unlock(c, v) == /\ mu' = Nobody /\ Return(c, v) /\ doc' = {} /\ spent' = 0

\* Mutant: a document without a usable key is asked for again, without leaving.
LoadRetrying(c) ==
  /\ at[c] = "arriving"
  /\ IF doc = {}
     THEN /\ at' = [at EXCEPT ![c] = "discovery"] /\ spent' = 0
          /\ UNCHANGED <<cache, attempt, mu, kid, doc, verdict, up>>
     ELSE /\ keys' = doc /\ loaded' = 0 /\ up' = TRUE
          /\ Unlock(c, IF kid[c] \in doc THEN "accepted" ELSE "refused")
          /\ UNCHANGED <<attempt, kid>>
  /\ UNCHANGED <<idp, faults>>

\* A document without a usable key is an error that leaves the cache as it is.
Load(c) ==
  /\ at[c] = "arriving"
  /\ IF doc = {}
     THEN IF c = Boot THEN Fresh
          ELSE Unlock(c, "refused") /\ UNCHANGED <<cache, attempt, kid, up>>
     ELSE /\ keys' = doc /\ loaded' = 0
          /\ Unlock(c, IF kid[c] \in doc THEN "accepted" ELSE "refused")
          /\ up' = TRUE
          /\ UNCHANGED <<attempt, kid>>
  /\ UNCHANGED <<idp, faults>>

\* Mutant: what is cached is good for another TTL when the provider cannot be reached.
RenewOnFailure(c) ==
  /\ at[c] \in Fetching /\ faults > 0 /\ faults' = faults - 1
  /\ IF c = Boot THEN Fresh
     ELSE /\ Unlock(c, "refused") /\ loaded' = 0
          /\ UNCHANGED <<keys, attempt, kid, up>>
  /\ UNCHANGED idp

\* A request fails, takes too long or returns a document that is refused (another
\* issuer, a foreign location, a duplicate key id), or the call is cancelled.
GetFails(c) ==
  /\ at[c] \in Fetching /\ faults > 0 /\ faults' = faults - 1
  /\ IF c = Boot THEN Fresh
     ELSE Unlock(c, "refused") /\ UNCHANGED <<cache, attempt, kid, up>>
  /\ UNCHANGED idp

(***************************************************************************)
(* The provider, the process and time.                                     *)
(***************************************************************************)
Rotate(S) ==
  /\ rotations > 0 /\ rotations' = rotations - 1
  /\ published' = S /\ S # published
  /\ withdrawn' = [k \in Kids |-> IF k \in S THEN 0 ELSE withdrawn[k]]
  /\ UNCHANGED <<cache, attempt, mu, at, kid, doc, spent, verdict, up, faults>>

Crash ==
  /\ faults > 0 /\ faults' = faults - 1
  /\ Fresh /\ UNCHANGED idp

Busy == mu # Nobody

\* A request that has used up its time has ended before the next second.
Tick ==
  /\ Busy => spent < GetTimeout
  /\ spent' = IF Busy THEN spent + 1 ELSE 0
  /\ loaded' = Older(loaded, TTL)
  /\ attempt' = Older(attempt, 1)
  /\ withdrawn' = [k \in Kids |-> IF k \in published THEN 0
                                  ELSE Older(withdrawn[k], Tolerance + 1)]
  /\ UNCHANGED <<published, rotations, keys, mu, at, kid, doc, verdict, up, faults>>

FetchStep(c) == Discover(c) \/ Serve(c) \/ Load(c)
Lock(c) == Key(c) \/ Refresh(c)

Next ==
  \/ \E c \in Callers : (\E k \in Kids : Validate(c, k)) \/ Lock(c)
  \/ \E c \in All : FetchStep(c) \/ GetFails(c)
  \/ \E S \in SUBSET Kids : Rotate(S)
  \/ Crash \/ Tick

Spec == Init /\ [][Next]_vars

(***************************************************************************)
(* Fairness: requests end (by their timeout, if need be), time passes, and *)
(* a sync.Mutex does not pass over a waiter for ever.  Nobody is obliged   *)
(* to call.                                                                *)
(***************************************************************************)
Fairness ==
  /\ \A c \in All : WF_vars(FetchStep(c))
  /\ \A c \in Callers : SF_vars(Lock(c))
  /\ WF_vars(Tick)

FairSpec == Spec /\ Fairness

(***************************************************************************)
(* Properties.                                                             *)
(***************************************************************************)

\* A token is accepted only if its key was published, at the latest TTL and the time
\* of one request ago: failed refreshes, a slow response that was overtaken by a
\* rotation and races for the mutex never keep a withdrawn key alive for longer.
NoStaleKey ==
  [][\A c \in Callers : verdict[c] # "accepted" /\ verdict'[c] = "accepted" =>
       withdrawn[kid[c]] <= Tolerance]_vars

\* No call waits for the mutex for ever, also when the requests of others fail.
CallsAnswered == \A c \in Callers : at[c] = "wait" ~> at[c] = "idle"

\* A caller that keeps presenting tokens of a key that stays published is accepted
\* again and again: neither the spacing of attempts nor tokens with unknown keys nor
\* finitely many failures hold a rotated key back for ever.
KeysLearned ==
  \A c \in Callers, k \in Kids :
    <>[](k \in published) /\ []<>(kid[c] = k /\ at[c] = "wait") =>
      []<>(kid[c] = k /\ verdict[c] = "accepted")
=============================================================================

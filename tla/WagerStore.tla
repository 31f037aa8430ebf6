---------------------------- MODULE WagerStore -----------------------------
(***************************************************************************)
(* The financial core: Store.ProcessWager (a command over HTTP or SQS),    *)
(* Store.RetryReference (the loop that resolves commands that arrived      *)
(* before the one they refer to) and Store.CreateWallet, over PostgreSQL   *)
(* at READ COMMITTED.  Every SQL statement whose snapshot or lock another  *)
(* transaction can disturb is a step of its own; what a transaction writes *)
(* stays in its session until the step that commits it.                    *)
(*                                                                         *)
(* The state of a session p is its program counter pc[p], the request it   *)
(* serves (req), the wager it found, inserted or claimed (seen), the       *)
(* wallet as it was when locked (snap), the writes it has staged (out) and *)
(* the answer it will give (reply).                                        *)
(***************************************************************************)
EXTENDS WagerDomain

CONSTANTS
  Handlers,     \* goroutines that run ProcessWager, on any replica
  Resolvers,    \* goroutines that run RetryReference, on any replica
  Nobody,       \* no session
  Requests,     \* commands that may arrive, any of them any number of times
  MaxAttempts,  \* ReferenceMaxAttempts
  MaxFaults     \* bounds aborted transactions, late clocks and early expiries

Workers  == Handlers \cup Resolvers
Messages == {r.msg : r \in Requests} \ {""}
Request  == [cmd : Command, msg : Names, at : Nat]

ASSUME WorkersAssumption == Handlers \cap Resolvers = {} /\ Nobody \notin Workers
ASSUME RequestsAssumption == Requests \subseteq Request
ASSUME BoundsAssumption == MaxAttempts \in Nat \ {0} /\ MaxFaults \in Nat

VARIABLES
  wallet,   \* wallet rows: balance and version; version 0: no such row
  ledger,   \* wallet_ledger_entry rows of each wallet, in created_at order
  wager,    \* wager_transaction rows
  poll,     \* the reference_* columns of the wager rows
  inbox,    \* inbox rows: payload hash and wager; id 0: no such row
  outbox,   \* outbox rows of each wallet, in occurred_at order
  lock,     \* who holds SELECT ... FOR UPDATE on the wallet row
  pc, req, seen, snap, out, reply,
  faults    \* faults left to happen

db      == <<wallet, ledger, wager, poll, inbox, outbox>>
session == <<pc, req, seen, snap, out, reply>>
vars    == <<db, lock, session, faults>>

(***************************************************************************)
(* Types and initial values.                                               *)
(***************************************************************************)
Balance == [balance : Minor, version : Nat]
Entry   == [tx : TxIds, dir : {"DEBIT", "CREDIT"}, amount : Minor,
            before : Minor, after : Minor]
Event   == [type : Statuses \cup {"BALANCE"}, tx : TxIds, balance : Minor,
            version : Nat]
Poll    == [by : Resolvers \cup {Nobody}, live : BOOLEAN, due : BOOLEAN,
            attempts : Nat]
Out     == [row : Row, wallet : Balance, dir : Directions,
            events : Seq(Event)]
Errors  == {"", "INVALID_INPUT", "INVALID_KIND", "REFERENCE_REQUIRED", "NOT_FOUND",
            "PLAYER_MISMATCH", "INVALID_WAGER", "INVALID_WALLET", "UNAVAILABLE",
            "INBOX_MESSAGE_REUSED", "IDEMPOTENCY_KEY_REUSED",
            "EXTERNAL_TRANSACTION_ID_REUSED"}
Result  == [error : Errors, id : TxIds \cup {0}, status : Statuses,
            balance : Minor, version : Nat, code : Codes, replay : BOOLEAN]
Inbox   == [tx : TxIds \cup {0}, hash : [cmd : Command, at : Nat]]

HandlerStates  == {"reserve", "load", "find", "lock", "insert", "refind",
                   "replay", "apply", "commit", "reply"}
ResolverStates == {"rlock", "rselect", "rapply", "rcommit"}

NoRequest == [cmd |-> NoCommand, msg |-> "", at |-> 0]
NoPoll    == [by |-> Nobody, live |-> FALSE, due |-> FALSE, attempts |-> 0]
NoOut     == [row |-> NoRow, wallet |-> NoBalance, dir |-> "NONE", events |-> <<>>]
NoResult  == [error |-> "", id |-> 0, status |-> "NONE", balance |-> 0,
              version |-> 0, code |-> "", replay |-> FALSE]
NoInbox   == [tx |-> 0, hash |-> InboxHash(NoRequest)]

Init ==
  /\ wallet = [w \in Wallets |-> NoBalance]
  /\ ledger = [w \in Wallets |-> <<>>]
  /\ wager  = [t \in TxIds |-> NoRow]
  /\ poll   = [t \in TxIds |-> NoPoll]
  /\ inbox  = [m \in Messages |-> NoInbox]
  /\ outbox = [w \in Wallets |-> <<>>]
  /\ lock   = [w \in Wallets |-> Nobody]
  /\ pc     = [p \in Workers |-> "idle"]
  /\ req    = [p \in Workers |-> NoRequest]
  /\ seen   = [p \in Workers |-> NoSeen]
  /\ snap   = [p \in Workers |-> NoBalance]
  /\ out    = [p \in Workers |-> NoOut]
  /\ reply  = [p \in Workers |-> NoResult]
  /\ faults = MaxFaults

(***************************************************************************)
(* What a statement sees, and what it waits for.                           *)
(***************************************************************************)
Exists(t) == t \in Present(wager)

\* allocateID: a fresh uuidv7.
Free(t) == ~Exists(t) /\ \A q \in Workers : seen[q].id # t
FreshId == CHOOSE t \in TxIds : Free(t)

\* An uncommitted row is visible to its own transaction only.
View(p) == [t \in TxIds |-> IF t = seen[p].id THEN seen[p].row ELSE wager[t]]

\* The unique-index entries and the inbox rows that q has inserted and not
\* yet committed: another insert of the same key waits for q to end.
Inserted(q) == q \in Handlers /\ pc[q] \in {"apply", "commit"}
Reserved(q, m) ==
  /\ q \in Handlers /\ req[q].msg = m
  /\ pc[q] \in HandlerStates \ {"reserve", "load", "reply"}

\* The row that the wager of p refers to, as p sees it.
Reference(p) == ReferenceIn(View(p), seen[p].row.cmd)

\* Row locks on wager t: its writer's, and the FOR UPDATE that apply takes on
\* the reference when it is of the same wallet.
RowLocked(t) ==
  \E q \in Workers :
    \/ pc[q] \in {"rapply", "rcommit"} /\ seen[q].id = t
    \/ /\ pc[q] \in {"commit", "rcommit"}
       /\ Reference(q).id = t
       /\ wager[t].cmd.wallet = seen[q].row.cmd.wallet

Released(p) == [w \in Wallets |-> IF lock[w] = p THEN Nobody ELSE lock[w]]

(***************************************************************************)
(* Results and events.                                                     *)
(***************************************************************************)
Refusal(code) == [NoResult EXCEPT !.error = code]

\* resultOf: a terminal wager answers with the result it froze, any other with
\* the wallet as it is now.
ResultOf(id, row, w, replay) ==
  LET of == IF Terminal(row.status) THEN row ELSE w IN
  [error |-> "", id |-> id, status |-> row.status, balance |-> of.balance,
   version |-> of.version, code |-> row.code, replay |-> replay]

(***************************************************************************)
(* apply, up to the commit, and the commit.                                *)
(***************************************************************************)
Settle(p, expired) ==
  LET ref == Reference(p) IN
  Outcome(seen[p].id, seen[p].row, snap[p], ref, ReversedIn(View(p), ref.id), expired)

\* The writes of p become visible at once, and its locks go.
Install(p, attempts) ==
  LET id == seen[p].id
      o  == out[p]
      w  == o.row.cmd.wallet
  IN /\ wager'  = [wager EXCEPT ![id] = o.row]
     /\ wallet' = IF o.dir = "NONE" THEN wallet ELSE [wallet EXCEPT ![w] = o.wallet]
     /\ ledger' = IF o.dir = "NONE" THEN ledger
                  ELSE [ledger EXCEPT ![w] = Append(@, LedgerEntry(id, o, snap[p]))]
     /\ outbox' = [outbox EXCEPT ![w] = @ \o o.events]
     /\ poll'   = [poll EXCEPT ![id] = [NoPoll EXCEPT !.attempts = attempts]]
     /\ lock'   = Released(p)

(***************************************************************************)
(* CreateWallet: the wallet and, when it opens with money, the OPENING     *)
(* wager, its ledger entry and its events, in one transaction that shares  *)
(* no row with any other before it commits.                                *)
(***************************************************************************)
CreateWallet(w) ==
  LET a  == Accounts[w]
      id == FreshId
      o  == Opening(id, w)
  IN
  /\ wallet[w].version = 0
  /\ \A v \in Wallets : wallet[v].version > 0 =>
       <<Accounts[v].player, Accounts[v].currency>> # <<a.player, a.currency>>
  /\ wallet' = [wallet EXCEPT ![w] = o.wallet]
  /\ IF a.initial > 0
     THEN /\ \E t \in TxIds : Free(t)
          /\ wager'  = [wager EXCEPT ![id] = o.row]
          /\ ledger' = [ledger EXCEPT ![w] = Append(@, LedgerEntry(id, o, NoBalance))]
          /\ outbox' = [outbox EXCEPT ![w] = @ \o o.events]
     ELSE UNCHANGED <<wager, ledger, outbox>>
  /\ UNCHANGED <<poll, inbox, lock, session, faults>>

(***************************************************************************)
(* ProcessWager.                                                           *)
(***************************************************************************)
\* The transaction of p ends, without writes unless they are installed in the
\* same step, and ProcessWager returns r.
Return(p, r) ==
  /\ pc'    = [pc EXCEPT ![p] = "reply"]
  /\ reply' = [reply EXCEPT ![p] = r]
  /\ seen'  = [seen EXCEPT ![p] = NoSeen]
  /\ snap'  = [snap EXCEPT ![p] = NoBalance]
  /\ out'   = [out EXCEPT ![p] = NoOut]
  /\ UNCHANGED req

Refuse(p, code) == Return(p, Refusal(code)) /\ lock' = Released(p)

\* NormalizeCommand and Begin.
ProcessWager(p, r) ==
  LET bad == NormalizeCommand(r.cmd) IN
  /\ pc[p] = "idle"
  /\ req' = [req EXCEPT ![p] = r]
  /\ pc'  = [pc EXCEPT ![p] = IF bad # "" THEN "reply"
                              ELSE IF r.msg = "" THEN "find" ELSE "reserve"]
  /\ reply' = [reply EXCEPT ![p] = Refusal(bad)]
  /\ UNCHANGED <<db, lock, seen, snap, out, faults>>

\* Mutant: the stored hash of a known message is not compared.
ReserveUnhashed(p) ==
  /\ pc[p] = "reserve"
  /\ \A q \in Handlers \ {p} : inbox[req[p].msg].tx = 0 => ~Reserved(q, req[p].msg)
  /\ pc' = [pc EXCEPT ![p] = IF inbox[req[p].msg].tx = 0 THEN "find" ELSE "load"]
  /\ UNCHANGED <<db, lock, req, seen, snap, out, reply, faults>>

\* Mutant: ON CONFLICT DO UPDATE, so a reused message takes the new hash.
ReserveUpserting(p) ==
  LET m == req[p].msg IN
  /\ pc[p] = "reserve"
  /\ \A q \in Handlers \ {p} : inbox[m].tx = 0 => ~Reserved(q, m)
  /\ pc' = [pc EXCEPT ![p] = IF inbox[m].tx = 0 THEN "find" ELSE "load"]
  /\ inbox' = [inbox EXCEPT ![m].hash = InboxHash(req[p])]
  /\ UNCHANGED <<wallet, ledger, wager, poll, outbox, lock, req, seen, snap, out, reply,
                 faults>>

\* reserveInbox: INSERT ... ON CONFLICT DO NOTHING waits for a transaction that
\* inserted the same message, then inserts or reads the committed row.
ReserveInbox(p) ==
  LET m == req[p].msg IN
  /\ pc[p] = "reserve"
  /\ \A q \in Handlers \ {p} : inbox[m].tx = 0 => ~Reserved(q, m)
  /\ \/ /\ inbox[m].tx = 0
        /\ pc' = [pc EXCEPT ![p] = "find"]
        /\ UNCHANGED <<lock, req, seen, snap, out, reply>>
     \/ /\ inbox[m].tx # 0
        /\ inbox[m].hash = InboxHash(req[p])
        /\ pc' = [pc EXCEPT ![p] = "load"]
        /\ UNCHANGED <<lock, req, seen, snap, out, reply>>
     \/ /\ inbox[m].tx # 0
        /\ inbox[m].hash # InboxHash(req[p])
        /\ Refuse(p, "INBOX_MESSAGE_REUSED")
  /\ UNCHANGED <<db, faults>>

\* The wager of a message already processed, for its own provider only.
LoadInboxWager(p) ==
  LET t == inbox[req[p].msg].tx IN
  /\ pc[p] = "load"
  /\ IF wager[t].cmd.provider # req[p].cmd.provider
     THEN Refuse(p, "INBOX_MESSAGE_REUSED")
     ELSE /\ seen' = [seen EXCEPT ![p] = [id |-> t, row |-> wager[t]]]
          /\ pc' = [pc EXCEPT ![p] = "replay"]
          /\ UNCHANGED <<lock, req, snap, out, reply>>
  /\ UNCHANGED <<db, faults>>

\* findIdentity: one statement looks up both business identities and prefers
\* the idempotency key.  It runs before the wallet is locked, and again when
\* the insert met a conflict; there a miss would be UNAVAILABLE, which
\* ConflictIsVisible shows not to happen.
FindIdentity(p) ==
  LET c    == req[p].cmd
      hits == IF ByKey(wager, c) # {} THEN ByKey(wager, c) ELSE ByExt(wager, c)
      t    == CHOOSE t \in hits : TRUE
  IN
  /\ pc[p] \in {"find", "refind"}
  /\ \/ /\ hits = {} /\ pc[p] = "find"
        /\ pc' = [pc EXCEPT ![p] = "lock"]
        /\ UNCHANGED <<lock, req, seen, snap, out, reply>>
     \/ /\ hits # {} /\ wager[t].cmd.key # c.key
        /\ Refuse(p, "EXTERNAL_TRANSACTION_ID_REUSED")
     \/ /\ hits # {} /\ wager[t].cmd.key = c.key
        /\ PayloadHash(wager[t].cmd) # PayloadHash(c)
        /\ Refuse(p, "IDEMPOTENCY_KEY_REUSED")
     \/ /\ hits # {} /\ wager[t].cmd.key = c.key
        /\ PayloadHash(wager[t].cmd) = PayloadHash(c)
        /\ seen' = [seen EXCEPT ![p] = [id |-> t, row |-> wager[t]]]
        /\ pc' = [pc EXCEPT ![p] = "replay"]
        /\ UNCHANGED <<lock, req, snap, out, reply>>
  /\ UNCHANGED <<db, faults>>

\* commitReplay, and the same end of an inbox replay: the wallet is read after
\* the wager, by a later snapshot; an inbox row reserved here is completed.
CommitReplay(p) ==
  LET m == req[p].msg
      d == seen[p]
  IN
  /\ pc[p] = "replay"
  /\ inbox' = IF m = "" THEN inbox
              ELSE IF inbox[m].tx # 0 THEN inbox
              ELSE [inbox EXCEPT ![m] = [tx |-> d.id, hash |-> InboxHash(req[p])]]
  /\ lock' = Released(p)
  /\ Return(p, ResultOf(d.id, d.row, wallet[d.row.cmd.wallet], TRUE))
  /\ UNCHANGED <<wallet, ledger, wager, poll, outbox, faults>>

\* Mutant: the wallet is read without FOR UPDATE.
ReadWallet(p) ==
  /\ pc[p] = "lock" /\ wallet[req[p].cmd.wallet].version > 0
  /\ snap' = [snap EXCEPT ![p] = wallet[req[p].cmd.wallet]]
  /\ pc'   = [pc EXCEPT ![p] = "insert"]
  /\ UNCHANGED <<db, lock, req, seen, out, reply, faults>>

\* lockWallet, the checks on the locked wallet and NewWager.
LockWallet(p) ==
  LET c == req[p].cmd
      w == c.wallet
  IN
  /\ pc[p] = "lock"
  /\ \/ wallet[w].version = 0 /\ Refuse(p, "NOT_FOUND")
     \/ /\ wallet[w].version > 0 /\ lock[w] = Nobody
        /\ Accounts[w].player # c.player
        /\ Refuse(p, "PLAYER_MISMATCH")
     \/ /\ wallet[w].version > 0 /\ lock[w] = Nobody
        /\ Accounts[w].player = c.player /\ ~AcceptsReference(c)
        /\ Refuse(p, "INVALID_WAGER")
     \/ /\ wallet[w].version > 0 /\ lock[w] = Nobody
        /\ Accounts[w].player = c.player /\ AcceptsReference(c)
        /\ lock' = [lock EXCEPT ![w] = p]
        /\ snap' = [snap EXCEPT ![p] = wallet[w]]
        /\ pc'   = [pc EXCEPT ![p] = "insert"]
        /\ UNCHANGED <<req, seen, out, reply>>
  /\ UNCHANGED <<db, faults>>

\* Mutant: an insert that no unique index checks.
InsertUnchecked(p) ==
  /\ pc[p] = "insert" /\ \E t \in TxIds : Free(t)
  /\ seen' = [seen EXCEPT ![p] = [id |-> FreshId, row |-> NewRow(req[p].cmd, "PENDING")]]
  /\ pc'   = [pc EXCEPT ![p] = "apply"]
  /\ UNCHANGED <<db, lock, req, snap, out, reply, faults>>

\* Mutant: a conflict with an uncommitted row is reported without waiting for it.
InsertWithoutWaiting(p) ==
  LET c == req[p].cmd
      rivals == {q \in Handlers \ {p} : /\ Inserted(q)
                                        /\ \/ SameKey(seen[q].row.cmd, c)
                                           \/ SameExt(seen[q].row.cmd, c)}
  IN
  /\ pc[p] = "insert" /\ \E t \in TxIds : Free(t)
  /\ IF rivals \cup ByKey(wager, c) \cup ByExt(wager, c) # {}
     THEN pc' = [pc EXCEPT ![p] = "refind"] /\ UNCHANGED seen
     ELSE /\ seen' = [seen EXCEPT ![p] = [id |-> FreshId, row |-> NewRow(c, "PENDING")]]
          /\ pc' = [pc EXCEPT ![p] = "apply"]
  /\ UNCHANGED <<db, lock, req, snap, out, reply, faults>>

\* Mutant: a conflict is answered by inserting again, with the wallet still locked.
InsertRetrying(p) ==
  LET c == req[p].cmd
      free == ByKey(wager, c) \cup ByExt(wager, c) = {}
      new == [id |-> FreshId, row |-> NewRow(c, "PENDING")]
  IN
  /\ pc[p] = "insert"
  /\ free => \E t \in TxIds : Free(t)
  /\ seen' = IF free THEN [seen EXCEPT ![p] = new] ELSE seen
  /\ pc'   = [pc EXCEPT ![p] = IF free THEN "apply" ELSE "insert"]
  /\ UNCHANGED <<db, lock, req, snap, out, reply, faults>>

\* INSERT ... ON CONFLICT DO NOTHING RETURNING id: a committed row with the same
\* key or external id is a conflict, an uncommitted one is waited for.
InsertWager(p) ==
  LET c == req[p].cmd IN
  /\ pc[p] = "insert"
  /\ \A q \in Handlers \ {p} : Inserted(q) =>
       ~SameKey(seen[q].row.cmd, c) /\ ~SameExt(seen[q].row.cmd, c)
  /\ \/ /\ ByKey(wager, c) \cup ByExt(wager, c) # {}
        /\ pc' = [pc EXCEPT ![p] = "refind"]
        /\ UNCHANGED seen
     \/ /\ ByKey(wager, c) \cup ByExt(wager, c) = {}
        /\ \E t \in TxIds : Free(t)
        /\ seen' = [seen EXCEPT ![p] = [id |-> FreshId, row |-> NewRow(c, "PENDING")]]
        /\ pc' = [pc EXCEPT ![p] = "apply"]
  /\ UNCHANGED <<db, lock, req, snap, out, reply, faults>>

\* apply.  The second disjunct is the move that wallet.move refuses because the
\* wallet was last stamped by a replica whose clock is ahead of this one's.
Apply(p) ==
  LET settled == Settle(p, FALSE) IN
  /\ pc[p] = "apply"
  /\ \/ /\ out' = [out EXCEPT ![p] = settled]
        /\ pc'  = [pc EXCEPT ![p] = "commit"]
        /\ UNCHANGED <<lock, req, seen, snap, reply, faults>>
     \/ /\ settled.dir # "NONE" /\ faults > 0
        /\ faults' = faults - 1
        /\ Refuse(p, "INVALID_WALLET")
  /\ UNCHANGED db

\* completeInbox and Commit.
Commit(p) ==
  LET m == req[p].msg IN
  /\ pc[p] = "commit"
  /\ Install(p, 0)
  /\ inbox' = IF m = "" THEN inbox
              ELSE [inbox EXCEPT ![m] = [tx |-> seen[p].id, hash |-> InboxHash(req[p])]]
  /\ Return(p, ResultOf(seen[p].id, out[p].row, out[p].wallet, FALSE))
  /\ UNCHANGED faults

\* The answer goes to the transport, which may lose it: the request can come
\* again at any time.
Respond(p) ==
  /\ pc[p] = "reply"
  /\ pc'    = [pc EXCEPT ![p] = "idle"]
  /\ req'   = [req EXCEPT ![p] = NoRequest]
  /\ reply' = [reply EXCEPT ![p] = NoResult]
  /\ UNCHANGED <<db, lock, seen, snap, out, faults>>

(***************************************************************************)
(* The reference loop: ClaimReferences, RetryReference, ReleaseClaims.     *)
(* A resolver works on one claim at a time, so the claim token is the      *)
(* resolver that holds it.                                                 *)
(***************************************************************************)
\* ClaimReferences, one row of its batch: due, unclaimed or with an expired
\* lease, and not locked (SKIP LOCKED).
ClaimReference(r, t) ==
  /\ pc[r] = "idle"
  /\ wager[t].status = "PENDING_REFERENCE" /\ poll[t].due
  /\ poll[t].by = Nobody \/ ~poll[t].live
  /\ ~RowLocked(t)
  /\ poll' = [poll EXCEPT ![t].by = r, ![t].live = TRUE]
  /\ seen' = [seen EXCEPT ![r] = [id |-> t, row |-> wager[t]]]
  /\ pc'   = [pc EXCEPT ![r] = "rlock"]
  /\ UNCHANGED <<wallet, ledger, wager, inbox, outbox, lock, req, snap, out, reply,
                 faults>>

\* Mutant: RetryReference takes a wallet that another transaction holds.
LockRegardless(r) ==
  LET w == seen[r].row.cmd.wallet IN
  /\ pc[r] = "rlock"
  /\ lock' = [lock EXCEPT ![w] = r]
  /\ snap' = [snap EXCEPT ![r] = wallet[w]]
  /\ pc'   = [pc EXCEPT ![r] = "rselect"]
  /\ UNCHANGED <<db, req, seen, out, reply, faults>>

\* RetryReference: lockWallet before any row of wager_transaction.
LockForRetry(r) ==
  LET w == seen[r].row.cmd.wallet IN
  /\ pc[r] = "rlock"
  /\ lock[w] = Nobody
  /\ lock' = [lock EXCEPT ![w] = r]
  /\ snap' = [snap EXCEPT ![r] = wallet[w]]
  /\ pc'   = [pc EXCEPT ![r] = "rselect"]
  /\ UNCHANGED <<db, req, seen, out, reply, faults>>

\* A resolver drops its transaction and is free for the next claim.
Leave(r) ==
  /\ pc'   = [pc EXCEPT ![r] = "idle"]
  /\ seen' = [seen EXCEPT ![r] = NoSeen]
  /\ snap' = [snap EXCEPT ![r] = NoBalance]
  /\ out'  = [out EXCEPT ![r] = NoOut]
  /\ lock' = Released(r)
  /\ UNCHANGED <<req, reply>>

\* Mutant: the row is read again, but its claim and its status are not checked.
SelectUnfenced(r) ==
  /\ pc[r] = "rselect"
  /\ seen' = [seen EXCEPT ![r].row = wager[seen[r].id]]
  /\ pc'   = [pc EXCEPT ![r] = "rapply"]
  /\ UNCHANGED <<db, lock, req, snap, out, reply, faults>>

\* SELECT ... FOR UPDATE of the claimed row: the claim must still be this one's,
\* the lease alive and the wager still waiting, or it is CLAIM_LOST.
SelectClaim(r) ==
  LET t == seen[r].id
      mine == /\ poll[t].by = r /\ poll[t].live
              /\ wager[t].status = "PENDING_REFERENCE"
  IN
  /\ pc[r] = "rselect"
  /\ \/ /\ mine
        /\ seen' = [seen EXCEPT ![r].row = wager[t]]
        /\ pc'   = [pc EXCEPT ![r] = "rapply"]
        /\ UNCHANGED <<lock, req, snap, out, reply>>
     \/ ~mine /\ Leave(r)
  /\ UNCHANGED <<db, faults>>

\* apply inside the savepoint.  late says that the TTL has passed.  In the other
\* two disjuncts this replica's clock is behind the row's, the effects are rolled
\* back to the savepoint, and the attempt is recorded: as the permanent failure
\* if it was the last one, or else as one more wait.
RetryApply(r) ==
  \E late \in BOOLEAN :
    LET exhausted == poll[seen[r].id].attempts + 1 >= MaxAttempts \/ late
    IN
    /\ pc[r] = "rapply"
    /\ \/ /\ out' = [out EXCEPT ![r] = Settle(r, exhausted)]
          /\ UNCHANGED faults
       \/ /\ faults > 0 /\ exhausted
          /\ faults' = faults - 1
          /\ out' = [out EXCEPT ![r] = Failure(seen[r].id, seen[r].row, snap[r])]
       \/ /\ faults > 0 /\ ~exhausted
          /\ faults' = faults - 1
          /\ out' = [out EXCEPT ![r] =
               [row |-> seen[r].row, wallet |-> snap[r], dir |-> "NONE",
                events |-> <<>>]]
    /\ pc' = [pc EXCEPT ![r] = "rcommit"]
    /\ UNCHANGED <<db, lock, req, seen, snap, reply>>

\* Mutant: an attempt that is not counted.
RetryUncounted(r) ==
  /\ pc[r] = "rcommit"
  /\ Install(r, poll[seen[r].id].attempts)
  /\ pc'   = [pc EXCEPT ![r] = "idle"]
  /\ seen' = [seen EXCEPT ![r] = NoSeen]
  /\ snap' = [snap EXCEPT ![r] = NoBalance]
  /\ out'  = [out EXCEPT ![r] = NoOut]
  /\ UNCHANGED <<inbox, req, reply, faults>>

\* Commit of RetryReference: the claim is cleared and, if the wager still waits,
\* its next attempt lies in the future.
RetryCommit(r) ==
  /\ pc[r] = "rcommit"
  /\ Install(r, poll[seen[r].id].attempts + 1)
  /\ pc'   = [pc EXCEPT ![r] = "idle"]
  /\ seen' = [seen EXCEPT ![r] = NoSeen]
  /\ snap' = [snap EXCEPT ![r] = NoBalance]
  /\ out'  = [out EXCEPT ![r] = NoOut]
  /\ UNCHANGED <<inbox, req, reply, faults>>

\* ReleaseClaims at shutdown, after the jobs of the instance have stopped.
ReleaseClaims(r) ==
  /\ pc[r] = "idle"
  /\ \E t \in TxIds : poll[t].by = r
  /\ poll' = [t \in TxIds |-> IF poll[t].by = r /\ wager[t].status = "PENDING_REFERENCE"
                              THEN [poll[t] EXCEPT !.by = Nobody, !.live = FALSE]
                              ELSE poll[t]]
  /\ UNCHANGED <<wallet, ledger, wager, inbox, outbox, lock, session, faults>>

(***************************************************************************)
(* Time and failures.                                                      *)
(***************************************************************************)
\* next_reference_attempt_at passes.
BecomesDue(t) ==
  /\ wager[t].status = "PENDING_REFERENCE" /\ ~poll[t].due
  /\ poll' = [poll EXCEPT ![t].due = TRUE]
  /\ UNCHANGED <<wallet, ledger, wager, inbox, outbox, lock, session, faults>>

\* reference_claimed_until passes: after the claimant has gone, or, as a fault,
\* while it is still at work.
AtWork(t) == \E r \in Resolvers : seen[r].id = t /\ poll[t].by = r

LeaseExpires(t) ==
  /\ poll[t].by # Nobody /\ poll[t].live /\ ~AtWork(t)
  /\ poll' = [poll EXCEPT ![t].live = FALSE]
  /\ UNCHANGED <<wallet, ledger, wager, inbox, outbox, lock, session, faults>>

LeaseOverrun(t) ==
  /\ poll[t].by # Nobody /\ poll[t].live /\ AtWork(t)
  /\ faults > 0
  /\ faults' = faults - 1
  /\ poll' = [poll EXCEPT ![t].live = FALSE]
  /\ UNCHANGED <<wallet, ledger, wager, inbox, outbox, lock, session>>

\* A deadline, a lost connection, a crash of the process or a failed COMMIT: the
\* database rolls the transaction back.  A claim stays until its lease expires.
Rollback(p) ==
  /\ pc[p] \notin {"idle", "reply"}
  /\ faults > 0
  /\ faults' = faults - 1
  /\ \/ p \in Handlers /\ Refuse(p, "UNAVAILABLE")
     \/ p \in Resolvers /\ Leave(p)
  /\ UNCHANGED db

HandlerStep(p) ==
  \/ ReserveInbox(p) \/ LoadInboxWager(p) \/ FindIdentity(p) \/ CommitReplay(p)
  \/ LockWallet(p) \/ InsertWager(p) \/ Apply(p) \/ Commit(p) \/ Respond(p)

ResolverStep(r) ==
  LockForRetry(r) \/ SelectClaim(r) \/ RetryApply(r) \/ RetryCommit(r)

Next ==
  \/ \E w \in Wallets : CreateWallet(w)
  \/ \E p \in Handlers : HandlerStep(p) \/ \E r \in Requests : ProcessWager(p, r)
  \/ \E r \in Resolvers : \/ ResolverStep(r) \/ ReleaseClaims(r)
                          \/ \E t \in TxIds : ClaimReference(r, t)
  \/ \E t \in TxIds : BecomesDue(t) \/ LeaseExpires(t) \/ LeaseOverrun(t)
  \/ \E p \in Workers : Rollback(p)

Spec == Init /\ [][Next]_vars

(***************************************************************************)
(* Fairness.  A goroutine that can run its next statement runs it.  The    *)
(* wait for a row or an index entry is strongly fair: PostgreSQL queues    *)
(* the waiters of a lock in order.  Due rows are claimed oldest first, so  *)
(* no row is passed over forever.  No fairness on requests or faults.      *)
(***************************************************************************)
Fairness ==
  /\ \A p \in Handlers : SF_vars(HandlerStep(p))
  /\ \A r \in Resolvers : SF_vars(ResolverStep(r))
  /\ \A t \in TxIds : /\ SF_vars(\E r \in Resolvers : ClaimReference(r, t))
                      /\ WF_vars(BecomesDue(t)) /\ WF_vars(LeaseExpires(t))

FairSpec == Spec /\ Fairness

(***************************************************************************)
(* Properties.                                                             *)
(***************************************************************************)
\* Every variable has its type.
TypeOK ==
  /\ wallet \in [Wallets -> Balance]
  /\ ledger \in [Wallets -> Seq(Entry)]
  /\ wager  \in [TxIds -> Row]
  /\ poll   \in [TxIds -> Poll]
  /\ inbox  \in [Messages -> Inbox]
  /\ outbox \in [Wallets -> Seq(Event)]
  /\ lock   \in [Wallets -> Workers \cup {Nobody}]
  /\ pc     \in [Workers -> {"idle"} \cup HandlerStates \cup ResolverStates]
  /\ req    \in [Workers -> Requests \cup {NoRequest}]
  /\ seen   \in [Workers -> Seen]
  /\ snap   \in [Workers -> Balance]
  /\ out    \in [Workers -> Out]
  /\ reply  \in [Workers -> Result]
  /\ faults \in 0 .. MaxFaults

\* The wallet that the transaction of p works on, and where it holds its lock.
WalletOf(p) == IF p \in Handlers THEN req[p].cmd.wallet ELSE seen[p].row.cmd.wallet
Holding     == {"insert", "refind", "apply", "commit", "rselect", "rapply", "rcommit"}

\* No lost update: from lockWallet to the commit, the balance and the version
\* the transaction computes from are the committed ones, and the lock is its own.
LockedWalletIsCurrent ==
  \A p \in Workers : pc[p] \in Holding =>
    lock[WalletOf(p)] = p /\ wallet[WalletOf(p)] = snap[p]

\* The ledger of a wallet is one unbroken chain from zero to the stored balance,
\* each entry moves the balance by its amount in its direction, and every entry
\* costs exactly one version (the ledger_chain and conservation audits).
Signed(e) == IF e.dir = "CREDIT" THEN e.amount ELSE -e.amount

LedgerChain ==
  \A w \in Wallets :
    LET l == ledger[w] IN
    /\ \A i \in DOMAIN l : /\ l[i].before = IF i = 1 THEN 0 ELSE l[i - 1].after
                           /\ l[i].after = l[i].before + Signed(l[i])
    /\ wallet[w].balance = IF l = <<>> THEN 0 ELSE l[Len(l)].after
    /\ wallet[w].version > 0 =>
         wallet[w].version = Len(l) + (IF Accounts[w].initial > 0 THEN 0 ELSE 1)
    /\ wallet[w].version = 0 => l = <<>>

\* Whatever the Go code is about to commit, the deferred triggers, the unique
\* index on reversals and the CHECKs of the schema accept: no command is lost to
\* a guard that disagrees with Evaluate.
GuardAccepts(p) ==
  LET id  == seen[p].id
      row == out[p].row
      ref == IF row.refId = 0 THEN NoRow ELSE wager[row.refId]
  IN /\ row.status \notin {"NONE", "PENDING"}
     /\ ~Terminal(wager[id].status)
     /\ out[p].wallet.balance \in Minor
     /\ row.refId # id
     /\ out[p].dir = IF row.status = "PROCESSED"
                       THEN GuardDirection(row.cmd.kind, ref.cmd.kind, ref.status)
                       ELSE "NONE"
     /\ out[p].dir # "NONE" => row.balance = out[p].wallet.balance
     /\ row.status = "PROCESSED" /\ row.cmd.kind \in Reversals =>
          ~\E t \in TxIds \ {id} : ProcessedReversal(wager[t], row.refId)

GuardsSilent == \A p \in Workers : pc[p] \in {"commit", "rcommit"} => GuardAccepts(p)

\* Every row the code writes can be read back: scanWager rehydrates it through
\* validateWager, so an invalid row could never be replayed or resolved again.
RowsReadable ==
  /\ \A t \in TxIds : Exists(t) => ValidWager(wager[t]) /\ wager[t].status # "PENDING"
  /\ \A p \in Workers : pc[p] \in {"commit", "rcommit"} => ValidWager(out[p].row)

\* A command has at most one wager, however often and over whichever transport it
\* is delivered: neither business identity of a provider names two rows.
IdentityUnique ==
  \A t, u \in TxIds :
    /\ t # u /\ Exists(t) /\ Exists(u)
    /\ {wager[t].cmd.kind, wager[u].cmd.kind} \subseteq ExternalKinds
    => ~SameKey(wager[t].cmd, wager[u].cmd) /\ ~SameExt(wager[t].cmd, wager[u].cmd)

\* After a conflict on INSERT, the row that caused it is there to be found: the
\* UNAVAILABLE of the second lookup never happens.
ConflictIsVisible ==
  \A p \in Handlers : pc[p] = "refind" =>
    ByKey(wager, req[p].cmd) \cup ByExt(wager, req[p].cmd) # {}

\* An answer is about the caller's own command, never about another one that
\* shares a key or a message id with it, and a terminal answer is the result that
\* the wager froze, also on a replay long after the balance has moved on.
AnswersAreTrue ==
  \A p \in Handlers : pc[p] = "reply" /\ reply[p].error = "" =>
    LET a == reply[p]
        row == wager[a.id]
    IN /\ row.cmd = req[p].cmd
       /\ a.status # "PENDING"
       /\ Terminal(a.status) =>
            /\ <<a.status, a.balance, a.version>> = <<row.status, row.balance, row.version>>
            /\ a.code = row.code

\* A consumed message points to the wager of exactly the command it carried.
InboxPointsHome ==
  \A m \in Messages : inbox[m].tx # 0 =>
    Exists(inbox[m].tx) /\ wager[inbox[m].tx].cmd = inbox[m].hash.cmd

\* The outbox tells the whole story once: one event per terminal wager carrying
\* its frozen result, and one balance event per ledger entry, in ledger order, with the
\* version that the entry made.
Unmoved(w) == IF Accounts[w].initial > 0 THEN 0 ELSE 1

OutboxMatches ==
  \A w \in Wallets :
    LET moves == {i \in DOMAIN outbox[w] : outbox[w][i].type = "BALANCE"}
    IN /\ \A i \in moves :
            LET k == outbox[w][i].version - Unmoved(w) IN
            /\ k \in DOMAIN ledger[w]
            /\ outbox[w][i].tx = ledger[w][k].tx
            /\ outbox[w][i].balance = ledger[w][k].after
       /\ \A k \in DOMAIN ledger[w] :
            \E i \in moves : outbox[w][i].version = k + Unmoved(w)
       /\ \A i, j \in moves : i < j => outbox[w][i].version < outbox[w][j].version
       /\ \A t \in TxIds : Exists(t) /\ wager[t].cmd.wallet = w =>
            LET told == {i \in DOMAIN outbox[w] : /\ outbox[w][i].tx = t
                                                  /\ Terminal(outbox[w][i].type)}
            IN IF Terminal(wager[t].status)
               THEN \E i \in told : /\ told = {i}
                                    /\ outbox[w][i].type = wager[t].status
                                    /\ outbox[w][i].balance = wager[t].balance
                                    /\ outbox[w][i].version = wager[t].version
               ELSE told = {}

\* A terminal wager never changes again, whoever still holds a claim on it.
TerminalFrozen ==
  [][\A t \in TxIds : Terminal(wager[t].status) => wager'[t] = wager[t]]_vars

\* While one transaction holds a wallet, no other one changes the wallet, its
\* ledger or its wagers: what apply reads in several statements is one state.
WalletIsolated ==
  [][\A w \in Wallets : lock[w] # Nobody /\ lock'[w] = lock[w] =>
       /\ wallet'[w] = wallet[w] /\ ledger'[w] = ledger[w]
       /\ \A t \in TxIds : Exists(t) /\ wager[t].cmd.wallet = w => wager'[t] = wager[t]]_vars

\* A wager that waits for its reference ends: the reference arrives, or its
\* attempts run out.
PendingResolves ==
  \A t \in TxIds : wager[t].status = "PENDING_REFERENCE" ~> Terminal(wager[t].status)

\* Every command is answered: no transaction waits forever on another.
CommandsAnswered == \A p \in Handlers : pc[p] # "idle" ~> pc[p] = "idle"
=============================================================================

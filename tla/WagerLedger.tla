---------------------------- MODULE WagerLedger ----------------------------
(***************************************************************************)
(* What the financial core promises: a serial machine.  Every wallet is    *)
(* opened once; every command is decided in one indivisible step against   *)
(* the committed state, and its row, wallet, ledger entry, events and      *)
(* inbox record appear together; a waiting wager is decided again later.   *)
(* There are no sessions, locks, claims or faults here.  WagerStore is     *)
(* shown to implement this machine at its commits.                         *)
(*                                                                         *)
(* One concession is part of the promise: apply reads the row of another   *)
(* wallet without locking it, so a command may be decided as if a foreign  *)
(* reference that has just been committed were not there yet.  It then     *)
(* waits, and is refused when it is decided again.                         *)
(***************************************************************************)
EXTENDS WagerDomain

CONSTANT Requests

VARIABLES wallet, ledger, wager, inbox, outbox

vars == <<wallet, ledger, wager, inbox, outbox>>

Messages == {r.msg : r \in Requests} \ {""}
NoInbox  == [tx |-> 0, hash |-> [cmd |-> NoCommand, at |-> 0]]

Init ==
  /\ wallet = [w \in Wallets |-> NoBalance]
  /\ ledger = [w \in Wallets |-> <<>>]
  /\ wager  = [t \in TxIds |-> NoRow]
  /\ inbox  = [m \in Messages |-> NoInbox]
  /\ outbox = [w \in Wallets |-> <<>>]

\* Outcome o of wager id takes effect on wallet w.
Record(id, w, o) ==
  /\ wager'  = [wager EXCEPT ![id] = o.row]
  /\ wallet' = [wallet EXCEPT ![w] = o.wallet]
  /\ ledger' = IF o.dir = "NONE" THEN ledger
               ELSE [ledger EXCEPT ![w] = Append(@, LedgerEntry(id, o, wallet[w]))]
  /\ outbox' = [outbox EXCEPT ![w] = @ \o o.events]

Open(w) ==
  /\ wallet[w].version = 0
  /\ \A v \in Wallets : wallet[v].version > 0 =>
       <<Accounts[v].player, Accounts[v].currency>>
         # <<Accounts[w].player, Accounts[w].currency>>
  /\ IF Accounts[w].initial > 0
     THEN \E id \in TxIds : wager[id].status = "NONE" /\ Record(id, w, Opening(id, w))
     ELSE /\ wallet' = [wallet EXCEPT ![w] = [balance |-> 0, version |-> 1]]
          /\ UNCHANGED <<ledger, wager, outbox>>
  /\ UNCHANGED inbox

Consumed(r, id) ==
  IF r.msg = "" THEN inbox
  ELSE [inbox EXCEPT ![r.msg] = [tx |-> id, hash |-> InboxHash(r)]]

\* What a decision may take for the reference of command c.
References(rows, c) ==
  LET ref == ReferenceIn(rows, c) IN
  IF ref.row.cmd.wallet # c.wallet THEN {ref, NoSeen} ELSE {ref}

Settled(rows, id, w, expired) ==
  {Outcome(id, rows[id], wallet[w], ref, ReversedIn(rows, ref.id), expired) :
     ref \in References(rows, rows[id].cmd)}

\* A command that no wager of its provider contradicts is decided, and its
\* message, if it came in one, is consumed.
Decide(r, id) ==
  LET c    == r.cmd
      rows == [wager EXCEPT ![id] = NewRow(c, "PENDING")]
  IN
  /\ NormalizeCommand(c) = "" /\ AcceptsReference(c)
  /\ wallet[c.wallet].version > 0 /\ Accounts[c.wallet].player = c.player
  /\ ByKey(wager, c) \cup ByExt(wager, c) = {}
  /\ r.msg # "" => inbox[r.msg].tx = 0
  /\ wager[id].status = "NONE"
  /\ \E o \in Settled(rows, id, c.wallet, FALSE) : Record(id, c.wallet, o)
  /\ inbox' = Consumed(r, id)

\* A message that repeats a decided command is consumed without any effect.
Repeat(r, id) ==
  /\ r.msg # "" /\ inbox[r.msg].tx = 0
  /\ wager[id].status # "NONE" /\ wager[id].cmd = r.cmd
  /\ inbox' = Consumed(r, id)
  /\ UNCHANGED <<wallet, ledger, wager, outbox>>

\* A waiting wager is decided again, or given up.
Resolve(id) ==
  LET w == wager[id].cmd.wallet IN
  /\ wager[id].status = "PENDING_REFERENCE"
  /\ \/ \E expired \in BOOLEAN : \E o \in Settled(wager, id, w, expired) : Record(id, w, o)
     \/ Record(id, w, Failure(id, wager[id], wallet[w]))
  /\ UNCHANGED inbox

Next ==
  \/ \E w \in Wallets : Open(w)
  \/ \E id \in TxIds : \/ \E r \in Requests : Decide(r, id) \/ Repeat(r, id)
                       \/ Resolve(id)

Spec == Init /\ [][Next]_vars
=============================================================================

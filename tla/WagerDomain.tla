---------------------------- MODULE WagerDomain ----------------------------
(***************************************************************************)
(* The pure domain of the wager engine (src/internal/domain and the        *)
(* command checks of src/internal/application): money in int64 minor       *)
(* units, the wager row and its states, and Evaluate, which decides the    *)
(* financial effect of a command.  The deferred commit guards of the       *)
(* database are here too: they state the same rules in SQL, independently  *)
(* of the Go code, and serve as the reference Evaluate is checked against. *)
(*                                                                         *)
(* Identifiers are strings, "" being the absent one, as in the Go code.    *)
(* SHA-256 is taken as injective, so a hash is the record it is made of.   *)
(***************************************************************************)
EXTENDS Integers, Sequences

CONSTANTS
  Names,      \* identifiers and currency codes
  MaxInt,     \* math.MaxInt64, the largest amount of minor units
  Accounts,   \* the wallets that may be created: player, currency, initial
  TxIds       \* wager ids; 0 is the nil id

Minor   == 0 .. MaxInt
Wallets == DOMAIN Accounts
Account == [player : Names, currency : Names \ {""}, initial : Minor]

ASSUME NamesAssumption == "" \in Names
ASSUME MaxIntAssumption == MaxInt \in Nat \ {0}
ASSUME AccountsAssumption == Wallets # {} /\ Accounts \in [Wallets -> Account]
ASSUME TxIdsAssumption == TxIds \subseteq Nat \ {0}

ExternalKinds == {"BET", "WIN", "LOSS", "REFUND", "ROLLBACK"}
Kinds         == ExternalKinds \cup {"OPENING"}
Reversals     == {"REFUND", "ROLLBACK"}
TerminalStates == {"PROCESSED", "REJECTED", "FAILED"}
\* "NONE" is the status of an id that no committed row uses.
Statuses      == TerminalStates \cup {"NONE", "PENDING", "PENDING_REFERENCE"}
Directions    == {"DEBIT", "CREDIT", "NONE"}

\* The codes a wager is rejected or failed with, "" when it is neither.
Codes == {"", "CURRENCY_MISMATCH", "INVALID_AMOUNT_FOR_KIND", "REFERENCE_MISMATCH",
          "REFERENCE_NOT_PROCESSED", "REFERENCE_ALREADY_REVERSED",
          "REFERENCE_NOT_FOUND", "INSUFFICIENT_FUNDS",
          "INSUFFICIENT_FUNDS_FOR_REVERSAL", "OVERFLOW",
          "PERMANENT_PROCESSING_FAILURE"}

Terminal(status) == status \in TerminalStates

(***************************************************************************)
(* Commands and rows.                                                      *)
(***************************************************************************)
Command ==
  [provider : Names, ext : Names, key : Names, player : Names,
   wallet : Wallets, round : Names, kind : Kinds, amount : Minor,
   currency : Names, ref : Names]

\* wager_transaction: the command it records and the result it freezes.
Row ==
  [cmd : Command, status : Statuses, code : Codes, balance : Minor,
   version : Nat, currency : Names, refId : TxIds \cup {0}]

\* A row together with its id, as the code passes it around.
Seen == [id : TxIds \cup {0}, row : Row]

NewRow(c, status) ==
  [cmd |-> c, status |-> status, code |-> "", balance |-> 0, version |-> 0,
   currency |-> "", refId |-> 0]

NoCommand == [provider |-> "", ext |-> "", key |-> "", player |-> "",
              wallet |-> CHOOSE w \in Wallets : TRUE, round |-> "",
              kind |-> "OPENING", amount |-> 0, currency |-> "", ref |-> ""]
NoRow  == NewRow(NoCommand, "NONE")
NoSeen == [id |-> 0, row |-> NoRow]

\* The first check of NormalizeCommand that fails, or "" when none does.
NormalizeCommand(c) ==
  IF "" \in {c.provider, c.ext, c.key, c.round} THEN "INVALID_INPUT"
  ELSE IF c.kind \notin ExternalKinds THEN "INVALID_KIND"
  ELSE IF c.kind \in Reversals /\ c.ref = "" THEN "REFERENCE_REQUIRED"
  ELSE ""

\* What NewWager refuses beyond NormalizeCommand: a reference on BET or LOSS.
AcceptsReference(c) == c.kind \in {"BET", "LOSS"} => c.ref = ""

\* The payload hash leaves out the idempotency key; the inbox hash keeps it
\* and adds the time of occurrence.
PayloadHash(c) == [c EXCEPT !.key = ""]

InboxHash(r) == [cmd |-> r.cmd, at |-> r.at]

(***************************************************************************)
(* validateWager on an external row, as RehydrateWager applies it to every *)
(* row read and transition to every row written.                           *)
(***************************************************************************)
AmountFitsKind(c) == IF c.kind = "LOSS" THEN c.amount = 0 ELSE c.amount > 0

ValidWager(row) ==
  LET c == row.cmd IN
  /\ IF c.kind = "OPENING"
     THEN /\ c.amount > 0
          /\ {c.provider, c.ext, c.key, c.round, c.ref} = {""}
          /\ row.refId = 0
     ELSE NormalizeCommand(c) = "" /\ AcceptsReference(c)
  /\ row.status = "PENDING_REFERENCE" => c.ref # ""
  /\ row.status = "PROCESSED" =>
       /\ row.code = "" /\ row.currency = c.currency
       /\ AmountFitsKind(c)
       /\ c.ref # "" => row.refId # 0
  /\ row.status \in {"REJECTED", "FAILED"} => row.code # ""
  /\ Terminal(row.status) => row.version >= 1 /\ row.currency # ""
  /\ ~Terminal(row.status) => row.code = "" /\ row.version = 0

(***************************************************************************)
(* Evaluate.  acct is the wallet as locked: its player, currency and       *)
(* balance.  ref is the referenced row and its id, id 0 when there is none.*)
(***************************************************************************)
AddOverflows(a, b) == b > 0 /\ a > MaxInt - b

Rejection(code) == [dir |-> "NONE", pending |-> FALSE, code |-> code]
Wait            == [dir |-> "NONE", pending |-> TRUE, code |-> ""]
Move(dir)       == [dir |-> dir, pending |-> FALSE, code |-> ""]

SameBusiness(id, c, ref) ==
  /\ ref.id # id
  /\ ref.row.cmd.provider = c.provider
  /\ ref.row.cmd.player = c.player
  /\ ref.row.cmd.wallet = c.wallet
  /\ ref.row.cmd.currency = c.currency
  /\ ref.row.cmd.round = c.round
  /\ ref.row.cmd.ext = c.ref

MayRefer(kind, refKind) ==
  CASE kind \in {"REFUND", "WIN"} -> refKind = "BET"
    [] kind = "ROLLBACK" -> refKind \in {"BET", "WIN", "REFUND"}
    [] OTHER -> TRUE

\* Mutant: a rollback always gives money back.
RollbackCredits(kind, refKind) ==
  CASE kind = "BET" -> "DEBIT" [] kind = "LOSS" -> "NONE" [] OTHER -> "CREDIT"

DirectionOf(kind, refKind) ==
  CASE kind = "BET" -> "DEBIT"
    [] kind \in {"WIN", "REFUND"} -> "CREDIT"
    [] kind = "ROLLBACK" -> IF refKind = "BET" THEN "CREDIT" ELSE "DEBIT"
    [] OTHER -> "NONE"

\* Mutant: nobody asks whether the reference is reversed already.
JudgeIgnoringReversals(id, c, ref, reversed) ==
  IF ref.id = 0 THEN Wait
  ELSE IF ~SameBusiness(id, c, ref) \/ ~MayRefer(c.kind, ref.row.cmd.kind)
    THEN Rejection("REFERENCE_MISMATCH")
  ELSE IF ref.row.status # "PROCESSED" THEN Wait ELSE Move("NONE")

\* What the reference alone decides; Move("NONE") when it stops nothing.
JudgeReference(id, c, ref, reversed) ==
  IF ref.id = 0 THEN Wait
  ELSE IF ~SameBusiness(id, c, ref) \/ ~MayRefer(c.kind, ref.row.cmd.kind)
    THEN Rejection("REFERENCE_MISMATCH")
  ELSE IF c.kind \in Reversals /\ ref.row.cmd.amount # c.amount
    THEN Rejection("REFERENCE_MISMATCH")
  ELSE IF ref.row.status \in {"PENDING", "PENDING_REFERENCE"} THEN Wait
  ELSE IF ref.row.status # "PROCESSED" THEN Rejection("REFERENCE_NOT_PROCESSED")
  ELSE IF c.kind \in Reversals /\ reversed
    THEN Rejection("REFERENCE_ALREADY_REVERSED")
  ELSE Move("NONE")

\* Mutant: a debit that the balance does not cover.
JudgeWithoutFunds(balance, c, dir) == Move(dir)

\* What the balance decides, once nothing else stopped the command.
JudgeFunds(balance, c, dir) ==
  IF dir = "DEBIT" /\ c.amount > balance
    THEN Rejection(IF c.kind \in Reversals THEN "INSUFFICIENT_FUNDS_FOR_REVERSAL"
                                           ELSE "INSUFFICIENT_FUNDS")
  ELSE IF dir = "CREDIT" /\ AddOverflows(balance, c.amount)
    THEN Rejection("OVERFLOW")
  ELSE Move(dir)

Evaluate(acct, id, c, ref, reversed) ==
  LET judged == JudgeReference(id, c, ref, reversed) IN
  IF c.currency # acct.currency THEN Rejection("CURRENCY_MISMATCH")
  ELSE IF ~AmountFitsKind(c) THEN Rejection("INVALID_AMOUNT_FOR_KIND")
  ELSE IF c.ref # "" /\ judged # Move("NONE") THEN judged
  ELSE JudgeFunds(acct.balance, c, DirectionOf(c.kind, ref.row.cmd.kind))

(***************************************************************************)
(* Queries on the wager table.                                             *)
(***************************************************************************)
Present(rows) == {t \in TxIds : rows[t].status # "NONE"}

SameKey(a, b) == a.provider = b.provider /\ a.key = b.key
SameExt(a, b) == a.provider = b.provider /\ a.ext = b.ext
ByKey(rows, c) == {t \in Present(rows) : SameKey(rows[t].cmd, c)}
ByExt(rows, c) == {t \in Present(rows) : SameExt(rows[t].cmd, c)}

\* The row that command c refers to, id 0 when there is none.
ReferenceIn(rows, c) ==
  LET hits == ByExt(rows, [c EXCEPT !.ext = c.ref]) IN
  IF c.ref = "" \/ hits = {} THEN NoSeen
  ELSE LET t == CHOOSE t \in hits : TRUE IN [id |-> t, row |-> rows[t]]

\* The EXISTS query on the processed reversals of row t.
ProcessedReversal(row, t) ==
  row.status = "PROCESSED" /\ row.cmd.kind \in Reversals /\ row.refId = t
ReversedIn(rows, t) == \E u \in TxIds : ProcessedReversal(rows[u], t)

(***************************************************************************)
(* What apply writes for row `row' with id `id': the new row, the wallet   *)
(* after the move, the direction of the ledger entry and the events.  w is *)
(* the locked wallet, ref the reference that was read; expired says that a *)
(* wager still without its reference must give up.                         *)
(***************************************************************************)
\* Mutant: a move that does not count as a version.
MoveWithoutVersion(w, amount, dir) ==
  [w EXCEPT !.balance = CASE dir = "DEBIT" -> @ - amount
                          [] dir = "CREDIT" -> @ + amount [] OTHER -> @]

\* Wallet.Debit and Wallet.Credit: the balance and the version after a move.
MoveWallet(w, amount, dir) ==
  CASE dir = "DEBIT"  -> [balance |-> w.balance - amount, version |-> w.version + 1]
    [] dir = "CREDIT" -> [balance |-> w.balance + amount, version |-> w.version + 1]
    [] OTHER -> w

\* Mutant: the resolved reference is not stored.
FreezeWithoutReference(row, status, code, w, refId) ==
  [row EXCEPT !.status = status, !.code = code, !.balance = w.balance,
              !.version = w.version, !.currency = Accounts[row.cmd.wallet].currency]

\* Reject and Fail freeze the wallet as it is, Process as the move leaves it.
Freeze(row, status, code, w, refId) ==
  [row EXCEPT !.status = status, !.code = code, !.balance = w.balance,
              !.version = w.version, !.refId = refId,
              !.currency = Accounts[row.cmd.wallet].currency]

\* Mutant: the balance event is forgotten.
WriteStatusEvent(id, row, w, dir) ==
  <<[type |-> row.status, tx |-> id, balance |-> row.balance, version |-> row.version]>>

WriteEvents(id, row, w, dir) ==
  LET event(type, of) == [type |-> type, tx |-> id, balance |-> of.balance,
                          version |-> of.version]
  IN IF dir = "NONE" THEN <<event(row.status, row)>>
     ELSE <<event(row.status, row), event("BALANCE", w)>>

\* PendingReference, Reject or Process.
Decided(row, decision, w, moved, refId) ==
  IF decision.pending THEN [row EXCEPT !.status = "PENDING_REFERENCE"]
  ELSE IF decision.code # "" THEN Freeze(row, "REJECTED", decision.code, w, 0)
  ELSE Freeze(row, "PROCESSED", "", moved, refId)

Outcome(id, row, w, ref, reversed, expired) ==
  LET acct == [currency |-> Accounts[row.cmd.wallet].currency, balance |-> w.balance]
      eval == Evaluate(acct, id, row.cmd, ref, reversed)
      decision == IF eval.pending /\ expired
                    THEN Rejection("REFERENCE_NOT_FOUND") ELSE eval
      moved == MoveWallet(w, row.cmd.amount, decision.dir)
      next  == Decided(row, decision, w, moved, ref.id)
  IN [row |-> next, wallet |-> moved, dir |-> decision.dir,
      events |-> IF next.status = "PENDING_REFERENCE" /\ row.status = next.status
                   THEN <<>> ELSE WriteEvents(id, next, moved, decision.dir)]

\* Mutant: the effects are not rolled back to the savepoint.
FailureKeepingEffects(id, row, w) ==
  LET next  == Freeze(row, "FAILED", "PERMANENT_PROCESSING_FAILURE", w, 0)
      dir   == DirectionOf(row.cmd.kind, "BET")
      moved == MoveWallet(w, row.cmd.amount, dir)
  IN [row |-> next, wallet |-> moved, dir |-> dir,
      events |-> WriteEvents(id, next, moved, dir)]

\* The last resort of RetryReference: the wager fails, the wallet stays.
Failure(id, row, w) ==
  LET next == Freeze(row, "FAILED", "PERMANENT_PROCESSING_FAILURE", w, 0)
  IN [row |-> next, wallet |-> w, dir |-> "NONE",
      events |-> WriteEvents(id, next, w, "NONE")]

\* Mutant: the balance before is read after the move.
EntryAfterMove(id, o, w) ==
  [tx |-> id, dir |-> o.dir, amount |-> o.row.cmd.amount,
   before |-> o.wallet.balance, after |-> o.wallet.balance]

\* insertLedger: the entry for outcome o, the wallet having been w.
LedgerEntry(id, o, w) ==
  [tx |-> id, dir |-> o.dir, amount |-> o.row.cmd.amount,
   before |-> w.balance, after |-> o.wallet.balance]

\* CreateWallet: the OPENING wager of wallet w, processed from the start, and its
\* outcome on a wallet that did not exist.
OpeningCommand(w) ==
  [NoCommand EXCEPT !.wallet = w, !.player = Accounts[w].player,
                    !.amount = Accounts[w].initial,
                    !.currency = Accounts[w].currency]

NoBalance == [balance |-> 0, version |-> 0]

Opening(id, w) ==
  LET new == [balance |-> Accounts[w].initial, version |-> 1]
      row == Freeze(NewRow(OpeningCommand(w), "PENDING"), "PROCESSED", "", new, 0)
  IN [row |-> row, wallet |-> new, dir |-> "CREDIT",
      events |-> WriteEvents(id, row, new, "CREDIT")]

(***************************************************************************)
(* The direction the commit guard verify_wager_ledger expects, written     *)
(* from the SQL; "REFUSED" where the guard raises an exception.            *)
(***************************************************************************)
GuardDirection(kind, refKind, refStatus) ==
  IF kind = "LOSS" THEN "NONE"
  ELSE IF kind # "ROLLBACK" THEN (IF kind = "BET" THEN "DEBIT" ELSE "CREDIT")
  ELSE IF refStatus # "PROCESSED" THEN "REFUSED"
  ELSE IF refKind = "BET" THEN "CREDIT"
  ELSE IF refKind \in {"WIN", "REFUND"} THEN "DEBIT"
  ELSE "REFUSED"
=============================================================================

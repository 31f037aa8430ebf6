-------------------------- MODULE WagerStoreProofs --------------------------
(***************************************************************************)
(* Proofs about WagerStore, for any wallets, requests, sessions and bounds.*)
(*                                                                         *)
(* The argument is one inductive invariant, IndInv: the types, what each   *)
(* session knows (Local), that only wallets that exist have wagers         *)
(* (Funded), and the two invariants that are about tables alone            *)
(* (InboxPointsHome and LedgerChain).  A step of session p is shown to     *)
(* keep apart from the other sessions (Apart, OwnInbox), which then keep   *)
(* their part (OthersKeep), and to keep its own; only CreateWallet and the *)
(* two commits change a wallet, a ledger or a wager.                       *)
(***************************************************************************)
EXTENDS WagerStore, TLAPS

(***************************************************************************)
(* The domain operators: their types, and what an outcome does to a wallet.*)
(***************************************************************************)
\* The absent values that rows, codes and results start from have the type of their
\* column.
LEMMA Zeroes ==
  /\ 0 \in Minor /\ 0 \in TxIds \cup {0} /\ "" \in Names
  /\ "" \in Codes /\ "" \in Errors /\ "NONE" \in Statuses /\ "NONE" \in Directions
<1>1. 0 \in Minor
  BY MaxIntAssumption DEF Minor
<1>2. /\ "" \in Codes /\ "" \in Errors /\ "NONE" \in Statuses
      /\ "NONE" \in Directions
  BY DEF Codes, Errors, Statuses, Directions
<1>. QED
  BY <1>1, <1>2, NamesAssumption

\* The row that ProcessWager inserts is a row about its command.
LEMMA NewRowType ==
  ASSUME NEW c \in Command, NEW s \in Statuses
  PROVE  /\ NewRow(c, s) \in Row
         /\ NewRow(c, s).cmd = c
BY Zeroes DEF NewRow, Row

\* The values that stand for an absent row, claim, answer or message are typed.
LEMMA InitialValues ==
  /\ NoCommand \in Command /\ NoRow \in Row /\ NoSeen \in Seen
  /\ NoBalance \in Balance /\ NoPoll \in Poll /\ NoOut \in Out
  /\ NoResult \in Result /\ NoInbox \in Inbox
<1>1. NoCommand \in Command
  <2>1. (CHOOSE w \in Wallets : TRUE) \in Wallets
    BY AccountsAssumption
  <2>2. "OPENING" \in Kinds
    BY DEF Kinds
  <2>. QED  BY <2>1, <2>2, Zeroes DEF NoCommand, Command
<1>2. NoRow \in Row
  BY <1>1, Zeroes, NewRowType DEF NoRow
<1>3. NoBalance \in Balance
  BY Zeroes DEF NoBalance, Balance
<1>4. NoOut \in Out
  <2>1. <<>> \in Seq(Event)
    OBVIOUS
  <2>. QED  BY <2>1, <1>2, <1>3, Zeroes DEF NoOut, Out
<1>5. NoPoll \in Poll
  BY Zenon DEF NoPoll, Poll
<1>6. NoResult \in Result
  BY Zeroes, Zenon DEF NoResult, Result
<1>7. NoInbox \in Inbox
  BY <1>1 DEF NoInbox, Inbox, InboxHash, NoRequest
<1>8. NoSeen \in Seen
  BY <1>2 DEF NoSeen, Seen
<1>. QED
  BY <1>1, <1>2, <1>3, <1>4, <1>5, <1>6, <1>7, <1>8

\* Reject, Fail and Process give a row of the same command with the new status.
LEMMA FreezeType ==
  ASSUME NEW row \in Row, NEW s \in Statuses, NEW code \in Codes,
         NEW w \in Balance, NEW t \in TxIds \cup {0}
  PROVE  /\ Freeze(row, s, code, w, t) \in Row
         /\ Freeze(row, s, code, w, t).cmd = row.cmd
         /\ Freeze(row, s, code, w, t).status = s
BY AccountsAssumption DEF Freeze, Row, Balance, Command, Account

\* writeEvents gives a sequence of events.
LEMMA WriteEventsType ==
  ASSUME NEW id \in TxIds, NEW row \in Row, NEW w \in Balance, NEW d \in Directions
  PROVE  WriteEvents(id, row, w, d) \in Seq(Event)
<1>. DEFINE e1 == [type |-> row.status, tx |-> id, balance |-> row.balance,
                   version |-> row.version]
            e2 == [type |-> "BALANCE", tx |-> id, balance |-> w.balance,
                   version |-> w.version]
<1>1. e1 \in Event
  BY DEF Event, Row
<1>2. e2 \in Event
  BY DEF Event, Balance
<1>3. WriteEvents(id, row, w, d) = IF d = "NONE" THEN <<e1>> ELSE <<e1, e2>>
  BY DEF WriteEvents
<1>. HIDE DEF e1, e2
<1>. QED
  BY <1>1, <1>2, <1>3

\* The decisions of Evaluate.
Decision == [dir : Directions, pending : BOOLEAN, code : Codes]

\* The three forms of a decision: only a move has a direction, only a wait is pending.
LEMMA DecisionTypes ==
  /\ \A code \in Codes : /\ Rejection(code) \in Decision
                          /\ Rejection(code).dir = "NONE"
                          /\ ~Rejection(code).pending
  /\ \A d \in Directions : /\ Move(d) \in Decision
                            /\ Move(d).dir = d
                            /\ ~Move(d).pending
  /\ Wait \in Decision /\ Wait.dir = "NONE"
BY Zeroes, Zenon DEF Rejection, Move, Wait, Decision

\* A decision moves money only when the balance allows it: no debit takes it
\* below zero, no credit beyond the largest amount.
LEMMA EvaluateFits ==
  ASSUME NEW acct, acct.balance \in Minor, NEW id, NEW c \in Command, NEW ref,
         NEW reversed
  PROVE  LET e == Evaluate(acct, id, c, ref, reversed) IN
         /\ e \in Decision
         /\ e.dir = "DEBIT" => c.amount <= acct.balance
         /\ e.dir = "CREDIT" => acct.balance + c.amount <= MaxInt
<1>1. c.amount \in 0 .. MaxInt /\ acct.balance \in 0 .. MaxInt /\ MaxInt \in Nat
  BY MaxIntAssumption DEF Command, Minor
<1>2. /\ JudgeReference(id, c, ref, reversed) \in Decision
      /\ JudgeReference(id, c, ref, reversed).dir = "NONE"
  BY DecisionTypes DEF JudgeReference, Directions, Codes
<1>3. DirectionOf(c.kind, ref.row.cmd.kind) \in Directions
  BY DEF DirectionOf, Directions
<1>4. ASSUME NEW d \in Directions
      PROVE  /\ JudgeFunds(acct.balance, c, d) \in Decision
             /\ JudgeFunds(acct.balance, c, d).dir = "DEBIT" => c.amount <= acct.balance
             /\ JudgeFunds(acct.balance, c, d).dir = "CREDIT" =>
                  acct.balance + c.amount <= MaxInt
  <2>1. CASE d = "DEBIT"
    <3>1. ~(c.amount > acct.balance) => c.amount <= acct.balance
      BY <1>1
    <3>. QED
      BY <3>1, <2>1, DecisionTypes DEF JudgeFunds, Codes
  <2>2. CASE d = "CREDIT"
    <3>1. ~AddOverflows(acct.balance, c.amount) => acct.balance + c.amount <= MaxInt
      BY <1>1 DEF AddOverflows
    <3>. QED
      BY <3>1, <2>2, DecisionTypes DEF JudgeFunds, Codes
  <2>3. CASE d = "NONE"
    BY <2>3, DecisionTypes DEF JudgeFunds
  <2>. QED
    BY <2>1, <2>2, <2>3 DEF Directions
<1>. QED
  BY <1>2, <1>3, <1>4, DecisionTypes DEF Evaluate, Codes

\* What the staged outcome o of a wager means for the wallet w it was computed on.
Moves(o, w) ==
  /\ o.dir = "NONE" => o.wallet = w
  /\ o.dir = "DEBIT" => o.wallet.balance = w.balance - o.row.cmd.amount
  /\ o.dir = "CREDIT" => o.wallet.balance = w.balance + o.row.cmd.amount
  /\ o.dir # "NONE" => o.wallet.version = w.version + 1

\* A decided row keeps its command and is processed, rejected or waiting.
LEMMA DecidedType ==
  ASSUME NEW row \in Row, NEW d \in Decision, NEW w \in Balance, NEW moved \in Balance,
         NEW t \in TxIds \cup {0}
  PROVE  LET next == Decided(row, d, w, moved, t) IN
         /\ next \in Row
         /\ next.cmd = row.cmd
         /\ next.status \in {"PROCESSED", "REJECTED", "PENDING_REFERENCE"}
<1>1. /\ "REJECTED" \in Statuses /\ "PROCESSED" \in Statuses
      /\ "PENDING_REFERENCE" \in Statuses /\ 0 \in TxIds \cup {0}
  BY DEF Statuses, TerminalStates
<1>a. d.code \in Codes
  BY DEF Decision
<1>b. "" \in Codes
  BY DEF Codes
<1>2. CASE d.pending
  <2>1. Decided(row, d, w, moved, t) = [row EXCEPT !.status = "PENDING_REFERENCE"]
    BY <1>2 DEF Decided
  <2>. QED  BY <1>1, <2>1 DEF Row
<1>3. CASE ~d.pending /\ d.code # ""
  <2>1. Decided(row, d, w, moved, t) = Freeze(row, "REJECTED", d.code, w, 0)
    BY <1>3 DEF Decided
  <2>2. /\ Freeze(row, "REJECTED", d.code, w, 0) \in Row
        /\ Freeze(row, "REJECTED", d.code, w, 0).cmd = row.cmd
        /\ Freeze(row, "REJECTED", d.code, w, 0).status = "REJECTED"
    BY <1>1, <1>a, FreezeType
  <2>. QED  BY <2>1, <2>2
<1>4. CASE ~d.pending /\ d.code = ""
  <2>1. Decided(row, d, w, moved, t) = Freeze(row, "PROCESSED", "", moved, t)
    BY <1>4 DEF Decided
  <2>2. /\ Freeze(row, "PROCESSED", "", moved, t) \in Row
        /\ Freeze(row, "PROCESSED", "", moved, t).cmd = row.cmd
        /\ Freeze(row, "PROCESSED", "", moved, t).status = "PROCESSED"
    <3>1. ASSUME NEW code \in Codes
          PROVE  /\ Freeze(row, "PROCESSED", code, moved, t) \in Row
                 /\ Freeze(row, "PROCESSED", code, moved, t).cmd = row.cmd
                 /\ Freeze(row, "PROCESSED", code, moved, t).status = "PROCESSED"
      BY <1>1, FreezeType
    <3>. QED  BY <3>1, <1>b, Zenon
  <2>. QED  BY <2>1, <2>2
<1>. QED
  BY <1>2, <1>3, <1>4

\* What apply stages is typed, is about the same command, and moves the wallet by the
\* amount and one version, or not at all.
LEMMA OutcomeSound ==
  ASSUME NEW id \in TxIds, NEW row \in Row, NEW w \in Balance, NEW ref \in Seen,
         NEW reversed, NEW expired \in BOOLEAN
  PROVE  LET o == Outcome(id, row, w, ref, reversed, expired) IN
         /\ o \in Out
         /\ Moves(o, w)
         /\ o.row.cmd = row.cmd
         /\ o.row.status \in {"PROCESSED", "REJECTED", "PENDING_REFERENCE"}
<1>. DEFINE acct == [currency |-> Accounts[row.cmd.wallet].currency,
                     balance |-> w.balance]
            eval == Evaluate(acct, id, row.cmd, ref, reversed)
            d == IF eval.pending /\ expired
                   THEN Rejection("REFERENCE_NOT_FOUND") ELSE eval
            moved == MoveWallet(w, row.cmd.amount, d.dir)
            next == Decided(row, d, w, moved, ref.id)
            o == Outcome(id, row, w, ref, reversed, expired)
<1>1. /\ row.cmd \in Command /\ acct.balance \in Minor /\ ref.id \in TxIds \cup {0}
      /\ row.cmd.amount \in 0 .. MaxInt /\ w.balance \in 0 .. MaxInt
      /\ w.version \in Nat /\ MaxInt \in Nat
  BY MaxIntAssumption DEF Row, Balance, Seen, Command, Minor
<1>2. /\ eval \in Decision
      /\ eval.dir = "DEBIT" => row.cmd.amount <= w.balance
      /\ eval.dir = "CREDIT" => w.balance + row.cmd.amount <= MaxInt
  <2>. HIDE DEF eval
  <2>1. acct.balance = w.balance
    OBVIOUS
  <2>2. acct.balance \in Minor /\ row.cmd \in Command
    BY <1>1
  <2>. HIDE DEF acct
  <2>. QED
    BY <2>1, <2>2, EvaluateFits DEF eval
<1>3. /\ d \in Decision
      /\ d.dir = "DEBIT" => row.cmd.amount <= w.balance
      /\ d.dir = "CREDIT" => w.balance + row.cmd.amount <= MaxInt
  <2>. HIDE DEF eval
  <2>. QED
    BY <1>2, DecisionTypes DEF Codes
<1>. HIDE DEF d
<1>3a. d.dir \in Directions /\ d.code \in Codes /\ d.pending \in BOOLEAN
  BY <1>3, Zenon DEF Decision
<1>4. /\ moved \in Balance
      /\ d.dir = "NONE" => moved = w
      /\ d.dir = "DEBIT" => moved.balance = w.balance - row.cmd.amount
      /\ d.dir = "CREDIT" => moved.balance = w.balance + row.cmd.amount
      /\ d.dir # "NONE" => moved.version = w.version + 1
  <2>1. CASE d.dir = "NONE"
    BY <2>1 DEF MoveWallet
  <2>2. CASE d.dir = "DEBIT"
    BY <2>2, <1>1, <1>3 DEF MoveWallet, Balance, Minor
  <2>3. CASE d.dir = "CREDIT"
    BY <2>3, <1>1, <1>3 DEF MoveWallet, Balance, Minor
  <2>. QED
    BY <2>1, <2>2, <2>3, <1>3a DEF Directions
<1>. HIDE DEF moved
<1>5. /\ next \in Row /\ next.cmd = row.cmd
      /\ next.status \in {"PROCESSED", "REJECTED", "PENDING_REFERENCE"}
  BY <1>1, <1>3, <1>4, DecidedType
<1>. HIDE DEF next
<1>6. o = [row |-> next, wallet |-> moved, dir |-> d.dir,
           events |-> IF next.status = "PENDING_REFERENCE" /\ row.status = next.status
                        THEN <<>> ELSE WriteEvents(id, next, moved, d.dir)]
  BY DEF Outcome, next, moved, d
<1>7. o.events \in Seq(Event)
  <2>1. <<>> \in Seq(Event) /\ WriteEvents(id, next, moved, d.dir) \in Seq(Event)
    BY <1>3a, <1>4, <1>5, WriteEventsType
  <2>. QED
    BY <2>1, <1>6
<1>8. o.row = next /\ o.wallet = moved /\ o.dir = d.dir
  BY <1>6
<1>9. o \in Out
  <2>1. o = [row |-> o.row, wallet |-> o.wallet, dir |-> o.dir, events |-> o.events]
    BY <1>6
  <2>. HIDE DEF o
  <2>. QED  BY <2>1, <1>3a, <1>4, <1>5, <1>7, <1>8 DEF Out
<1>. HIDE DEF o
<1>10. Moves(o, w)
  BY <1>4, <1>5, <1>8 DEF Moves
<1>. QED
  BY <1>5, <1>8, <1>9, <1>10 DEF o

\* The permanent failure of RetryReference leaves the wallet as it is.
LEMMA FailureSound ==
  ASSUME NEW id \in TxIds, NEW row \in Row, NEW w \in Balance
  PROVE  LET o == Failure(id, row, w) IN
         /\ o \in Out
         /\ Moves(o, w)
         /\ o.row.cmd = row.cmd
         /\ o.row.status = "FAILED"
<1>. DEFINE next == Freeze(row, "FAILED", "PERMANENT_PROCESSING_FAILURE", w, 0)
            o == Failure(id, row, w)
<1>1. next \in Row /\ next.cmd = row.cmd /\ next.status = "FAILED"
  <2>1. "FAILED" \in Statuses /\ 0 \in TxIds \cup {0}
    BY DEF Statuses, TerminalStates
  <2>2. ASSUME NEW code \in Codes
        PROVE  /\ Freeze(row, "FAILED", code, w, 0) \in Row
               /\ Freeze(row, "FAILED", code, w, 0).cmd = row.cmd
               /\ Freeze(row, "FAILED", code, w, 0).status = "FAILED"
    BY <2>1, FreezeType
  <2>3. "PERMANENT_PROCESSING_FAILURE" \in Codes
    BY DEF Codes
  <2>. QED  BY <2>2, <2>3, Zenon
<1>. HIDE DEF next
<1>2. o = [row |-> next, wallet |-> w, dir |-> "NONE",
           events |-> WriteEvents(id, next, w, "NONE")]
  BY DEF Failure, next
<1>3. WriteEvents(id, next, w, "NONE") \in Seq(Event)
  BY <1>1, WriteEventsType, Zeroes
<1>4. o.row = next /\ o.wallet = w /\ o.dir = "NONE"
  BY <1>2
<1>5. o \in Out
  <2>. HIDE DEF o
  <2>. QED  BY <1>1, <1>2, <1>3, Zeroes DEF Out
<1>6. Moves(o, w)
  <2>. HIDE DEF o
  <2>. QED  BY <1>4 DEF Moves
<1>. QED
  BY <1>1, <1>4, <1>5, <1>6

\* CreateWallet opens at version 1 with the initial balance as one credit.
LEMMA OpeningSound ==
  ASSUME NEW id \in TxIds, NEW w \in Wallets
  PROVE  LET o == Opening(id, w) IN
         /\ o.row \in Row /\ o.row.cmd.wallet = w
         /\ o.row.cmd.amount = Accounts[w].initial
         /\ o.row.status = "PROCESSED"
         /\ o.wallet = [balance |-> Accounts[w].initial, version |-> 1]
         /\ o.wallet \in Balance
         /\ o.dir = "CREDIT"
         /\ o.events \in Seq(Event)
<1>. DEFINE c == OpeningCommand(w)
            new == [balance |-> Accounts[w].initial, version |-> 1]
            row == Freeze(NewRow(c, "PENDING"), "PROCESSED", "", new, 0)
<1>1. Accounts[w] \in Account
  BY AccountsAssumption
<1>2. c \in Command /\ c.wallet = w /\ c.amount = Accounts[w].initial
  BY <1>1, InitialValues DEF OpeningCommand, Command, Account
<1>3. new \in Balance
  BY <1>1 DEF Balance, Account
<1>4. NewRow(c, "PENDING") \in Row /\ NewRow(c, "PENDING").cmd = c
  <2>1. "PENDING" \in Statuses
    BY DEF Statuses
  <2>. QED  BY <1>2, <2>1, NewRowType
<1>. HIDE DEF c, new
<1>5. row \in Row /\ row.cmd = c /\ row.status = "PROCESSED"
  <2>1. "PROCESSED" \in Statuses /\ 0 \in TxIds \cup {0}
    BY DEF Statuses, TerminalStates
  <2>. DEFINE fresh == NewRow(c, "PENDING")
  <2>. HIDE DEF fresh
  <2>2. ASSUME NEW code \in Codes
        PROVE  /\ Freeze(fresh, "PROCESSED", code, new, 0) \in Row
               /\ Freeze(fresh, "PROCESSED", code, new, 0).cmd = fresh.cmd
               /\ Freeze(fresh, "PROCESSED", code, new, 0).status = "PROCESSED"
    BY <1>3, <1>4, <2>1, FreezeType DEF fresh
  <2>3. "" \in Codes
    BY DEF Codes
  <2>. QED  BY <2>2, <2>3, <1>4, Zenon DEF fresh
<1>. HIDE DEF row
<1>6. Opening(id, w) = [row |-> row, wallet |-> new, dir |-> "CREDIT",
                        events |-> WriteEvents(id, row, new, "CREDIT")]
  BY DEF Opening, row, new, c
<1>7. WriteEvents(id, row, new, "CREDIT") \in Seq(Event)
  <2>1. "CREDIT" \in Directions
    BY DEF Directions
  <2>. QED  BY <1>3, <1>5, <2>1, WriteEventsType
<1>. QED
  BY <1>2, <1>3, <1>5, <1>6, <1>7 DEF new

\* resultOf gives an answer, frozen or current.
LEMMA ResultOfType ==
  ASSUME NEW id \in TxIds \cup {0}, NEW row \in Row, NEW w \in Balance,
         NEW replay \in BOOLEAN
  PROVE  ResultOf(id, row, w, replay) \in Result
<1>. DEFINE of == IF Terminal(row.status) THEN row ELSE w
<1>1. of.balance \in Minor /\ of.version \in Nat
  BY DEF Row, Balance
<1>2. row.status \in Statuses /\ row.code \in Codes
  BY DEF Row
<1>3. ResultOf(id, row, w, replay) =
        [error |-> "", id |-> id, status |-> row.status, balance |-> of.balance,
         version |-> of.version, code |-> row.code, replay |-> replay]
  BY DEF ResultOf
<1>. HIDE DEF of
<1>4. ASSUME NEW b \in Minor, NEW v \in Nat, NEW s \in Statuses, NEW code \in Codes
      PROVE  [error |-> "", id |-> id, status |-> s, balance |-> b, version |-> v,
              code |-> code, replay |-> replay] \in Result
  <2>1. "" \in Errors
    BY Zeroes
  <2>. QED  BY <2>1, Zenon DEF Result
<1>. QED
  BY <1>1, <1>2, <1>3, <1>4, Zenon

\* A refusal is an answer.
LEMMA RefusalType ==
  ASSUME NEW code \in Errors
  PROVE  Refusal(code) \in Result
BY InitialValues DEF Refusal, Result

(***************************************************************************)
(* The inductive invariant.  LedgerChain is not inductive: a commit keeps  *)
(* the chain because the balance it was computed from is still the         *)
(* committed one (Locked), because what it installs is that balance moved  *)
(* by one amount (Staged), and because no other session can have written   *)
(* its row in between (Private, Claimed, Waiting).                         *)
(***************************************************************************)
Busy == {"replay", "apply", "commit"} \cup ResolverStates

\* Where a session is says which of its variables mean something.
Placed(p) ==
  /\ p \in Handlers => pc[p] \in {"idle"} \cup HandlerStates
  /\ p \in Resolvers => pc[p] \in {"idle"} \cup ResolverStates
  /\ pc[p] \in {"reserve", "load"} => req[p].msg # ""
  /\ pc[p] = "load" => /\ inbox[req[p].msg].tx # 0
                       /\ inbox[req[p].msg].hash = InboxHash(req[p])
  /\ pc[p] \in Busy => seen[p].id # 0

\* A session that holds a wallet computes from its committed state.
Locked(p) ==
  pc[p] \in Holding =>
    /\ lock[WalletOf(p)] = p
    /\ wallet[WalletOf(p)] = snap[p]
    /\ snap[p].version > 0

\* The id of an inserted row is nobody else's and not yet visible.
Private(p) ==
  pc[p] \in {"apply", "commit"} =>
    /\ seen[p].row.cmd = req[p].cmd
    /\ ~Exists(seen[p].id)
    /\ \A q \in Workers \ {p} : seen[q].id # seen[p].id

\* A claimed row exists and is of the command it was claimed for.
Claimed(p) ==
  pc[p] \in ResolverStates =>
    /\ Exists(seen[p].id)
    /\ wager[seen[p].id].cmd = seen[p].row.cmd

\* Once its claim is confirmed under the wallet lock, nobody else resolves it.
Waiting(p) ==
  pc[p] \in {"rapply", "rcommit"} =>
    wager[seen[p].id] = seen[p].row /\ seen[p].row.status = "PENDING_REFERENCE"

\* What is about to be committed.
Staged(p) ==
  pc[p] \in {"commit", "rcommit"} =>
    /\ Moves(out[p], snap[p])
    /\ out[p].row.cmd = seen[p].row.cmd
    /\ out[p].row.status # "NONE"

\* From the insert of its inbox row on, a message belongs to one session.
Reserving == {"find", "lock", "insert", "refind", "apply", "commit"}

Reservation(p) ==
  pc[p] \in Reserving /\ req[p].msg # "" =>
    /\ inbox[req[p].msg].tx = 0
    /\ \A q \in Handlers \ {p} : ~Reserved(q, req[p].msg)

\* A replay is about a committed wager of exactly this command.
Found(p) ==
  pc[p] = "replay" => Exists(seen[p].id) /\ wager[seen[p].id].cmd = req[p].cmd

Local(p) ==
  /\ Placed(p) /\ Locked(p) /\ Private(p) /\ Claimed(p) /\ Waiting(p) /\ Staged(p)
  /\ Reservation(p) /\ Found(p)

\* Every row is of a wallet that exists.
Funded == \A t \in TxIds : Exists(t) => wallet[wager[t].cmd.wallet].version > 0

InFlight == \A p \in Workers : Placed(p)

IndInv ==
  /\ TypeOK
  /\ \A p \in Workers : Local(p)
  /\ Funded /\ InboxPointsHome /\ LedgerChain

(***************************************************************************)
(* Types.                                                                  *)
(***************************************************************************)
DbType ==
  /\ wallet \in [Wallets -> Balance]
  /\ ledger \in [Wallets -> Seq(Entry)]
  /\ wager  \in [TxIds -> Row]
  /\ poll   \in [TxIds -> Poll]
  /\ inbox  \in [Messages -> Inbox]
  /\ outbox \in [Wallets -> Seq(Event)]

SessionType ==
  /\ pc     \in [Workers -> {"idle"} \cup HandlerStates \cup ResolverStates]
  /\ req    \in [Workers -> Requests \cup {NoRequest}]
  /\ seen   \in [Workers -> Seen]
  /\ snap   \in [Workers -> Balance]
  /\ out    \in [Workers -> Out]
  /\ reply  \in [Workers -> Result]

LockType  == lock \in [Wallets -> Workers \cup {Nobody}]
FaultType == faults \in 0 .. MaxFaults

\* The type invariant falls into the database, the sessions, the locks and the bound.
LEMMA TypeParts == TypeOK <=> DbType /\ SessionType /\ LockType /\ FaultType
BY DEF TypeOK, DbType, SessionType, LockType, FaultType

\* What the type invariant says of one session, in the form the steps use.
LEMMA SessionFacts ==
  ASSUME SessionType, NEW p \in Workers
  PROVE  /\ req[p].cmd \in Command /\ req[p].cmd.wallet \in Wallets
         /\ req[p].msg # "" => req[p].msg \in Messages
         /\ InboxHash(req[p]) \in [cmd : Command, at : Nat]
         /\ seen[p].id \in TxIds \cup {0} /\ seen[p].row \in Row
         /\ seen[p].row.cmd \in Command /\ seen[p].row.cmd.wallet \in Wallets
         /\ snap[p] \in Balance
         /\ out[p].row \in Row /\ out[p].wallet \in Balance
         /\ out[p].dir \in Directions /\ out[p].events \in Seq(Event)
         /\ out[p].row.cmd \in Command /\ out[p].row.cmd.wallet \in Wallets
<1>. USE DEF SessionType
<1>1. req[p] \in Request
  <2>1. NoRequest \in Request
    BY InitialValues, NamesAssumption DEF NoRequest, Request
  <2>. QED  BY <2>1, RequestsAssumption
<1>2. req[p].cmd \in Command /\ InboxHash(req[p]) \in [cmd : Command, at : Nat]
  BY <1>1 DEF Request, InboxHash
<1>3. req[p].msg # "" => req[p].msg \in Messages
  <2>1. CASE req[p] \in Requests
    <3>1. req[p].msg \in {r.msg : r \in Requests}
      BY <2>1
    <3>. QED  BY <3>1 DEF Messages
  <2>2. CASE req[p] = NoRequest
    <3>1. NoRequest.msg = ""
      BY DEF NoRequest
    <3>. QED  BY <2>2, <3>1
  <2>. QED  BY <2>1, <2>2
<1>4. seen[p].id \in TxIds \cup {0} /\ seen[p].row \in Row
  BY DEF Seen
<1>5. /\ out[p].row \in Row /\ out[p].wallet \in Balance
      /\ out[p].dir \in Directions /\ out[p].events \in Seq(Event)
  BY DEF Out
<1>6. seen[p].row.cmd \in Command /\ out[p].row.cmd \in Command
  BY <1>4, <1>5 DEF Row
<1>. QED
  BY <1>2, <1>3, <1>4, <1>5, <1>6 DEF Command

\* Releasing the locks of a session keeps the lock table typed.
LEMMA ReleasedType ==
  ASSUME LockType, NEW p
  PROVE  Released(p) \in [Wallets -> Workers \cup {Nobody}]
BY DEF LockType, Released

\* The end of ProcessWager keeps the sessions typed.
LEMMA ReturnType ==
  ASSUME SessionType, NEW p \in Workers, NEW r \in Result, Return(p, r)
  PROVE  SessionType'
<1>1. "reply" \in {"idle"} \cup HandlerStates \cup ResolverStates
  BY DEF HandlerStates
<1>. QED
  BY <1>1, InitialValues DEF SessionType, Return

\* A refused command keeps the sessions and the locks typed.
LEMMA RefuseType ==
  ASSUME SessionType, LockType, NEW p \in Workers, NEW code \in Errors, Refuse(p, code)
  PROVE  SessionType' /\ LockType'
<1>1. Refusal(code) \in Result
  BY RefusalType
<1>2. SessionType'
  BY <1>1, ReturnType DEF Refuse
<1>3. LockType'
  BY ReleasedType DEF Refuse, LockType
<1>. QED  BY <1>2, <1>3

\* A resolver that gives its claim up keeps the sessions and the locks typed.
LEMMA LeaveType ==
  ASSUME SessionType, LockType, NEW r \in Workers, Leave(r)
  PROVE  SessionType' /\ LockType'
<1>1. SessionType'
  BY InitialValues DEF SessionType, Leave
<1>2. LockType'
  BY ReleasedType DEF Leave, LockType
<1>. QED  BY <1>1, <1>2

\* insertLedger writes an entry whenever the outcome moves money.
LEMMA EntryType ==
  ASSUME NEW id \in TxIds, NEW o, NEW w \in Balance, o.row \in Row,
         o.wallet \in Balance, o.dir \in Directions, o.dir # "NONE"
  PROVE  LedgerEntry(id, o, w) \in Entry
<1>1. /\ o.dir \in {"DEBIT", "CREDIT"}
      /\ o.row.cmd.amount \in Minor /\ w.balance \in Minor /\ o.wallet.balance \in Minor
  BY DEF Directions, Row, Command, Balance
<1>. QED
  BY <1>1 DEF LedgerEntry, Entry

\* The commit of staged writes keeps every table typed.
LEMMA InstallType ==
  ASSUME DbType, SessionType, LockType, NEW p \in Workers, NEW n \in Nat,
         seen[p].id # 0, Install(p, n)
  PROVE  /\ wallet' \in [Wallets -> Balance]
         /\ ledger' \in [Wallets -> Seq(Entry)]
         /\ wager'  \in [TxIds -> Row]
         /\ poll'   \in [TxIds -> Poll]
         /\ outbox' \in [Wallets -> Seq(Event)]
         /\ LockType'
<1>. DEFINE id == seen[p].id
            o  == out[p]
            w  == o.row.cmd.wallet
<1>1. /\ id \in TxIds /\ w \in Wallets /\ o.row \in Row /\ o.wallet \in Balance
      /\ o.dir \in Directions /\ o.events \in Seq(Event) /\ snap[p] \in Balance
  BY SessionFacts
<1>2. wager' \in [TxIds -> Row]
  BY <1>1 DEF Install, DbType
<1>3. wallet' \in [Wallets -> Balance]
  BY <1>1 DEF Install, DbType
<1>4. ledger' \in [Wallets -> Seq(Entry)]
  <2>1. CASE o.dir = "NONE"
    BY <2>1 DEF Install, DbType
  <2>2. CASE o.dir # "NONE"
    <3>1. LedgerEntry(id, o, snap[p]) \in Entry
      BY <1>1, <2>2, EntryType
    <3>2. ledger[w] \in Seq(Entry)
      BY <1>1 DEF DbType
    <3>3. Append(ledger[w], LedgerEntry(id, o, snap[p])) \in Seq(Entry)
      BY <3>1, <3>2
    <3>4. ledger' = [ledger EXCEPT ![w] = Append(ledger[w], LedgerEntry(id, o, snap[p]))]
      BY <2>2 DEF Install
    <3>. QED
      BY <1>1, <3>3, <3>4 DEF DbType
  <2>. QED  BY <2>1, <2>2
<1>5. outbox' \in [Wallets -> Seq(Event)]
  <2>1. outbox[w] \in Seq(Event)
    BY <1>1 DEF DbType
  <2>2. outbox[w] \o o.events \in Seq(Event)
    BY <1>1, <2>1
  <2>3. outbox' = [outbox EXCEPT ![w] = outbox[w] \o o.events]
    BY DEF Install
  <2>. QED
    BY <1>1, <2>2, <2>3 DEF DbType
<1>6. poll' \in [TxIds -> Poll]
  <2>1. [NoPoll EXCEPT !.attempts = n] \in Poll
    BY InitialValues DEF Poll
  <2>. QED
    BY <1>1, <2>1 DEF Install, DbType
<1>7. LockType'
  BY ReleasedType DEF Install, LockType
<1>. QED
  BY <1>2, <1>3, <1>4, <1>5, <1>6, <1>7

\* The reference that apply reads is a row with its id, or the absent one.
LEMMA ReferenceType ==
  ASSUME DbType, SessionType, NEW p \in Workers
  PROVE  Reference(p) \in Seen
<1>. DEFINE rows == View(p)
            c == seen[p].row.cmd
            hits == ByExt(rows, [c EXCEPT !.ext = c.ref])
            t == CHOOSE t \in hits : TRUE
<1>1. rows \in [TxIds -> Row]
  BY SessionFacts DEF View, DbType
<1>2. hits \subseteq TxIds
  BY DEF ByExt, Present
<1>. HIDE DEF rows, hits
<1>3. CASE c.ref = "" \/ hits = {}
  <2>1. Reference(p) = NoSeen
    BY <1>3 DEF Reference, ReferenceIn, rows, hits
  <2>. QED  BY <2>1, InitialValues
<1>4. CASE ~(c.ref = "" \/ hits = {})
  <2>1. Reference(p) = [id |-> t, row |-> rows[t]]
    BY <1>4 DEF Reference, ReferenceIn, rows, hits
  <2>2. t \in TxIds
    BY <1>2, <1>4
  <2>. HIDE DEF t
  <2>. QED  BY <2>1, <2>2, <1>1 DEF Seen
<1>. QED  BY <1>3, <1>4

\* OutcomeSound for the outcome that session p stages.
LEMMA SettleSound ==
  ASSUME DbType, SessionType, NEW p \in Workers, seen[p].id # 0,
         NEW expired \in BOOLEAN
  PROVE  LET o == Settle(p, expired) IN
         /\ o \in Out
         /\ Moves(o, snap[p])
         /\ o.row.cmd = seen[p].row.cmd
         /\ o.row.status \in {"PROCESSED", "REJECTED", "PENDING_REFERENCE"}
<1>1. /\ seen[p].id \in TxIds /\ seen[p].row \in Row /\ snap[p] \in Balance
      /\ Reference(p) \in Seen
  BY SessionFacts, ReferenceType
<1>. QED
  BY <1>1, OutcomeSound DEF Settle

\* allocateID gives an id that no row and no session uses.
LEMMA FreshIdType ==
  ASSUME \E t \in TxIds : Free(t)
  PROVE  FreshId \in TxIds /\ Free(FreshId)
BY DEF FreshId

\* findIdentity only finds rows that are there.
LEMMA FoundType ==
  ASSUME NEW c, NEW hits, hits = IF ByKey(wager, c) # {} THEN ByKey(wager, c)
                                 ELSE ByExt(wager, c)
  PROVE  hits \subseteq {t \in TxIds : Exists(t)}
BY DEF ByKey, ByExt, Present, Exists

\* Every step keeps the type invariant.  InFlight is needed: a session that commits
\* has the id of a wager, not the nil id.
LEMMA TypeStep ==
  ASSUME TypeOK, InFlight, [Next]_vars
  PROVE  TypeOK'
<1>1. DbType /\ SessionType /\ LockType /\ FaultType
  BY TypeParts
<1>2. SUFFICES DbType' /\ SessionType' /\ LockType' /\ FaultType'
  BY DEF TypeOK, DbType, SessionType, LockType, FaultType
<1>. DEFINE States == {"idle"} \cup HandlerStates \cup ResolverStates
<1>a. ASSUME UNCHANGED db  PROVE  DbType'
  BY <1>a, <1>1 DEF db, DbType
<1>b. ASSUME UNCHANGED session  PROVE  SessionType'
  BY <1>b, <1>1 DEF session, SessionType
<1>c. ASSUME UNCHANGED lock  PROVE  LockType'
  BY <1>c, <1>1 DEF LockType
<1>d. ASSUME UNCHANGED faults  PROVE  FaultType'
  BY <1>d, <1>1 DEF FaultType
<1>e. ASSUME faults > 0, faults' = faults - 1  PROVE  FaultType'
  BY <1>e, <1>1, BoundsAssumption DEF FaultType
<1>f. ASSUME NEW p \in Workers, NEW s \in States, pc' = [pc EXCEPT ![p] = s]
      PROVE  pc' \in [Workers -> States]
  BY <1>f, <1>1 DEF SessionType
<1>g. /\ {"find", "load", "replay", "lock", "insert", "refind", "apply", "commit",
         "reply", "reserve"} \subseteq States
      /\ {"idle", "rlock", "rselect", "rapply", "rcommit"} \subseteq States
  BY DEF HandlerStates, ResolverStates
<1>h. Handlers \subseteq Workers /\ Resolvers \subseteq Workers
  BY DEF Workers
<1>3. CASE UNCHANGED vars
  BY <1>3, <1>a, <1>b, <1>c, <1>d DEF vars
<1>4. ASSUME NEW w \in Wallets, CreateWallet(w)  PROVE  DbType' /\ UNCHANGED <<session, lock, faults>>
  <2>. DEFINE id == FreshId
              o == Opening(id, w)
  <2>1. UNCHANGED <<session, lock, faults, poll, inbox>>
    BY <1>4 DEF CreateWallet
  <2>2. Opening(id, w).wallet \in Balance
    <3>1. Opening(id, w).wallet = [balance |-> Accounts[w].initial, version |-> 1]
      BY DEF Opening
    <3>2. Accounts[w].initial \in Minor
      BY AccountsAssumption DEF Account
    <3>. QED  BY <3>1, <3>2 DEF Balance
  <2>3. wallet' \in [Wallets -> Balance]
    BY <2>2, <1>1, <1>4 DEF CreateWallet, DbType
  <2>4. /\ ledger' \in [Wallets -> Seq(Entry)] /\ wager' \in [TxIds -> Row]
        /\ outbox' \in [Wallets -> Seq(Event)]
    <3>1. CASE Accounts[w].initial > 0
      <4>1. id \in TxIds
        BY <1>4, <3>1, FreshIdType DEF CreateWallet
      <4>. HIDE DEF id
      <4>2. /\ o.row \in Row /\ o.wallet \in Balance /\ o.dir \in Directions
            /\ o.dir # "NONE" /\ o.events \in Seq(Event)
        BY <4>1, OpeningSound DEF Directions
      <4>. HIDE DEF o
      <4>3. LedgerEntry(id, o, NoBalance) \in Entry
        BY <4>1, <4>2, EntryType, InitialValues
      <4>4. /\ ledger[w] \in Seq(Entry) /\ outbox[w] \in Seq(Event)
        BY <1>1 DEF DbType
      <4>5. /\ Append(ledger[w], LedgerEntry(id, o, NoBalance)) \in Seq(Entry)
            /\ outbox[w] \o o.events \in Seq(Event)
        BY <4>2, <4>3, <4>4
      <4>6. /\ wager' = [wager EXCEPT ![id] = o.row]
            /\ ledger' = [ledger EXCEPT ![w] = Append(ledger[w], LedgerEntry(id, o, NoBalance))]
            /\ outbox' = [outbox EXCEPT ![w] = outbox[w] \o o.events]
        BY <1>4, <3>1 DEF CreateWallet, id, o
      <4>. QED
        BY <1>1, <4>1, <4>2, <4>5, <4>6 DEF DbType
    <3>2. CASE ~(Accounts[w].initial > 0)
      BY <1>1, <1>4, <3>2 DEF CreateWallet, DbType
    <3>. QED  BY <3>1, <3>2
  <2>. QED
    BY <1>1, <2>1, <2>3, <2>4 DEF DbType
<1>5. ASSUME NEW p \in Handlers, NEW r \in Requests, ProcessWager(p, r)
      PROVE  SessionType' /\ UNCHANGED <<db, lock, faults>>
  <2>1. NormalizeCommand(r.cmd) \in Errors
    BY DEF NormalizeCommand, Errors
  <2>2. Refusal(NormalizeCommand(r.cmd)) \in Result
    BY <2>1, RefusalType
  <2>3. pc' \in [Workers -> States]
    BY <1>1, <1>5, <1>g, <1>h DEF ProcessWager, SessionType
  <2>. QED
    BY <1>1, <1>5, <1>h, <2>2, <2>3 DEF ProcessWager, SessionType
<1>6. ASSUME NEW p \in Handlers, ReserveInbox(p)
      PROVE  SessionType' /\ LockType' /\ UNCHANGED <<db, faults>>
  <2>1. UNCHANGED <<db, faults>>
    BY <1>6 DEF ReserveInbox
  <2>2. CASE Refuse(p, "INBOX_MESSAGE_REUSED")
    <3>1. "INBOX_MESSAGE_REUSED" \in Errors
      BY DEF Errors
    <3>. QED  BY <2>1, <2>2, <3>1, <1>1, <1>h, RefuseType
  <2>3. CASE /\ \E s \in {"find", "load"} : pc' = [pc EXCEPT ![p] = s]
             /\ UNCHANGED <<lock, req, seen, snap, out, reply>>
    BY <1>1, <1>g, <1>h, <2>1, <2>3 DEF SessionType, LockType
  <2>. QED  BY <1>6, <2>2, <2>3 DEF ReserveInbox
<1>7. ASSUME NEW p \in Handlers, LoadInboxWager(p)
      PROVE  SessionType' /\ LockType' /\ UNCHANGED <<db, faults>>
  <2>. DEFINE t == inbox[req[p].msg].tx
  <2>1. UNCHANGED <<db, faults>>
    BY <1>7 DEF LoadInboxWager
  <2>2. t \in TxIds
    <3>1. pc[p] = "load" /\ p \in Workers
      BY <1>7, <1>h DEF LoadInboxWager
    <3>2. req[p].msg # "" /\ t # 0
      BY <3>1 DEF InFlight, Placed
    <3>3. inbox[req[p].msg] \in Inbox
      BY <3>1, <3>2, <1>1, SessionFacts DEF DbType
    <3>. QED  BY <3>2, <3>3 DEF Inbox
  <2>3. CASE Refuse(p, "INBOX_MESSAGE_REUSED")
    <3>1. "INBOX_MESSAGE_REUSED" \in Errors
      BY DEF Errors
    <3>. QED  BY <2>1, <2>3, <3>1, <1>1, <1>h, RefuseType
  <2>4. CASE /\ seen' = [seen EXCEPT ![p] = [id |-> t, row |-> wager[t]]]
             /\ pc' = [pc EXCEPT ![p] = "replay"]
             /\ UNCHANGED <<lock, req, snap, out, reply>>
    <3>1. [id |-> t, row |-> wager[t]] \in Seen
      BY <1>1, <2>2 DEF DbType, Seen
    <3>. HIDE DEF t
    <3>. QED
      BY <1>1, <1>g, <1>h, <2>1, <2>4, <3>1 DEF SessionType, LockType
  <2>. QED  BY <1>7, <2>3, <2>4 DEF LoadInboxWager
<1>8. ASSUME NEW p \in Handlers, FindIdentity(p)
      PROVE  SessionType' /\ LockType' /\ UNCHANGED <<db, faults>>
  <2>. DEFINE c == req[p].cmd
              hits == IF ByKey(wager, c) # {} THEN ByKey(wager, c) ELSE ByExt(wager, c)
              t == CHOOSE t \in hits : TRUE
  <2>1. UNCHANGED <<db, faults>>
    BY <1>8 DEF FindIdentity
  <2>2. hits # {} => t \in TxIds
    BY FoundType
  <2>3. ASSUME NEW code \in {"EXTERNAL_TRANSACTION_ID_REUSED", "IDEMPOTENCY_KEY_REUSED"},
               Refuse(p, code)
        PROVE  SessionType' /\ LockType'
    <3>1. code \in Errors
      BY DEF Errors
    <3>. QED  BY <2>3, <3>1, <1>1, <1>h, RefuseType
  <2>4. CASE /\ pc' = [pc EXCEPT ![p] = "lock"]
             /\ UNCHANGED <<lock, req, seen, snap, out, reply>>
    BY <1>1, <1>g, <1>h, <2>1, <2>4 DEF SessionType, LockType
  <2>5. CASE /\ hits # {}
             /\ seen' = [seen EXCEPT ![p] = [id |-> t, row |-> wager[t]]]
             /\ pc' = [pc EXCEPT ![p] = "replay"]
             /\ UNCHANGED <<lock, req, snap, out, reply>>
    <3>1. [id |-> t, row |-> wager[t]] \in Seen
      BY <1>1, <2>2, <2>5 DEF DbType, Seen
    <3>. HIDE DEF t, hits
    <3>. QED
      BY <1>1, <1>g, <1>h, <2>1, <2>5, <3>1 DEF SessionType, LockType
  <2>. QED  BY <1>8, <2>1, <2>3, <2>4, <2>5 DEF FindIdentity
<1>9. ASSUME NEW p \in Handlers, CommitReplay(p)
      PROVE  DbType' /\ SessionType' /\ LockType' /\ UNCHANGED faults
  <2>. DEFINE m == req[p].msg
              r == ResultOf(seen[p].id, seen[p].row, wallet[seen[p].row.cmd.wallet], TRUE)
  <2>1. p \in Workers /\ seen[p].id \in TxIds
    <3>1. pc[p] = "replay" /\ p \in Workers
      BY <1>9, <1>h DEF CommitReplay
    <3>2. seen[p].id # 0
      BY <3>1 DEF InFlight, Placed, Busy
    <3>. QED  BY <3>1, <3>2, <1>1, SessionFacts
  <2>2. r \in Result
    <3>1. /\ seen[p].row \in Row /\ wallet[seen[p].row.cmd.wallet] \in Balance
          /\ TRUE \in BOOLEAN
      BY <1>1, <2>1, SessionFacts DEF DbType
    <3>. QED  BY <2>1, <3>1, ResultOfType
  <2>3. SessionType'
    <3>. HIDE DEF r
    <3>1. Return(p, r)
      BY <1>9 DEF CommitReplay, r
    <3>. QED  BY <3>1, <2>1, <2>2, <1>1, ReturnType
  <2>4. inbox' \in [Messages -> Inbox]
    <3>1. CASE m = "" \/ inbox' = inbox
      BY <1>1, <1>9, <3>1 DEF CommitReplay, DbType
    <3>2. CASE /\ m # ""
               /\ inbox' = [inbox EXCEPT ![m] = [tx |-> seen[p].id, hash |-> InboxHash(req[p])]]
      <4>1. /\ m \in Messages
            /\ [tx |-> seen[p].id, hash |-> InboxHash(req[p])] \in Inbox
        BY <1>1, <2>1, <3>2, SessionFacts DEF Inbox
      <4>. QED  BY <1>1, <3>2, <4>1 DEF DbType
    <3>. QED  BY <1>9, <3>1, <3>2 DEF CommitReplay
  <2>5. LockType' /\ UNCHANGED <<wallet, ledger, wager, poll, outbox, faults>>
    BY <1>9, <1>1, ReleasedType DEF CommitReplay, LockType
  <2>. QED  BY <1>1, <2>3, <2>4, <2>5 DEF DbType
<1>10. ASSUME NEW p \in Handlers, LockWallet(p)
       PROVE  SessionType' /\ LockType' /\ UNCHANGED <<db, faults>>
  <2>. DEFINE w == req[p].cmd.wallet
  <2>1. UNCHANGED <<db, faults>> /\ w \in Wallets /\ wallet[w] \in Balance
    BY <1>10, <1>1, <1>h, SessionFacts DEF LockWallet, DbType
  <2>2. ASSUME NEW code \in {"NOT_FOUND", "PLAYER_MISMATCH", "INVALID_WAGER"},
               Refuse(p, code)
        PROVE  SessionType' /\ LockType'
    <3>1. code \in Errors
      BY DEF Errors
    <3>. QED  BY <2>2, <3>1, <1>1, <1>h, RefuseType
  <2>3. CASE /\ lock' = [lock EXCEPT ![w] = p]
             /\ snap' = [snap EXCEPT ![p] = wallet[w]]
             /\ pc'   = [pc EXCEPT ![p] = "insert"]
             /\ UNCHANGED <<req, seen, out, reply>>
    BY <1>1, <1>g, <1>h, <2>1, <2>3 DEF SessionType, LockType
  <2>. QED  BY <1>10, <2>1, <2>2, <2>3 DEF LockWallet
<1>11. ASSUME NEW p \in Handlers, InsertWager(p)
       PROVE  SessionType' /\ UNCHANGED <<db, lock, faults>>
  <2>. DEFINE new == [id |-> FreshId, row |-> NewRow(req[p].cmd, "PENDING")]
  <2>1. UNCHANGED <<db, lock, req, snap, out, reply, faults>>
    BY <1>11 DEF InsertWager
  <2>2. CASE pc' = [pc EXCEPT ![p] = "refind"] /\ UNCHANGED seen
    BY <1>1, <1>g, <1>h, <2>1, <2>2 DEF SessionType
  <2>3. CASE /\ \E t \in TxIds : Free(t)
             /\ seen' = [seen EXCEPT ![p] = new]
             /\ pc' = [pc EXCEPT ![p] = "apply"]
    <3>1. NewRow(req[p].cmd, "PENDING") \in Row
      <4>1. "PENDING" \in Statuses /\ req[p].cmd \in Command
        BY <1>1, <1>h, SessionFacts DEF Statuses
      <4>. QED  BY <4>1, NewRowType
    <3>2. new \in Seen
      BY <2>3, <3>1, FreshIdType DEF Seen
    <3>. HIDE DEF new
    <3>. QED  BY <1>1, <1>g, <1>h, <2>1, <2>3, <3>2 DEF SessionType
  <2>. QED  BY <1>11, <2>1, <2>2, <2>3 DEF InsertWager
<1>12. ASSUME NEW p \in Handlers, Apply(p)
       PROVE  SessionType' /\ LockType' /\ FaultType' /\ UNCHANGED db
  <2>1. pc[p] = "apply" /\ UNCHANGED db /\ p \in Workers
    BY <1>12, <1>h DEF Apply
  <2>2. CASE /\ out' = [out EXCEPT ![p] = Settle(p, FALSE)]
             /\ pc'  = [pc EXCEPT ![p] = "commit"]
             /\ UNCHANGED <<lock, req, seen, snap, reply, faults>>
    <3>1. seen[p].id # 0
      BY <2>1 DEF InFlight, Placed, Busy
    <3>2. Settle(p, FALSE) \in Out
      BY <1>1, <2>1, <3>1, SettleSound
    <3>. QED
      BY <1>1, <1>c, <1>d, <1>g, <2>1, <2>2, <3>2 DEF SessionType
  <2>3. CASE faults > 0 /\ faults' = faults - 1 /\ Refuse(p, "INVALID_WALLET")
    <3>1. "INVALID_WALLET" \in Errors
      BY DEF Errors
    <3>. QED  BY <1>1, <1>e, <2>1, <2>3, <3>1, RefuseType
  <2>. QED  BY <1>12, <2>1, <2>2, <2>3 DEF Apply
<1>13. ASSUME NEW p \in Handlers, Commit(p)
       PROVE  DbType' /\ SessionType' /\ LockType' /\ UNCHANGED faults
  <2>. DEFINE m == req[p].msg
              r == ResultOf(seen[p].id, out[p].row, out[p].wallet, FALSE)
  <2>1. p \in Workers /\ seen[p].id # 0 /\ seen[p].id \in TxIds
    <3>1. pc[p] = "commit" /\ p \in Workers
      BY <1>13, <1>h DEF Commit
    <3>2. seen[p].id # 0
      BY <3>1 DEF InFlight, Placed, Busy
    <3>. QED  BY <3>1, <3>2, <1>1, SessionFacts
  <2>2. r \in Result
    <3>1. out[p].row \in Row /\ out[p].wallet \in Balance /\ FALSE \in BOOLEAN
      BY <1>1, <2>1, SessionFacts
    <3>. QED  BY <2>1, <3>1, ResultOfType
  <2>3. SessionType'
    <3>. HIDE DEF r
    <3>1. Return(p, r)
      BY <1>13 DEF Commit, r
    <3>. QED  BY <3>1, <2>1, <2>2, <1>1, ReturnType
  <2>4. inbox' \in [Messages -> Inbox]
    <3>1. CASE m = ""
      BY <1>1, <1>13, <3>1 DEF Commit, DbType
    <3>2. CASE m # ""
      <4>1. /\ m \in Messages
            /\ [tx |-> seen[p].id, hash |-> InboxHash(req[p])] \in Inbox
        BY <1>1, <2>1, <3>2, SessionFacts DEF Inbox
      <4>. QED  BY <1>1, <1>13, <3>2, <4>1 DEF DbType, Commit
    <3>. QED  BY <3>1, <3>2
  <2>5. Install(p, 0) /\ UNCHANGED faults
    BY <1>13 DEF Commit
  <2>. QED  BY <1>1, <2>1, <2>3, <2>4, <2>5, InstallType DEF DbType
<1>14. ASSUME NEW p \in Handlers, Respond(p)
       PROVE  SessionType' /\ UNCHANGED <<db, lock, faults>>
  BY <1>1, <1>14, <1>g, <1>h, InitialValues DEF Respond, SessionType
<1>15. ASSUME NEW r \in Resolvers, NEW t \in TxIds, ClaimReference(r, t)
       PROVE  DbType' /\ SessionType' /\ UNCHANGED <<lock, faults>>
  <2>1. [id |-> t, row |-> wager[t]] \in Seen
    BY <1>1 DEF DbType, Seen
  <2>2. poll' \in [TxIds -> Poll]
    <3>1. poll[t] \in Poll /\ r \in Resolvers \cup {Nobody} /\ TRUE \in BOOLEAN
      BY <1>1 DEF DbType
    <3>2. [poll[t] EXCEPT !.by = r, !.live = TRUE] \in Poll
      BY <3>1 DEF Poll
    <3>3. poll' = [poll EXCEPT ![t] = [poll[t] EXCEPT !.by = r, !.live = TRUE]]
      BY <1>15, <1>1 DEF ClaimReference, DbType
    <3>. QED  BY <1>1, <3>2, <3>3 DEF DbType
  <2>3. /\ seen' = [seen EXCEPT ![r] = [id |-> t, row |-> wager[t]]]
        /\ pc' = [pc EXCEPT ![r] = "rlock"]
        /\ UNCHANGED <<wallet, ledger, wager, inbox, outbox, lock, req, snap, out, reply,
                       faults>>
    BY <1>15 DEF ClaimReference
  <2>. QED
    BY <1>1, <1>g, <1>h, <2>1, <2>2, <2>3 DEF DbType, SessionType
<1>16. ASSUME NEW r \in Resolvers, LockForRetry(r)
       PROVE  SessionType' /\ LockType' /\ UNCHANGED <<db, faults>>
  <2>1. seen[r].row.cmd.wallet \in Wallets /\ wallet[seen[r].row.cmd.wallet] \in Balance
    BY <1>1, <1>h, SessionFacts DEF DbType
  <2>. QED
    BY <1>1, <1>16, <1>g, <1>h, <2>1 DEF LockForRetry, SessionType, LockType
<1>17. ASSUME NEW r \in Resolvers, SelectClaim(r)
       PROVE  SessionType' /\ LockType' /\ UNCHANGED <<db, faults>>
  <2>. DEFINE t == seen[r].id
  <2>1. UNCHANGED <<db, faults>> /\ pc[r] = "rselect" /\ r \in Workers
    BY <1>17, <1>h DEF SelectClaim
  <2>2. t \in TxIds
    <3>1. t # 0
      BY <2>1 DEF InFlight, Placed, Busy, ResolverStates
    <3>. QED  BY <3>1, <2>1, <1>1, SessionFacts
  <2>3. CASE Leave(r)
    BY <1>1, <2>1, <2>3, LeaveType
  <2>4. CASE /\ seen' = [seen EXCEPT ![r].row = wager[t]]
             /\ pc'   = [pc EXCEPT ![r] = "rapply"]
             /\ UNCHANGED <<lock, req, snap, out, reply>>
    <3>1. seen[r] \in Seen /\ wager[t] \in Row
      BY <1>1, <2>1, <2>2 DEF SessionType, DbType
    <3>2. [seen[r] EXCEPT !.row = wager[t]] \in Seen
      BY <3>1 DEF Seen
    <3>3. seen' = [seen EXCEPT ![r] = [seen[r] EXCEPT !.row = wager[t]]]
      BY <2>4, <1>1, <2>1 DEF SessionType
    <3>. HIDE DEF t
    <3>. QED
      BY <1>1, <1>g, <2>1, <2>4, <3>2, <3>3 DEF SessionType, LockType
  <2>. QED  BY <1>17, <2>1, <2>3, <2>4 DEF SelectClaim
<1>18. ASSUME NEW r \in Resolvers, RetryApply(r)
       PROVE  SessionType' /\ FaultType' /\ UNCHANGED <<db, lock>>
  <2>1. /\ UNCHANGED <<db, lock, req, seen, snap, reply>> /\ pc[r] = "rapply"
        /\ pc' = [pc EXCEPT ![r] = "rcommit"] /\ r \in Workers
    BY <1>18, <1>h DEF RetryApply
  <2>2. seen[r].id # 0 /\ seen[r].id \in TxIds /\ seen[r].row \in Row /\ snap[r] \in Balance
    <3>1. seen[r].id # 0
      BY <2>1 DEF InFlight, Placed, Busy, ResolverStates
    <3>. QED  BY <3>1, <2>1, <1>1, SessionFacts
  <2>3. ASSUME NEW o \in Out, out' = [out EXCEPT ![r] = o]
        PROVE  SessionType'
    BY <1>1, <1>g, <2>1, <2>3 DEF SessionType
  <2>4. Failure(seen[r].id, seen[r].row, snap[r]) \in Out
    BY <2>2, FailureSound
  <2>5. [row |-> seen[r].row, wallet |-> snap[r], dir |-> "NONE", events |-> <<>>] \in Out
    <3>1. <<>> \in Seq(Event)
      OBVIOUS
    <3>. QED  BY <2>2, <3>1, Zeroes DEF Out
  <2>6. PICK late \in BOOLEAN :
          LET exhausted == poll[seen[r].id].attempts + 1 >= MaxAttempts \/ late IN
          \/ /\ out' = [out EXCEPT ![r] = Settle(r, exhausted)]
             /\ UNCHANGED faults
          \/ /\ faults > 0 /\ faults' = faults - 1
             /\ \/ out' = [out EXCEPT ![r] = Failure(seen[r].id, seen[r].row, snap[r])]
                \/ out' = [out EXCEPT ![r] = [row |-> seen[r].row, wallet |-> snap[r],
                                              dir |-> "NONE", events |-> <<>>]]
    BY <1>18 DEF RetryApply
  <2>. DEFINE exhausted == poll[seen[r].id].attempts + 1 >= MaxAttempts \/ late
  <2>7. exhausted \in BOOLEAN
    OBVIOUS
  <2>. HIDE DEF exhausted
  <2>8. Settle(r, exhausted) \in Out
    BY <1>1, <2>1, <2>2, <2>7, SettleSound
  <2>9. CASE out' = [out EXCEPT ![r] = Settle(r, exhausted)] /\ UNCHANGED faults
    BY <2>1, <2>3, <2>8, <2>9, <1>d
  <2>10. CASE /\ faults > 0 /\ faults' = faults - 1
              /\ \/ out' = [out EXCEPT ![r] = Failure(seen[r].id, seen[r].row, snap[r])]
                 \/ out' = [out EXCEPT ![r] = [row |-> seen[r].row, wallet |-> snap[r],
                                               dir |-> "NONE", events |-> <<>>]]
    BY <2>1, <2>3, <2>4, <2>5, <2>10, <1>e
  <2>. QED  BY <2>6, <2>9, <2>10 DEF exhausted
<1>19. ASSUME NEW r \in Resolvers, RetryCommit(r)
       PROVE  DbType' /\ SessionType' /\ LockType' /\ UNCHANGED faults
  <2>1. pc[r] = "rcommit" /\ r \in Workers
    BY <1>19, <1>h DEF RetryCommit
  <2>2. seen[r].id # 0
    BY <2>1 DEF InFlight, Placed, Busy, ResolverStates
  <2>3. poll[seen[r].id].attempts + 1 \in Nat
    <3>1. seen[r].id \in TxIds
      BY <1>1, <2>1, <2>2, SessionFacts
    <3>2. poll[seen[r].id] \in Poll
      BY <1>1, <3>1 DEF DbType
    <3>3. poll[seen[r].id].attempts \in Nat
      BY <3>2 DEF Poll
    <3>. QED  BY <3>3
  <2>4. Install(r, poll[seen[r].id].attempts + 1)
    BY <1>19 DEF RetryCommit
  <2>5. SessionType' /\ UNCHANGED <<inbox, faults>>
    BY <1>1, <1>19, <1>g, <2>1, InitialValues DEF RetryCommit, SessionType
  <2>. QED  BY <1>1, <2>1, <2>2, <2>3, <2>4, <2>5, InstallType DEF DbType
<1>20. ASSUME NEW r \in Resolvers, ReleaseClaims(r)
       PROVE  DbType' /\ UNCHANGED <<lock, session, faults>>
  <2>1. \A t \in TxIds : [poll[t] EXCEPT !.by = Nobody, !.live = FALSE] \in Poll
    <3>1. ASSUME NEW q \in Poll  PROVE  [q EXCEPT !.by = Nobody, !.live = FALSE] \in Poll
      BY DEF Poll
    <3>. QED  BY <3>1, <1>1 DEF DbType
  <2>2. poll' \in [TxIds -> Poll]
    BY <1>1, <1>20, <2>1 DEF ReleaseClaims, DbType
  <2>3. UNCHANGED <<wallet, ledger, wager, inbox, outbox, lock, session, faults>>
    BY <1>20 DEF ReleaseClaims
  <2>. QED  BY <1>1, <2>2, <2>3 DEF DbType
<1>21. ASSUME NEW t \in TxIds, BecomesDue(t) \/ LeaseExpires(t) \/ LeaseOverrun(t)
       PROVE  DbType' /\ FaultType' /\ UNCHANGED <<lock, session>>
  <2>1. poll' \in [TxIds -> Poll]
    <3>1. ASSUME NEW q \in Poll
          PROVE  [q EXCEPT !.due = TRUE] \in Poll /\ [q EXCEPT !.live = FALSE] \in Poll
      BY DEF Poll
    <3>2. \/ poll' = [poll EXCEPT ![t] = [poll[t] EXCEPT !.due = TRUE]]
          \/ poll' = [poll EXCEPT ![t] = [poll[t] EXCEPT !.live = FALSE]]
      BY <1>21, <1>1 DEF BecomesDue, LeaseExpires, LeaseOverrun, DbType
    <3>3. poll[t] \in Poll
      BY <1>1 DEF DbType
    <3>. QED  BY <1>1, <3>1, <3>2, <3>3 DEF DbType
  <2>2. UNCHANGED <<wallet, ledger, wager, inbox, outbox, lock, session>>
    BY <1>21 DEF BecomesDue, LeaseExpires, LeaseOverrun
  <2>3. FaultType'
    BY <1>21, <1>d, <1>e DEF BecomesDue, LeaseExpires, LeaseOverrun
  <2>. QED  BY <1>1, <2>1, <2>2, <2>3 DEF DbType
<1>22. ASSUME NEW p \in Workers, Rollback(p)
       PROVE  SessionType' /\ LockType' /\ FaultType' /\ UNCHANGED db
  <2>1. UNCHANGED db /\ FaultType'
    BY <1>22, <1>e DEF Rollback
  <2>2. CASE Refuse(p, "UNAVAILABLE")
    <3>1. "UNAVAILABLE" \in Errors
      BY DEF Errors
    <3>. QED  BY <1>1, <2>1, <2>2, <3>1, RefuseType
  <2>3. CASE Leave(p)
    BY <1>1, <2>1, <2>3, LeaveType
  <2>. QED  BY <1>22, <2>2, <2>3 DEF Rollback
<1>23. CASE Next
  <2>. HIDE DEF States
  <2>1. CASE \E w \in Wallets : CreateWallet(w)
    BY <2>1, <1>4, <1>b, <1>c, <1>d
  <2>2. CASE \E p \in Handlers : HandlerStep(p)
    BY <2>2, <1>6, <1>7, <1>8, <1>9, <1>10, <1>11, <1>12, <1>13, <1>14,
       <1>a, <1>c, <1>d, Zenon DEF HandlerStep
  <2>3. CASE \E p \in Handlers, r \in Requests : ProcessWager(p, r)
    BY <2>3, <1>5, <1>a, <1>c, <1>d
  <2>4. CASE \E r \in Resolvers : \/ ResolverStep(r) \/ ReleaseClaims(r)
                                  \/ \E t \in TxIds : ClaimReference(r, t)
    BY <2>4, <1>15, <1>16, <1>17, <1>18, <1>19, <1>20,
       <1>a, <1>b, <1>c, <1>d, Zenon DEF ResolverStep
  <2>5. CASE \E t \in TxIds : BecomesDue(t) \/ LeaseExpires(t) \/ LeaseOverrun(t)
    BY <2>5, <1>21, <1>b, <1>c
  <2>6. CASE \E p \in Workers : Rollback(p)
    BY <2>6, <1>22, <1>a
  <2>. QED
    BY <1>23, <2>1, <2>2, <2>3, <2>4, <2>5, <2>6, Zenon DEF Next
<1>. QED
  BY <1>3, <1>23

(***************************************************************************)
(* Steps of one session.  Apart(p) says what a step of p leaves alone.     *)
(***************************************************************************)
Apart(p) ==
  /\ \A q \in Workers \ {p} :
       /\ pc'[q] = pc[q] /\ req'[q] = req[q] /\ seen'[q] = seen[q]
       /\ snap'[q] = snap[q] /\ out'[q] = out[q]
  /\ \A w \in Wallets : lock[w] # p /\ lock[w] # Nobody => lock'[w] = lock[w]
  /\ seen'[p].id \in {0, seen[p].id} \/ Exists(seen'[p].id) \/ Free(seen'[p].id)

\* What a step of p does to the inbox, and to the messages it has reserved.
OwnInbox(p) ==
  /\ \A m \in Messages : inbox'[m] # inbox[m] => inbox[m].tx = 0 /\ Reserved(p, m)
  /\ \A m \in Messages :
       Reserved(p, m)' => \/ Reserved(p, m) \/ inbox[m].tx # 0
                          \/ \A q \in Handlers \ {p} : ~Reserved(q, m)

\* Every session works on a wallet.
LEMMA WalletOfType ==
  ASSUME SessionType, NEW p \in Workers
  PROVE  WalletOf(p) \in Wallets
BY SessionFacts DEF WalletOf

\* A step of p on its own inbox row does not disturb the reservations of others.
LEMMA OthersKeepInbox ==
  ASSUME IndInv, NEW p \in Workers, Apart(p), OwnInbox(p), NEW q \in Workers, q # p
  PROVE  Placed(q)' /\ Reservation(q)'
<1>1. pc'[q] = pc[q] /\ req'[q] = req[q] /\ seen'[q] = seen[q]
  BY DEF Apart
<1>2. Placed(q) /\ Reservation(q) /\ SessionType
  BY TypeParts DEF IndInv, Local
<1>. DEFINE m == req[q].msg
<1>3. m # "" => m \in Messages
  BY <1>2, SessionFacts
<1>4. Placed(q)'
  <2>1. CASE pc[q] = "load"
    <3>1. m \in Messages /\ inbox'[m] = inbox[m]
      BY <1>2, <1>3, <2>1 DEF Placed, OwnInbox
    <3>. QED  BY <1>1, <1>2, <3>1 DEF Placed, InboxHash
  <2>2. CASE pc[q] # "load"
    BY <1>1, <1>2, <2>2 DEF Placed
  <2>. QED  BY <2>1, <2>2
<1>5. Reservation(q)'
  <2>. SUFFICES ASSUME pc[q] \in Reserving, m # ""
                PROVE  /\ inbox'[m].tx = 0
                       /\ \A s \in Handlers \ {q} : ~Reserved(s, m)'
    BY <1>1 DEF Reservation, Reserved
  <2>1. inbox[m].tx = 0 /\ \A s \in Handlers \ {q} : ~Reserved(s, m)
    BY <1>2 DEF Reservation
  <2>2. q \in Handlers /\ Reserved(q, m)
    <3>1. pc[q] \notin {"idle"} \cup ResolverStates
      BY DEF Reserving, ResolverStates
    <3>2. q \in Handlers
      BY <1>2, <3>1 DEF Placed, Workers
    <3>. QED  BY <3>2 DEF Reserved, Reserving, HandlerStates
  <2>3. ~Reserved(p, m)
    BY <2>1 DEF Reserved
  <2>4. inbox'[m].tx = 0
    BY <1>3, <2>1, <2>3 DEF OwnInbox
  <2>5. ~Reserved(p, m)'
    <3>1. ASSUME NEW k \in Messages, k = m  PROVE  ~Reserved(p, k)'
      BY <2>1, <2>2, <2>3, <3>1 DEF OwnInbox
    <3>. QED  BY <1>1, <1>3, <3>1 DEF Reserved
  <2>6. ASSUME NEW s \in Handlers \ {q, p}  PROVE  ~Reserved(s, m)'
    <3>1. s \in Workers \ {p}
      BY DEF Workers
    <3>2. pc'[s] = pc[s] /\ req'[s] = req[s]
      BY <3>1 DEF Apart
    <3>3. ~Reserved(s, m)
      BY <2>1
    <3>. QED  BY <3>2, <3>3, <1>1 DEF Reserved
  <2>. QED  BY <2>4, <2>5, <2>6
<1>. QED  BY <1>4, <1>5

\* A step of p that changes no row keeps what every other session relies on.
LEMMA OthersKeep ==
  ASSUME IndInv, NEW p \in Workers, Apart(p), OwnInbox(p), wager' = wager,
         wallet' = wallet
  PROVE  \A q \in Workers \ {p} : Local(q)'
<1>. SUFFICES ASSUME NEW q \in Workers, q # p  PROVE  Local(q)'
  OBVIOUS
<1>1. /\ pc'[q] = pc[q] /\ req'[q] = req[q] /\ seen'[q] = seen[q]
      /\ snap'[q] = snap[q] /\ out'[q] = out[q]
  BY DEF Apart
<1>2. /\ Placed(q) /\ Locked(q) /\ Private(q) /\ Claimed(q) /\ Waiting(q) /\ Staged(q)
      /\ Found(q) /\ SessionType /\ LockType
  BY TypeParts DEF IndInv, Local
<1>3. WalletOf(q)' = WalletOf(q) /\ WalletOf(q) \in Wallets
  BY <1>1, <1>2, WalletOfType DEF WalletOf
<1>4. Placed(q)' /\ Reservation(q)'
  BY OthersKeepInbox
<1>5. Locked(q)'
  <2>1. CASE pc[q] \in Holding
    <3>1. lock[WalletOf(q)] = q /\ q # p /\ q # Nobody
      BY <1>2, <2>1, WorkersAssumption DEF Locked
    <3>2. lock'[WalletOf(q)] = q
      BY <1>3, <3>1 DEF Apart
    <3>. QED  BY <1>1, <1>2, <1>3, <2>1, <3>2 DEF Locked
  <2>2. CASE pc[q] \notin Holding
    BY <1>1, <2>2 DEF Locked
  <2>. QED  BY <2>1, <2>2
<1>6. Private(q)'
  <2>1. CASE pc[q] \in {"apply", "commit"}
    <3>1. /\ seen[q].row.cmd = req[q].cmd /\ ~Exists(seen[q].id)
          /\ \A s \in Workers \ {q} : seen[s].id # seen[q].id
      BY <1>2, <2>1 DEF Private
    <3>2. seen'[p].id # seen[q].id
      <4>1. seen[p].id # seen[q].id
        BY <3>1
      <4>2. seen[q].id # 0
        BY <1>2, <2>1 DEF Placed, Busy
      <4>3. ~Free(seen[q].id)
        BY DEF Free
      <4>. QED  BY <3>1, <4>1, <4>2, <4>3 DEF Apart
    <3>3. \A s \in Workers \ {q} : seen'[s].id # seen'[q].id
      BY <1>1, <3>1, <3>2 DEF Apart
    <3>4. (~Exists(seen[q].id))'
      BY <1>1, <3>1 DEF Exists, Present
    <3>. QED  BY <1>1, <3>1, <3>3, <3>4 DEF Private
  <2>2. CASE pc[q] \notin {"apply", "commit"}
    BY <1>1, <2>2 DEF Private
  <2>. QED  BY <2>1, <2>2
<1>7. Claimed(q)' /\ Found(q)'
  BY <1>1, <1>2 DEF Claimed, Found, Exists, Present
<1>8. Waiting(q)' /\ Staged(q)'
  BY <1>1, <1>2 DEF Waiting, Staged, Moves
<1>. QED
  BY <1>4, <1>5, <1>6, <1>7, <1>8 DEF Local

\* The inductive invariant, for one goroutine of ProcessWager.
LEMMA HandlerFacts ==
  ASSUME IndInv, NEW p \in Handlers
  PROVE  /\ p \in Workers /\ p \notin Resolvers /\ p # Nobody
         /\ DbType /\ SessionType /\ LockType
         /\ Placed(p) /\ Locked(p) /\ Private(p) /\ Staged(p) /\ Reservation(p) /\ Found(p)
BY TypeParts, WorkersAssumption DEF Workers, IndInv, Local

\* The inductive invariant, for one goroutine of RetryReference.
LEMMA ResolverFacts ==
  ASSUME IndInv, NEW p \in Resolvers
  PROVE  /\ p \in Workers /\ p \notin Handlers /\ p # Nobody
         /\ DbType /\ SessionType /\ LockType
         /\ Placed(p) /\ Locked(p) /\ Claimed(p) /\ Waiting(p) /\ Staged(p)
BY TypeParts, WorkersAssumption DEF Workers, IndInv, Local

\* A session that has ended its transaction owes nothing.
LEMMA AtRest ==
  ASSUME NEW p \in Workers, (p \in Handlers /\ pc'[p] = "reply") \/ pc'[p] = "idle"
  PROVE  Local(p)'
<1>1. pc'[p] \notin Holding \cup Busy \cup Reserving \cup {"reserve", "load"}
  BY DEF Holding, Busy, ResolverStates, Reserving
<1>2. p \in Resolvers => pc'[p] = "idle"
  BY WorkersAssumption
<1>3. Placed(p)'
  BY <1>1, <1>2 DEF Placed, HandlerStates
<1>. QED
  BY <1>1, <1>3
  DEF Local, Locked, Private, Claimed, Waiting, Staged, Reservation, Found,
      ResolverStates, Busy

\* A session that has reserved nothing and changes no inbox row is within its own.
LEMMA RestInbox ==
  ASSUME NEW p \in Workers, pc'[p] \in {"reply", "idle", "reserve", "load"},
         inbox' = inbox
  PROVE  OwnInbox(p)
BY DEF OwnInbox, Reserved, HandlerStates

\* A refusal keeps to the session and leaves it at rest.
LEMMA RefuseStep ==
  ASSUME IndInv, NEW p \in Handlers, NEW code, Refuse(p, code), UNCHANGED db
  PROVE  Apart(p) /\ OwnInbox(p) /\ Local(p)'
<1>1. p \in Workers /\ SessionType /\ LockType
  BY HandlerFacts
<1>2. pc'[p] = "reply" /\ seen'[p] = NoSeen /\ inbox' = inbox
  BY <1>1 DEF Refuse, Return, SessionType, db
<1>3. Apart(p)
  BY <1>1, <1>2 DEF Apart, Refuse, Return, SessionType, LockType, Released, NoSeen, db
<1>. QED  BY <1>1, <1>2, <1>3, AtRest, RestInbox

\* A lost claim keeps to the session and leaves it at rest.
LEMMA LeaveStep ==
  ASSUME IndInv, NEW p \in Resolvers, Leave(p), UNCHANGED db
  PROVE  Apart(p) /\ OwnInbox(p) /\ Local(p)'
<1>1. p \in Workers /\ SessionType /\ LockType
  BY ResolverFacts
<1>2. pc'[p] = "idle" /\ seen'[p] = NoSeen /\ inbox' = inbox
  BY <1>1 DEF Leave, SessionType, db
<1>3. Apart(p)
  BY <1>1, <1>2 DEF Apart, Leave, SessionType, LockType, Released, NoSeen, db
<1>. QED  BY <1>1, <1>2, <1>3, AtRest, RestInbox

\* A handler keeps the message it has reserved while it goes on.
LEMMA KeepsReservation ==
  ASSUME IndInv, NEW p \in Handlers, pc[p] \in Reserving, req'[p] = req[p],
         inbox' = inbox, Apart(p)
  PROVE  OwnInbox(p) /\ Reservation(p)'
<1>1. Reservation(p)
  BY HandlerFacts
<1>2. OwnInbox(p)
  <2>1. ASSUME NEW m \in Messages, Reserved(p, m)'  PROVE  Reserved(p, m)
    BY <2>1 DEF Reserved, Reserving, HandlerStates
  <2>. QED  BY <2>1 DEF OwnInbox
<1>3. ASSUME NEW q \in Handlers \ {p}, NEW m, Reserved(q, m)'  PROVE  Reserved(q, m)
  <2>1. pc'[q] = pc[q] /\ req'[q] = req[q]
    BY DEF Apart, Workers
  <2>. QED  BY <1>3, <2>1 DEF Reserved
<1>4. Reservation(p)'
  <2>. SUFFICES ASSUME req[p].msg # ""
                PROVE  /\ inbox[req[p].msg].tx = 0
                       /\ \A q \in Handlers \ {p} : ~Reserved(q, req[p].msg)'
    BY DEF Reservation, Reserved
  <2>1. /\ inbox[req[p].msg].tx = 0
        /\ \A q \in Handlers \ {p} : ~Reserved(q, req[p].msg)
    BY <1>1 DEF Reservation
  <2>2. ASSUME NEW q \in Handlers \ {p}  PROVE  ~Reserved(q, req[p].msg)'
    <3>1. pc'[q] = pc[q] /\ req'[q] = req[q]
      BY DEF Apart, Workers
    <3>. QED  BY <2>1, <3>1 DEF Reserved
  <2>. QED  BY <2>1, <2>2
<1>. QED  BY <1>2, <1>4

\* The arrival of a command keeps to its session.
LEMMA ProcessStep ==
  ASSUME IndInv, NEW p \in Handlers, NEW r \in Requests, ProcessWager(p, r)
  PROVE  Apart(p) /\ OwnInbox(p) /\ Local(p)'
<1>1. p \in Workers /\ p \notin Resolvers /\ SessionType
  BY HandlerFacts
<1>2. UNCHANGED <<inbox, lock, seen, snap, out>>
  BY DEF ProcessWager, db
<1>3. Apart(p)
  BY <1>1, <1>2 DEF Apart, ProcessWager, SessionType
<1>4. /\ pc'[p] \in {"reply", "find", "reserve"} /\ req'[p] = r
      /\ pc'[p] = "reserve" => r.msg # ""
      /\ pc'[p] = "find" => r.msg = ""
  BY <1>1 DEF ProcessWager, SessionType
<1>5. CASE pc'[p] = "reply"
  BY <1>1, <1>2, <1>3, <1>5, AtRest, RestInbox
<1>6. CASE pc'[p] # "reply"
  <2>1. pc'[p] \notin Holding \cup Busy \cup {"load"}
    BY <1>4, <1>6 DEF Holding, Busy, ResolverStates
  <2>2. Placed(p)'
    BY <1>1, <1>4, <2>1 DEF Placed, HandlerStates
  <2>3. Reservation(p)'
    BY <1>4 DEF Reservation, Reserving
  <2>4. OwnInbox(p)
    BY <1>2, <1>4 DEF OwnInbox, Reserved, Messages
  <2>. QED
    BY <1>3, <2>1, <2>2, <2>3, <2>4
    DEF Local, Locked, Private, Claimed, Waiting, Staged, Found, ResolverStates, Busy
<1>. QED  BY <1>5, <1>6

\* reserveInbox waits for rivals, so a reservation is exclusive afterwards.
LEMMA ReserveStep ==
  ASSUME IndInv, NEW p \in Handlers, ReserveInbox(p)
  PROVE  Apart(p) /\ OwnInbox(p) /\ Local(p)'
<1>. DEFINE m == req[p].msg
<1>1. p \in Workers /\ p \notin Resolvers /\ SessionType /\ Placed(p)
  BY HandlerFacts
<1>2. UNCHANGED db /\ inbox' = inbox /\ pc[p] = "reserve"
  BY DEF ReserveInbox, db
<1>3. m # "" /\ m \in Messages
  BY <1>1, <1>2, SessionFacts DEF Placed
<1>4. CASE Refuse(p, "INBOX_MESSAGE_REUSED")
  BY <1>2, <1>4, RefuseStep
<1>5. CASE /\ inbox[m].tx = 0 /\ pc' = [pc EXCEPT ![p] = "find"]
           /\ UNCHANGED <<lock, req, seen, snap, out>>
  <2>1. Apart(p) /\ pc'[p] = "find"
    BY <1>1, <1>5 DEF Apart, SessionType
  <2>2. \A q \in Handlers \ {p} : ~Reserved(q, m)
    BY <1>5 DEF ReserveInbox
  <2>3. OwnInbox(p)
    BY <1>2, <1>5, <2>2 DEF OwnInbox, Reserved
  <2>4. Reservation(p)'
    <3>1. ASSUME NEW q \in Handlers \ {p}  PROVE  ~Reserved(q, m)'
      <4>1. pc'[q] = pc[q] /\ req' = req
        BY <2>1, <1>5 DEF Apart, Workers
      <4>. QED  BY <2>2, <4>1 DEF Reserved
    <3>. QED  BY <1>2, <1>5, <3>1 DEF Reservation
  <2>5. pc'[p] \notin Holding \cup Busy \cup {"reserve", "load"}
    BY <2>1 DEF Holding, Busy, ResolverStates
  <2>6. Placed(p)'
    BY <1>1, <2>1, <2>5 DEF Placed, HandlerStates
  <2>. QED
    BY <2>1, <2>3, <2>4, <2>5, <2>6
    DEF Local, Locked, Private, Claimed, Waiting, Staged, Found, ResolverStates, Busy
<1>6. CASE /\ inbox[m].tx # 0 /\ inbox[m].hash = InboxHash(req[p])
           /\ pc' = [pc EXCEPT ![p] = "load"]
           /\ UNCHANGED <<lock, req, seen, snap, out>>
  <2>1. Apart(p) /\ pc'[p] = "load"
    BY <1>1, <1>6 DEF Apart, SessionType
  <2>2. OwnInbox(p)
    BY <1>1, <1>2, <2>1, RestInbox
  <2>3. pc'[p] \notin Holding \cup Busy \cup Reserving
    BY <2>1 DEF Holding, Busy, ResolverStates, Reserving
  <2>4. Placed(p)'
    BY <1>1, <1>2, <1>3, <1>6, <2>1, <2>3 DEF Placed, HandlerStates, InboxHash
  <2>. QED
    BY <2>1, <2>2, <2>3, <2>4
    DEF Local, Locked, Private, Claimed, Waiting, Staged, Reservation, Found,
        ResolverStates, Busy
<1>. QED  BY <1>4, <1>5, <1>6 DEF ReserveInbox

\* Equal keys and equal payload hashes mean equal commands.
LEMMA HashInjective ==
  ASSUME NEW a \in Command, NEW b \in Command, a.key = b.key,
         PayloadHash(a) = PayloadHash(b)
  PROVE  a = b
<1>1. /\ a.provider = b.provider /\ a.ext = b.ext /\ a.player = b.player
      /\ a.wallet = b.wallet /\ a.round = b.round /\ a.kind = b.kind
      /\ a.amount = b.amount /\ a.currency = b.currency /\ a.ref = b.ref
  <2>1. \A c \in Command :
          /\ PayloadHash(c).provider = c.provider /\ PayloadHash(c).ext = c.ext
          /\ PayloadHash(c).player = c.player /\ PayloadHash(c).wallet = c.wallet
          /\ PayloadHash(c).round = c.round /\ PayloadHash(c).kind = c.kind
          /\ PayloadHash(c).amount = c.amount /\ PayloadHash(c).currency = c.currency
          /\ PayloadHash(c).ref = c.ref
    BY DEF PayloadHash, Command
  <2>. QED  BY <2>1
<1>. QED  BY <1>1 DEF Command

\* p goes to "replay" with a committed wager of its own command.
LEMMA ReplayStep ==
  ASSUME IndInv, NEW p \in Handlers, UNCHANGED db, NEW t \in TxIds, Exists(t),
         wager[t].cmd = req[p].cmd,
         seen' = [seen EXCEPT ![p] = [id |-> t, row |-> wager[t]]],
         pc' = [pc EXCEPT ![p] = "replay"],
         UNCHANGED <<lock, req, snap, out>>,
         pc[p] \in Reserving \/ inbox[req[p].msg].tx # 0
  PROVE  Apart(p) /\ OwnInbox(p) /\ Local(p)'
<1>1. p \in Workers /\ p \notin Resolvers /\ SessionType
  BY HandlerFacts
<1>2. /\ pc'[p] = "replay" /\ seen'[p].id = t /\ req' = req
      /\ wager' = wager /\ inbox' = inbox
  BY <1>1 DEF SessionType, db
<1>3. Apart(p)
  BY <1>1, <1>2 DEF Apart, SessionType
<1>4. OwnInbox(p)
  <2>1. ASSUME NEW m \in Messages, Reserved(p, m)'
        PROVE  Reserved(p, m) \/ inbox[m].tx # 0
    BY <1>2, <2>1 DEF Reserved, Reserving, HandlerStates
  <2>. QED  BY <1>2, <2>1 DEF OwnInbox
<1>5. pc'[p] \notin Holding \cup ResolverStates \cup Reserving \cup {"reserve", "load"}
  BY <1>2 DEF Holding, ResolverStates, Reserving
<1>6. t # 0
  BY TxIdsAssumption
<1>7. Placed(p)'
  BY <1>1, <1>2, <1>5, <1>6 DEF Placed, HandlerStates
<1>8. Found(p)'
  BY <1>2 DEF Found, Exists, Present
<1>. QED
  BY <1>3, <1>4, <1>5, <1>7, <1>8
  DEF Local, Locked, Private, Claimed, Waiting, Staged, Reservation, ResolverStates,
      Reserving

\* The wager of a known message is the one of the command in it.
LEMMA LoadStep ==
  ASSUME IndInv, NEW p \in Handlers, LoadInboxWager(p)
  PROVE  Apart(p) /\ OwnInbox(p) /\ Local(p)'
<1>. DEFINE m == req[p].msg
            t == inbox[m].tx
<1>1. p \in Workers /\ DbType /\ SessionType /\ Placed(p) /\ InboxPointsHome
  BY HandlerFacts DEF IndInv
<1>2. UNCHANGED db /\ pc[p] = "load"
  BY DEF LoadInboxWager
<1>3. m \in Messages /\ t # 0 /\ inbox[m].hash = InboxHash(req[p])
  BY <1>1, <1>2, SessionFacts DEF Placed
<1>4. Exists(t) /\ wager[t].cmd = req[p].cmd /\ t \in TxIds
  BY <1>1, <1>3 DEF InboxPointsHome, InboxHash, Exists, Present
<1>5. CASE Refuse(p, "INBOX_MESSAGE_REUSED")
  BY <1>2, <1>5, RefuseStep
<1>6. CASE /\ seen' = [seen EXCEPT ![p] = [id |-> t, row |-> wager[t]]]
           /\ pc' = [pc EXCEPT ![p] = "replay"]
           /\ UNCHANGED <<lock, req, snap, out, reply>>
  BY <1>2, <1>3, <1>4, <1>6, ReplayStep
<1>. QED  BY <1>5, <1>6 DEF LoadInboxWager

\* findIdentity replays only the wager of an equal command: key and hash agree.
LEMMA FindStep ==
  ASSUME IndInv, NEW p \in Handlers, FindIdentity(p)
  PROVE  Apart(p) /\ OwnInbox(p) /\ Local(p)'
<1>. DEFINE c == req[p].cmd
            hits == IF ByKey(wager, c) # {} THEN ByKey(wager, c) ELSE ByExt(wager, c)
            t == CHOOSE t \in hits : TRUE
<1>1. p \in Workers /\ p \notin Resolvers /\ DbType /\ SessionType
  BY HandlerFacts
<1>2. UNCHANGED db /\ inbox' = inbox /\ pc[p] \in {"find", "refind"}
  BY DEF FindIdentity, db
<1>3. hits # {} => t \in TxIds /\ Exists(t)
  BY FoundType
<1>4. CASE \E code : Refuse(p, code)
  BY <1>2, <1>4, RefuseStep
<1>5. CASE /\ pc' = [pc EXCEPT ![p] = "lock"]
           /\ UNCHANGED <<lock, req, seen, snap, out, reply>>
  <2>1. Apart(p) /\ pc'[p] = "lock"
    BY <1>1, <1>5 DEF Apart, SessionType
  <2>2. OwnInbox(p) /\ Reservation(p)'
    BY <1>2, <1>5, <2>1, KeepsReservation DEF Reserving
  <2>3. pc'[p] \notin Holding \cup Busy \cup {"reserve", "load"}
    BY <2>1 DEF Holding, Busy, ResolverStates
  <2>4. Placed(p)'
    BY <1>1, <2>1, <2>3 DEF Placed, HandlerStates
  <2>. QED
    BY <2>1, <2>2, <2>3, <2>4
    DEF Local, Locked, Private, Claimed, Waiting, Staged, Found, ResolverStates, Busy
<1>6. CASE /\ hits # {} /\ wager[t].cmd.key = c.key
           /\ PayloadHash(wager[t].cmd) = PayloadHash(c)
           /\ seen' = [seen EXCEPT ![p] = [id |-> t, row |-> wager[t]]]
           /\ pc' = [pc EXCEPT ![p] = "replay"]
           /\ UNCHANGED <<lock, req, snap, out, reply>>
  <2>1. t \in TxIds /\ Exists(t)
    BY <1>3, <1>6
  <2>2. wager[t].cmd \in Command /\ c \in Command
    BY <1>1, <2>1, SessionFacts DEF DbType, Row
  <2>. HIDE DEF t, hits
  <2>3. wager[t].cmd = c
    BY <1>6, <2>2, HashInjective
  <2>. QED
    BY <1>2, <1>6, <2>1, <2>3, ReplayStep DEF Reserving
<1>. QED  BY <1>4, <1>5, <1>6 DEF FindIdentity

\* A replay points its message to the wager of its own command.
LEMMA CommitReplayStep ==
  ASSUME IndInv, NEW p \in Handlers, CommitReplay(p)
  PROVE  Apart(p) /\ OwnInbox(p) /\ Local(p)' /\ InboxPointsHome'
<1>. DEFINE m == req[p].msg
<1>1. p \in Workers /\ DbType /\ SessionType /\ LockType /\ Found(p)
  BY HandlerFacts
<1>2. pc[p] = "replay" /\ wager' = wager
  BY DEF CommitReplay
<1>3. pc'[p] = "reply" /\ seen'[p] = NoSeen
  BY <1>1 DEF CommitReplay, Return, SessionType
<1>4. Apart(p)
  BY <1>1, <1>3 DEF Apart, CommitReplay, Return, SessionType, LockType, Released, NoSeen
<1>5. \/ inbox' = inbox
      \/ /\ m # "" /\ inbox[m].tx = 0
         /\ inbox' = [inbox EXCEPT ![m] = [tx |-> seen[p].id, hash |-> InboxHash(req[p])]]
  BY DEF CommitReplay
<1>6. OwnInbox(p)
  <2>1. \A k \in Messages : ~Reserved(p, k)'
    BY <1>3 DEF Reserved, HandlerStates
  <2>2. ASSUME NEW k \in Messages, inbox'[k] # inbox[k]
        PROVE  inbox[k].tx = 0 /\ Reserved(p, k)
    <3>1. k = m /\ inbox[m].tx = 0
      BY <1>1, <1>5, <2>2 DEF DbType
    <3>. QED  BY <1>2, <3>1 DEF Reserved, HandlerStates
  <2>. QED  BY <2>1, <2>2 DEF OwnInbox
<1>7. Local(p)'
  BY <1>1, <1>3, AtRest
<1>8. InboxPointsHome'
  <2>1. InboxPointsHome
    BY DEF IndInv
  <2>2. CASE inbox' = inbox
    BY <1>2, <2>1, <2>2 DEF InboxPointsHome, Exists, Present
  <2>3. CASE inbox' = [inbox EXCEPT ![m] = [tx |-> seen[p].id, hash |-> InboxHash(req[p])]]
    <3>1. ASSUME NEW k \in Messages, inbox'[k].tx # 0
          PROVE  /\ Exists(inbox'[k].tx)
                 /\ wager[inbox'[k].tx].cmd = inbox'[k].hash.cmd
      <4>1. CASE k = m
        <5>1. inbox'[k] = [tx |-> seen[p].id, hash |-> InboxHash(req[p])]
          BY <1>1, <2>3, <4>1 DEF DbType
        <5>. QED  BY <1>1, <1>2, <5>1 DEF Found, InboxHash
      <4>2. CASE k # m
        <5>1. inbox'[k] = inbox[k]
          BY <1>1, <2>3, <4>2 DEF DbType
        <5>. QED  BY <2>1, <3>1, <5>1 DEF InboxPointsHome
      <4>. QED  BY <4>1, <4>2
    <3>. QED  BY <1>2, <3>1 DEF InboxPointsHome, Exists, Present
  <2>. QED  BY <1>5, <2>2, <2>3
<1>. QED  BY <1>4, <1>6, <1>7, <1>8

\* lockWallet takes a free lock and the balance it reads is the committed one.
LEMMA LockStep ==
  ASSUME IndInv, NEW p \in Handlers, LockWallet(p)
  PROVE  Apart(p) /\ OwnInbox(p) /\ Local(p)'
<1>. DEFINE w == req[p].cmd.wallet
<1>1. /\ p \in Workers /\ p \notin Resolvers /\ p # Nobody
      /\ DbType /\ SessionType /\ LockType
  BY HandlerFacts
<1>2. UNCHANGED db /\ inbox' = inbox /\ pc[p] = "lock" /\ w \in Wallets
  BY <1>1, SessionFacts DEF LockWallet, db
<1>3. CASE \E code : Refuse(p, code)
  BY <1>2, <1>3, RefuseStep
<1>4. CASE /\ wallet[w].version > 0 /\ lock[w] = Nobody
           /\ lock' = [lock EXCEPT ![w] = p]
           /\ snap' = [snap EXCEPT ![p] = wallet[w]]
           /\ pc'   = [pc EXCEPT ![p] = "insert"]
           /\ UNCHANGED <<req, seen, out, reply>>
  <2>1. pc'[p] = "insert" /\ snap'[p] = wallet[w] /\ lock'[w] = p /\ wallet' = wallet
    BY <1>1, <1>2, <1>4 DEF SessionType, LockType, db
  <2>2. Apart(p)
    BY <1>1, <1>2, <1>4 DEF Apart, SessionType, LockType
  <2>3. OwnInbox(p) /\ Reservation(p)'
    BY <1>2, <1>4, <2>2, KeepsReservation DEF Reserving
  <2>4. Placed(p)'
    BY <1>1, <2>1 DEF Placed, HandlerStates, Busy, ResolverStates
  <2>5. Locked(p)'
    <3>1. WalletOf(p)' = w
      BY <1>4 DEF WalletOf
    <3>. QED  BY <1>4, <2>1, <3>1 DEF Locked
  <2>. QED
    BY <2>1, <2>2, <2>3, <2>4, <2>5
    DEF Local, Private, Claimed, Waiting, Staged, Found, ResolverStates
<1>. QED  BY <1>3, <1>4 DEF LockWallet

\* The inserted row has an id of its own and stays private until the commit.
LEMMA InsertStep ==
  ASSUME IndInv, NEW p \in Handlers, InsertWager(p)
  PROVE  Apart(p) /\ OwnInbox(p) /\ Local(p)'
<1>1. /\ p \in Workers /\ p \notin Resolvers /\ DbType /\ SessionType /\ Locked(p)
  BY HandlerFacts
<1>2. /\ UNCHANGED <<db, lock, req, snap, out>> /\ inbox' = inbox /\ wager' = wager
      /\ wallet' = wallet /\ pc[p] = "insert" /\ WalletOf(p)' = WalletOf(p)
  BY DEF InsertWager, db, WalletOf
<1>3. CASE pc' = [pc EXCEPT ![p] = "refind"] /\ UNCHANGED seen
  <2>1. Apart(p) /\ pc'[p] = "refind"
    BY <1>1, <1>2, <1>3 DEF Apart, SessionType
  <2>2. OwnInbox(p) /\ Reservation(p)'
    BY <1>2, <2>1, KeepsReservation DEF Reserving
  <2>3. Placed(p)'
    BY <1>1, <2>1 DEF Placed, HandlerStates, Busy, ResolverStates
  <2>4. Locked(p)'
    BY <1>1, <1>2, <2>1 DEF Locked, Holding
  <2>. QED
    BY <2>1, <2>2, <2>3, <2>4 DEF Local, Private, Claimed, Waiting, Staged, Found, ResolverStates
<1>4. CASE /\ \E t \in TxIds : Free(t)
           /\ seen' = [seen EXCEPT ![p] = [id |-> FreshId, row |-> NewRow(req[p].cmd, "PENDING")]]
           /\ pc' = [pc EXCEPT ![p] = "apply"]
  <2>1. FreshId \in TxIds /\ Free(FreshId)
    BY <1>4, FreshIdType
  <2>2. /\ pc'[p] = "apply" /\ seen'[p].id = FreshId
        /\ seen'[p].row = NewRow(req[p].cmd, "PENDING")
    BY <1>1, <1>4 DEF SessionType
  <2>3. Apart(p)
    BY <1>1, <1>2, <1>4, <2>1, <2>2 DEF Apart, SessionType
  <2>4. OwnInbox(p) /\ Reservation(p)'
    BY <1>2, <2>3, KeepsReservation DEF Reserving
  <2>5. Placed(p)'
    <3>1. FreshId # 0
      BY <2>1, TxIdsAssumption
    <3>. QED  BY <1>1, <2>2, <3>1 DEF Placed, HandlerStates
  <2>6. Locked(p)'
    BY <1>1, <1>2, <2>2 DEF Locked, Holding
  <2>7. Private(p)'
    <3>1. seen'[p].row.cmd = req'[p].cmd
      <4>1. NewRow(req[p].cmd, "PENDING").cmd = req[p].cmd
        BY DEF NewRow
      <4>. QED  BY <1>2, <2>2, <4>1
    <3>2. (~Exists(seen[p].id))'
      BY <1>2, <2>1, <2>2 DEF Free, Exists, Present
    <3>3. \A q \in Workers \ {p} : seen'[q].id # seen'[p].id
      BY <2>1, <2>2, <2>3 DEF Free, Apart
    <3>. QED  BY <3>1, <3>2, <3>3 DEF Private
  <2>. QED
    BY <2>2, <2>3, <2>4, <2>5, <2>6, <2>7
    DEF Local, Claimed, Waiting, Staged, Found, ResolverStates
<1>. QED  BY <1>3, <1>4 DEF InsertWager

\* apply stages an outcome computed from the locked balance.
LEMMA ApplyStep ==
  ASSUME IndInv, NEW p \in Handlers, Apply(p)
  PROVE  Apart(p) /\ OwnInbox(p) /\ Local(p)'
<1>1. /\ p \in Workers /\ p \notin Resolvers /\ DbType /\ SessionType
      /\ Placed(p) /\ Locked(p) /\ Private(p)
  BY HandlerFacts
<1>2. UNCHANGED db /\ inbox' = inbox /\ wager' = wager /\ wallet' = wallet /\ pc[p] = "apply"
  BY DEF Apply, db
<1>3. CASE Refuse(p, "INVALID_WALLET")
  BY <1>2, <1>3, RefuseStep
<1>4. CASE /\ out' = [out EXCEPT ![p] = Settle(p, FALSE)]
           /\ pc'  = [pc EXCEPT ![p] = "commit"]
           /\ UNCHANGED <<lock, req, seen, snap, reply, faults>>
  <2>1. /\ pc'[p] = "commit" /\ out'[p] = Settle(p, FALSE) /\ WalletOf(p)' = WalletOf(p)
    BY <1>1, <1>4 DEF SessionType, WalletOf
  <2>2. Apart(p)
    BY <1>1, <1>4 DEF Apart, SessionType
  <2>3. OwnInbox(p) /\ Reservation(p)'
    BY <1>2, <1>4, <2>2, KeepsReservation DEF Reserving
  <2>4. seen[p].id # 0
    BY <1>1, <1>2 DEF Placed, Busy
  <2>5. Placed(p)'
    BY <1>1, <1>4, <2>1, <2>4 DEF Placed, HandlerStates
  <2>6. Locked(p)'
    BY <1>1, <1>2, <1>4, <2>1 DEF Locked, Holding
  <2>7. Private(p)'
    BY <1>1, <1>2, <1>4 DEF Private, Exists, Present
  <2>8. Staged(p)'
    <3>1. /\ Moves(Settle(p, FALSE), snap[p])
          /\ Settle(p, FALSE).row.cmd = seen[p].row.cmd
          /\ Settle(p, FALSE).row.status # "NONE"
      BY <1>1, <2>4, SettleSound
    <3>. QED  BY <1>4, <2>1, <3>1 DEF Staged, Moves
  <2>. QED
    BY <2>1, <2>2, <2>3, <2>5, <2>6, <2>7, <2>8
    DEF Local, Claimed, Waiting, Found, ResolverStates
<1>. QED  BY <1>3, <1>4 DEF Apply

\* The answer leaves the session empty.
LEMMA RespondStep ==
  ASSUME IndInv, NEW p \in Handlers, Respond(p)
  PROVE  Apart(p) /\ OwnInbox(p) /\ Local(p)'
<1>1. p \in Workers /\ SessionType
  BY HandlerFacts
<1>2. pc'[p] = "idle" /\ UNCHANGED <<lock, inbox, seen, snap, out>>
  BY <1>1 DEF Respond, SessionType, db
<1>3. Apart(p)
  BY <1>1, <1>2 DEF Apart, Respond, SessionType
<1>. QED  BY <1>1, <1>2, <1>3, AtRest, RestInbox

\* A resolver has no part in the inbox.
LEMMA ResolverInbox ==
  ASSUME NEW p \in Resolvers, inbox' = inbox
  PROVE  OwnInbox(p)
<1>1. p \notin Handlers
  BY WorkersAssumption
<1>. QED  BY <1>1 DEF OwnInbox, Reserved

\* What Local says of a resolver.
LEMMA ResolverLocal ==
  ASSUME NEW p \in Resolvers, pc'[p] \in ResolverStates, seen'[p].id # 0,
         Locked(p)', Claimed(p)', Waiting(p)', Staged(p)'
  PROVE  Local(p)'
<1>1. p \notin Handlers
  BY WorkersAssumption
<1>2. pc'[p] \notin Reserving \cup {"reserve", "load", "replay", "apply", "commit"}
  BY DEF ResolverStates, Reserving
<1>3. Placed(p)'
  BY <1>1, <1>2 DEF Placed
<1>. QED  BY <1>2, <1>3 DEF Local, Private, Reservation, Found

\* ClaimReferences gives a resolver a waiting wager of a wallet that exists.
LEMMA ClaimStep ==
  ASSUME IndInv, NEW p \in Resolvers, NEW t \in TxIds, ClaimReference(p, t)
  PROVE  Apart(p) /\ OwnInbox(p) /\ Local(p)'
<1>1. p \in Workers /\ SessionType
  BY ResolverFacts
<1>2. /\ UNCHANGED <<inbox, wager, lock, req, snap, out>>
      /\ wager[t].status = "PENDING_REFERENCE"
      /\ seen' = [seen EXCEPT ![p] = [id |-> t, row |-> wager[t]]]
      /\ pc' = [pc EXCEPT ![p] = "rlock"]
  BY DEF ClaimReference
<1>3. pc'[p] = "rlock" /\ seen'[p].id = t /\ seen'[p].row = wager[t] /\ Exists(t) /\ t # 0
  BY <1>1, <1>2, TxIdsAssumption DEF SessionType, Exists, Present
<1>4. Apart(p)
  BY <1>1, <1>2, <1>3 DEF Apart, SessionType
<1>5. Claimed(p)'
  BY <1>2, <1>3 DEF Claimed, Exists, Present
<1>6. Locked(p)' /\ Waiting(p)' /\ Staged(p)'
  BY <1>3 DEF Locked, Waiting, Staged, Holding
<1>7. pc'[p] \in ResolverStates
  BY <1>3 DEF ResolverStates
<1>. QED  BY <1>2, <1>3, <1>4, <1>5, <1>6, <1>7, ResolverInbox, ResolverLocal

\* RetryReference locks the wallet of the wager it claimed.
LEMMA RetryLockStep ==
  ASSUME IndInv, NEW p \in Resolvers, LockForRetry(p)
  PROVE  Apart(p) /\ OwnInbox(p) /\ Local(p)'
<1>. DEFINE w == seen[p].row.cmd.wallet
<1>1. /\ p \in Workers /\ p \notin Handlers /\ DbType /\ SessionType /\ LockType
      /\ Placed(p) /\ Claimed(p) /\ Funded
  BY ResolverFacts DEF IndInv
<1>2. /\ UNCHANGED <<inbox, wager, wallet, req, seen, out>> /\ pc[p] = "rlock"
      /\ lock[w] = Nobody /\ lock' = [lock EXCEPT ![w] = p]
      /\ snap' = [snap EXCEPT ![p] = wallet[w]]
      /\ pc' = [pc EXCEPT ![p] = "rselect"]
  BY DEF LockForRetry, db
<1>3. w \in Wallets
  BY <1>1, SessionFacts
<1>4. pc'[p] = "rselect" /\ snap'[p] = wallet[w] /\ lock'[w] = p
  BY <1>1, <1>2, <1>3 DEF SessionType, LockType
<1>5. Apart(p)
  BY <1>1, <1>2 DEF Apart, SessionType, LockType
<1>6. Exists(seen[p].id) /\ wager[seen[p].id].cmd = seen[p].row.cmd
  BY <1>1, <1>2 DEF Claimed, ResolverStates
<1>7. wallet[w].version > 0
  BY <1>1, <1>6 DEF Funded, Exists, Present
<1>8. Locked(p)'
  <2>1. WalletOf(p)' = w
    BY <1>1, <1>2 DEF WalletOf
  <2>. QED  BY <1>2, <1>4, <1>7, <2>1 DEF Locked
<1>9. Claimed(p)'
  BY <1>2, <1>6 DEF Claimed, Exists, Present
<1>10. seen'[p].id # 0 /\ pc'[p] \in ResolverStates
  BY <1>1, <1>2, <1>4 DEF Placed, Busy, ResolverStates
<1>11. Waiting(p)' /\ Staged(p)'
  BY <1>4 DEF Waiting, Staged
<1>. QED  BY <1>2, <1>5, <1>8, <1>9, <1>10, <1>11, ResolverInbox, ResolverLocal

\* After the fenced SELECT the wager still waits and the row read is the stored one.
LEMMA SelectStep ==
  ASSUME IndInv, NEW p \in Resolvers, SelectClaim(p)
  PROVE  Apart(p) /\ OwnInbox(p) /\ Local(p)'
<1>. DEFINE t == seen[p].id
<1>1. /\ p \in Workers /\ p \notin Handlers /\ DbType /\ SessionType
      /\ Placed(p) /\ Locked(p) /\ Claimed(p)
  BY ResolverFacts
<1>2. UNCHANGED db /\ UNCHANGED <<inbox, wager, wallet>> /\ pc[p] = "rselect"
  BY DEF SelectClaim, db
<1>3. CASE Leave(p)
  BY <1>2, <1>3, LeaveStep
<1>4. CASE /\ wager[t].status = "PENDING_REFERENCE"
           /\ seen' = [seen EXCEPT ![p].row = wager[t]]
           /\ pc'   = [pc EXCEPT ![p] = "rapply"]
           /\ UNCHANGED <<lock, req, snap, out, reply>>
  <2>1. pc'[p] = "rapply" /\ seen'[p].id = t /\ seen'[p].row = wager[t]
    <3>1. seen[p] \in Seen
      BY <1>1 DEF SessionType
    <3>. QED  BY <1>1, <1>4, <3>1 DEF SessionType, Seen
  <2>2. Apart(p)
    BY <1>1, <1>4, <2>1 DEF Apart, SessionType
  <2>3. Exists(t) /\ wager[t].cmd = seen[p].row.cmd
    BY <1>1, <1>2 DEF Claimed, ResolverStates
  <2>4. WalletOf(p)' = WalletOf(p)
    BY <1>1, <2>1, <2>3 DEF WalletOf
  <2>5. Locked(p)'
    BY <1>1, <1>2, <1>4, <2>1, <2>4 DEF Locked, Holding
  <2>6. Claimed(p)'
    BY <1>2, <2>1, <2>3 DEF Claimed, Exists, Present
  <2>7. Waiting(p)'
    BY <1>2, <1>4, <2>1 DEF Waiting
  <2>8. Staged(p)'
    BY <2>1 DEF Staged
  <2>9. seen'[p].id # 0 /\ pc'[p] \in ResolverStates
    BY <1>1, <1>2, <2>1 DEF Placed, Busy, ResolverStates
  <2>. QED  BY <1>2, <2>2, <2>5, <2>6, <2>7, <2>8, <2>9, ResolverInbox, ResolverLocal
<1>. QED  BY <1>3, <1>4 DEF SelectClaim

\* RetryReference stages an outcome, the failure, or one more wait, each computed from
\* the locked balance.
LEMMA RetryApplyStep ==
  ASSUME IndInv, NEW p \in Resolvers, RetryApply(p)
  PROVE  Apart(p) /\ OwnInbox(p) /\ Local(p)'
<1>1. /\ p \in Workers /\ p \notin Handlers /\ DbType /\ SessionType
      /\ Placed(p) /\ Locked(p) /\ Claimed(p) /\ Waiting(p)
  BY ResolverFacts
<1>2. /\ UNCHANGED <<inbox, wager, wallet, lock, req, seen, snap>> /\ pc[p] = "rapply"
      /\ pc' = [pc EXCEPT ![p] = "rcommit"]
  BY DEF RetryApply, db
<1>3. seen[p].id # 0 /\ seen[p].id \in TxIds /\ seen[p].row \in Row /\ snap[p] \in Balance
  <2>1. seen[p].id # 0
    BY <1>1, <1>2 DEF Placed, Busy, ResolverStates
  <2>. QED  BY <1>1, <2>1, SessionFacts
<1>4. \E o : /\ out' = [out EXCEPT ![p] = o]
             /\ Moves(o, snap[p])
             /\ o.row.cmd = seen[p].row.cmd
             /\ o.row.status # "NONE"
  <2>1. PICK late \in BOOLEAN :
          LET exhausted == poll[seen[p].id].attempts + 1 >= MaxAttempts \/ late IN
          \/ out' = [out EXCEPT ![p] = Settle(p, exhausted)]
          \/ out' = [out EXCEPT ![p] = Failure(seen[p].id, seen[p].row, snap[p])]
          \/ out' = [out EXCEPT ![p] = [row |-> seen[p].row, wallet |-> snap[p],
                                        dir |-> "NONE", events |-> <<>>]]
    BY DEF RetryApply
  <2>. DEFINE exhausted == poll[seen[p].id].attempts + 1 >= MaxAttempts \/ late
  <2>2. exhausted \in BOOLEAN
    OBVIOUS
  <2>. HIDE DEF exhausted
  <2>3. CASE out' = [out EXCEPT ![p] = Settle(p, exhausted)]
    <3>1. /\ Moves(Settle(p, exhausted), snap[p])
          /\ Settle(p, exhausted).row.cmd = seen[p].row.cmd
          /\ Settle(p, exhausted).row.status # "NONE"
      BY <1>1, <1>3, <2>2, SettleSound
    <3>. QED  BY <2>3, <3>1
  <2>4. CASE out' = [out EXCEPT ![p] = Failure(seen[p].id, seen[p].row, snap[p])]
    <3>. DEFINE o == Failure(seen[p].id, seen[p].row, snap[p])
    <3>1. Moves(o, snap[p]) /\ o.row.cmd = seen[p].row.cmd /\ o.row.status = "FAILED"
      BY <1>3, FailureSound
    <3>. HIDE DEF o
    <3>. QED  BY <2>4, <3>1 DEF o
  <2>5. CASE out' = [out EXCEPT ![p] = [row |-> seen[p].row, wallet |-> snap[p],
                                        dir |-> "NONE", events |-> <<>>]]
    <3>. DEFINE o == [row |-> seen[p].row, wallet |-> snap[p], dir |-> "NONE",
                      events |-> <<>>]
    <3>1. Moves(o, snap[p]) /\ o.row = seen[p].row
      BY DEF Moves
    <3>2. seen[p].row.status = "PENDING_REFERENCE"
      BY <1>1, <1>2 DEF Waiting
    <3>. HIDE DEF o
    <3>. QED  BY <2>5, <3>1, <3>2 DEF o
  <2>. QED  BY <2>1, <2>3, <2>4, <2>5 DEF exhausted
<1>5. pc'[p] = "rcommit"
  BY <1>1, <1>2 DEF SessionType
<1>6. Apart(p)
  BY <1>1, <1>2, <1>4 DEF Apart, SessionType
<1>7. Staged(p)'
  BY <1>1, <1>2, <1>4 DEF Staged, SessionType, Moves
<1>8. Locked(p)'
  <2>1. WalletOf(p)' = WalletOf(p)
    BY <1>2 DEF WalletOf
  <2>. QED  BY <1>1, <1>2, <2>1 DEF Locked, Holding
<1>9. Claimed(p)' /\ Waiting(p)'
  BY <1>1, <1>2 DEF Claimed, Waiting, Exists, Present, ResolverStates
<1>10. seen'[p].id # 0 /\ pc'[p] \in ResolverStates
  BY <1>2, <1>3, <1>5 DEF ResolverStates
<1>. QED  BY <1>2, <1>6, <1>7, <1>8, <1>9, <1>10, ResolverInbox, ResolverLocal

(***************************************************************************)
(* Commits.                                                                *)
(***************************************************************************)
Chain(l) ==
  \A i \in DOMAIN l : /\ l[i].before = IF i = 1 THEN 0 ELSE l[i - 1].after
                      /\ l[i].after = l[i].before + Signed(l[i])
Closing(l) == IF l = <<>> THEN 0 ELSE l[Len(l)].after
Balanced(l, b, opening) ==
  /\ Chain(l)
  /\ b.balance = Closing(l)
  /\ b.version > 0 => b.version = Len(l) + (IF opening > 0 THEN 0 ELSE 1)
  /\ b.version = 0 => l = <<>>

\* LedgerChain, wallet by wallet, in the form the lemmas on sequences use.
LEMMA LedgerChainParts ==
  LedgerChain <=> \A w \in Wallets : Balanced(ledger[w], wallet[w], Accounts[w].initial)
BY DEF LedgerChain, Balanced, Chain, Closing

\* One more entry that starts where the chain ends keeps it a chain.
LEMMA ChainExtends ==
  ASSUME NEW l \in Seq(Entry), NEW e \in Entry, Chain(l), e.before = Closing(l),
         e.after = e.before + Signed(e)
  PROVE  Chain(Append(l, e)) /\ Closing(Append(l, e)) = e.after
<1>. DEFINE n == Append(l, e)
<1>1. /\ n \in Seq(Entry) /\ Len(n) = Len(l) + 1 /\ n[Len(n)] = e /\ n # <<>>
      /\ DOMAIN n = 1 .. Len(l) + 1 /\ DOMAIN l = 1 .. Len(l) /\ Len(l) \in Nat
  OBVIOUS
<1>2. \A i \in 1 .. Len(l) : n[i] = l[i]
  OBVIOUS
<1>. HIDE DEF n
<1>3. Closing(n) = e.after
  BY <1>1 DEF Closing
<1>4. ASSUME NEW i \in DOMAIN n
      PROVE  /\ n[i].before = IF i = 1 THEN 0 ELSE n[i - 1].after
             /\ n[i].after = n[i].before + Signed(n[i])
  <2>1. CASE i \in 1 .. Len(l)
    <3>1. n[i] = l[i] /\ (i # 1 => n[i - 1] = l[i - 1])
      BY <1>1, <1>2, <2>1
    <3>. QED  BY <1>1, <2>1, <3>1 DEF Chain
  <2>2. CASE i = Len(l) + 1
    <3>1. n[i] = e
      BY <1>1, <2>2
    <3>2. CASE l = <<>>
      <4>1. i = 1
        BY <2>2, <3>2
      <4>. QED  BY <3>1, <3>2, <4>1 DEF Closing
    <3>3. CASE l # <<>>
      <4>1. Len(l) \in 1 .. Len(l) /\ i # 1 /\ i - 1 = Len(l)
        BY <1>1, <2>2, <3>3
      <4>2. n[i - 1] = l[Len(l)]
        BY <1>2, <4>1
      <4>. QED  BY <3>1, <3>3, <4>1, <4>2 DEF Closing
    <3>. QED  BY <3>2, <3>3
  <2>. QED  BY <1>1, <1>4, <2>1, <2>2
<1>. QED  BY <1>3, <1>4 DEF Chain, n

\* A movement keeps a wallet and its ledger balanced.
LEMMA MovementBalances ==
  ASSUME NEW l \in Seq(Entry), NEW b \in Balance, NEW opening \in Minor,
         NEW id \in TxIds, NEW o \in Out, Moves(o, b), o.dir # "NONE", b.version > 0,
         Balanced(l, b, opening)
  PROVE  Balanced(Append(l, LedgerEntry(id, o, b)), o.wallet, opening)
<1>. DEFINE e == LedgerEntry(id, o, b)
            n == Append(l, e)
<1>1. /\ o.row \in Row /\ o.wallet \in Balance /\ o.dir \in {"DEBIT", "CREDIT"}
  BY DEF Out, Directions
<1>2. e \in Entry
  BY <1>1, EntryType DEF Directions
<1>3. /\ e.before = b.balance /\ e.after = o.wallet.balance /\ e.dir = o.dir
      /\ e.amount = o.row.cmd.amount
  BY DEF LedgerEntry
<1>4. /\ e.amount \in Int /\ b.balance \in Int /\ b.version \in Nat
      /\ o.wallet.balance \in Int
  BY <1>1, <1>2, MaxIntAssumption DEF Entry, Balance, Minor
<1>. HIDE DEF e
<1>5. e.after = e.before + Signed(e)
  <2>1. CASE o.dir = "DEBIT"
    BY <1>3, <1>4, <2>1 DEF Moves, Signed
  <2>2. CASE o.dir = "CREDIT"
    BY <1>3, <1>4, <2>2 DEF Moves, Signed
  <2>. QED  BY <1>1, <2>1, <2>2
<1>6. Chain(n) /\ Closing(n) = o.wallet.balance
  BY <1>2, <1>3, <1>5, ChainExtends DEF Balanced
<1>7. o.wallet.version = b.version + 1
  BY DEF Moves
<1>8. Len(n) = Len(l) + 1 /\ Len(l) \in Nat
  OBVIOUS
<1>. HIDE DEF n
<1>. QED
  BY <1>4, <1>6, <1>7, <1>8 DEF Balanced, n, e

\* An install by p changes the rows of the wallet that p holds, and its own wager.
LEMMA InstallStep ==
  ASSUME IndInv, NEW p \in Workers, NEW n, Install(p, n), pc[p] \in {"commit", "rcommit"},
         Apart(p), OwnInbox(p)
  PROVE  /\ \A q \in Workers \ {p} : Local(q)'
         /\ Funded' /\ LedgerChain'
         /\ \A t \in TxIds : Exists(t) => Exists(t)' /\ wager'[t].cmd = wager[t].cmd
         /\ wager'[seen[p].id] = out[p].row /\ out[p].row.status # "NONE"
         /\ seen[p].id \in TxIds
         /\ \A v \in Wallets : wallet[v].version > 0 => wallet'[v].version > 0
         /\ \A v \in Wallets : lock[v] # p =>
              /\ wallet'[v] = wallet[v] /\ ledger'[v] = ledger[v]
              /\ \A t \in TxIds : Exists(t) /\ wager[t].cmd.wallet = v => wager'[t] = wager[t]
<1>. DEFINE id == seen[p].id
            o == out[p]
            w == o.row.cmd.wallet
<1>1. /\ DbType /\ SessionType /\ LockType /\ Funded /\ LedgerChain
      /\ Placed(p) /\ Locked(p) /\ Private(p) /\ Claimed(p) /\ Waiting(p) /\ Staged(p)
  BY TypeParts DEF IndInv, Local
<1>2. id \in TxIds /\ w \in Wallets
  <2>1. id # 0
    BY <1>1 DEF Placed, Busy, ResolverStates
  <2>. QED  BY <1>1, <2>1, SessionFacts
<1>3. Moves(o, snap[p]) /\ o.row.cmd = seen[p].row.cmd /\ o.row.status # "NONE"
  BY <1>1 DEF Staged
<1>4. w = WalletOf(p)
  <2>1. CASE pc[p] = "commit"
    <3>1. p \in Handlers
      BY <1>1, <2>1 DEF Placed, Workers, ResolverStates
    <3>. QED  BY <1>1, <1>3, <2>1, <3>1 DEF Private, WalletOf
  <2>2. CASE pc[p] = "rcommit"
    <3>1. p \notin Handlers
      BY <1>1, <2>2 DEF Placed, HandlerStates
    <3>. QED  BY <1>3, <3>1 DEF WalletOf
  <2>. QED  BY <2>1, <2>2
<1>5. lock[w] = p /\ wallet[w] = snap[p] /\ snap[p].version > 0
  BY <1>1, <1>4 DEF Locked, Holding
<1>6. /\ wager' = [wager EXCEPT ![id] = o.row]
      /\ \A v \in Wallets \ {w} : wallet'[v] = wallet[v] /\ ledger'[v] = ledger[v]
      /\ o.dir = "NONE" => wallet' = wallet /\ ledger' = ledger
      /\ o.dir # "NONE" => /\ wallet'[w] = o.wallet
                           /\ ledger'[w] = Append(ledger[w], LedgerEntry(id, o, snap[p]))
  BY <1>1, <1>2 DEF Install, DbType
<1>7. /\ wager'[id] = o.row
      /\ \A t \in TxIds \ {id} : wager'[t] = wager[t]
  BY <1>1, <1>2, <1>6 DEF DbType
<1>8. ASSUME NEW t \in TxIds, t = id  PROVE  Exists(t)'
  BY <1>3, <1>7, <1>8 DEF Exists, Present

\* A row that was there keeps its command.
<1>9. Exists(id) => wager[id].cmd = o.row.cmd
  <2>1. CASE pc[p] = "commit"
    BY <1>1, <2>1 DEF Private
  <2>2. CASE pc[p] = "rcommit"
    BY <1>1, <1>3, <2>2 DEF Claimed, ResolverStates
  <2>. QED  BY <2>1, <2>2
<1>10. ASSUME NEW t \in TxIds, Exists(t)  PROVE  Exists(t)' /\ wager'[t].cmd = wager[t].cmd
  <2>1. CASE t = id
    BY <1>7, <1>8, <1>9, <1>10, <2>1
  <2>2. CASE t # id
    BY <1>7, <1>10, <2>2 DEF Exists, Present
  <2>. QED  BY <2>1, <2>2
<1>11. \A v \in Wallets : wallet[v].version > 0 => wallet'[v].version > 0
  <2>1. CASE o.dir = "NONE"
    BY <1>6, <2>1
  <2>2. CASE o.dir # "NONE"
    <3>1. snap[p].version \in Nat /\ o.wallet.version = snap[p].version + 1
      BY <1>1, <1>3, <2>2, SessionFacts DEF Moves, Balance
    <3>. QED  BY <1>6, <2>2, <3>1
  <2>. QED  BY <2>1, <2>2
<1>12. Funded'
  <2>. SUFFICES ASSUME NEW t \in TxIds, Exists(t)'
                PROVE  wallet'[wager'[t].cmd.wallet].version > 0
    BY DEF Funded
  <2>1. CASE t = id
    BY <1>2, <1>5, <1>7, <1>11, <2>1
  <2>2. CASE t # id
    <3>1. Exists(t) /\ wager'[t] = wager[t]
      BY <1>7, <2>2 DEF Exists, Present
    <3>2. wager[t].cmd.wallet \in Wallets
      BY <1>1 DEF DbType, Row, Command
    <3>. QED  BY <1>1, <1>11, <3>1, <3>2 DEF Funded
  <2>. QED  BY <2>1, <2>2
<1>13. LedgerChain'
  <2>1. ASSUME NEW v \in Wallets
        PROVE  Balanced(ledger'[v], wallet'[v], Accounts[v].initial)
    <3>1. Balanced(ledger[v], wallet[v], Accounts[v].initial)
      BY <1>1, LedgerChainParts
    <3>2. CASE v # w \/ o.dir = "NONE"
      BY <1>6, <3>1, <3>2
    <3>3. CASE v = w /\ o.dir # "NONE"
      <4>1. /\ ledger[w] \in Seq(Entry) /\ o \in Out /\ snap[p] \in Balance
            /\ Accounts[w].initial \in Minor
        BY <1>1, <1>2, AccountsAssumption DEF DbType, SessionType, Account
      <4>2. Balanced(Append(ledger[w], LedgerEntry(id, o, snap[p])), o.wallet,
                     Accounts[w].initial)
        BY <1>2, <1>3, <1>5, <3>1, <3>3, <4>1, MovementBalances
      <4>. QED  BY <1>6, <3>3, <4>2
    <3>. QED  BY <3>2, <3>3
  <2>. QED
    BY <2>1 DEF LedgerChain, Balanced, Chain, Closing
<1>14. ASSUME NEW q \in Workers, q # p  PROVE  Local(q)'
  <2>1. /\ pc'[q] = pc[q] /\ req'[q] = req[q] /\ seen'[q] = seen[q]
        /\ snap'[q] = snap[q] /\ out'[q] = out[q]
    BY <1>14 DEF Apart
  <2>2. /\ Placed(q) /\ Locked(q) /\ Private(q) /\ Claimed(q) /\ Waiting(q) /\ Staged(q)
        /\ Found(q)
    BY DEF IndInv, Local
  <2>3. WalletOf(q)' = WalletOf(q) /\ WalletOf(q) \in Wallets
    BY <1>1, <2>1, WalletOfType DEF WalletOf
  <2>4. Placed(q)' /\ Reservation(q)'
    BY <1>14, OthersKeepInbox
  <2>5. pc[q] \in Holding => WalletOf(q) # w
    BY <1>5, <1>14, <2>2 DEF Locked
  <2>6. Locked(q)'
    <3>1. CASE pc[q] \in Holding
      <4>1. lock[WalletOf(q)] = q /\ q # Nobody
        BY <2>2, <3>1, WorkersAssumption DEF Locked
      <4>2. lock'[WalletOf(q)] = q
        BY <1>14, <2>3, <4>1 DEF Apart
      <4>3. wallet'[WalletOf(q)] = wallet[WalletOf(q)]
        BY <1>6, <2>3, <2>5, <3>1
      <4>. QED  BY <2>1, <2>2, <2>3, <3>1, <4>2, <4>3 DEF Locked
    <3>2. CASE pc[q] \notin Holding
      BY <2>1, <3>2 DEF Locked
    <3>. QED  BY <3>1, <3>2
  <2>7. Private(q)'
    <3>1. CASE pc[q] \in {"apply", "commit"}
      <4>1. /\ seen[q].row.cmd = req[q].cmd /\ ~Exists(seen[q].id)
            /\ \A s \in Workers \ {q} : seen[s].id # seen[q].id
        BY <2>2, <3>1 DEF Private
      <4>2. seen[q].id # 0 /\ seen[q].id \in TxIds /\ seen[q].id # id
        BY <1>1, <1>14, <2>2, <3>1, <4>1, SessionFacts DEF Placed, Busy
      <4>3. seen'[p].id # seen[q].id
        <5>1. ~Free(seen[q].id)
          BY DEF Free
        <5>. QED  BY <4>1, <4>2, <5>1 DEF Apart
      <4>4. \A s \in Workers \ {q} : seen'[s].id # seen'[q].id
        BY <2>1, <4>1, <4>3 DEF Apart
      <4>5. (~Exists(seen[q].id))'
        BY <1>7, <2>1, <4>1, <4>2 DEF Exists, Present
      <4>. QED  BY <2>1, <4>1, <4>4, <4>5 DEF Private
    <3>2. CASE pc[q] \notin {"apply", "commit"}
      BY <2>1, <3>2 DEF Private
    <3>. QED  BY <3>1, <3>2
  <2>8. Claimed(q)' /\ Found(q)'
    <3>1. ASSUME Exists(seen[q].id)
          PROVE  (Exists(seen[q].id))' /\ wager'[seen[q].id].cmd = wager[seen[q].id].cmd
      <4>1. seen[q].id \in TxIds
        BY <3>1 DEF Exists, Present
      <4>. QED  BY <1>10, <2>1, <3>1, <4>1 DEF Exists, Present
    <3>. QED  BY <2>1, <2>2, <3>1 DEF Claimed, Found
  <2>9. Waiting(q)'
    <3>1. CASE pc[q] \in {"rapply", "rcommit"}
      <4>1. q \notin Handlers /\ WalletOf(q) = seen[q].row.cmd.wallet /\ pc[q] \in Holding
        BY <2>2, <3>1 DEF Placed, HandlerStates, WalletOf, Holding
      <4>2. Exists(seen[q].id) /\ wager[seen[q].id].cmd = seen[q].row.cmd
        BY <2>2, <3>1 DEF Claimed, ResolverStates
      <4>3. seen[q].id # id
        BY <1>9, <2>5, <4>1, <4>2
      <4>4. wager'[seen[q].id] = wager[seen[q].id]
        BY <1>7, <4>2, <4>3 DEF Exists, Present
      <4>. QED  BY <2>1, <2>2, <4>4 DEF Waiting
    <3>2. CASE pc[q] \notin {"rapply", "rcommit"}
      BY <2>1, <3>2 DEF Waiting
    <3>. QED  BY <3>1, <3>2
  <2>10. Staged(q)'
    BY <2>1, <2>2 DEF Staged, Moves
  <2>. QED
    BY <2>4, <2>6, <2>7, <2>8, <2>9, <2>10 DEF Local
<1>15. ASSUME NEW v \in Wallets, lock[v] # p
       PROVE  /\ wallet'[v] = wallet[v] /\ ledger'[v] = ledger[v]
              /\ \A t \in TxIds : Exists(t) /\ wager[t].cmd.wallet = v => wager'[t] = wager[t]
  <2>1. v # w
    BY <1>5, <1>15
  <2>. QED  BY <1>6, <1>7, <1>9, <2>1
<1>. QED
  BY <1>2, <1>3, <1>7, <1>10, <1>11, <1>12, <1>13, <1>14, <1>15

\* The invariant without the types.
Core ==
  /\ \A p \in Workers : Local(p)
  /\ Funded /\ InboxPointsHome /\ LedgerChain

\* A step of p that changes neither wagers nor wallets nor ledgers keeps it.
LEMMA QuietStep ==
  ASSUME IndInv, NEW p \in Workers, Apart(p), OwnInbox(p), Local(p)', InboxPointsHome',
         UNCHANGED <<wager, wallet, ledger>>
  PROVE  Core'
<1>1. \A q \in Workers \ {p} : Local(q)'
  BY OthersKeep
<1>2. Funded'
  BY DEF IndInv, Funded, Exists, Present
<1>3. LedgerChain'
  BY DEF IndInv, LedgerChain
<1>. QED  BY <1>1, <1>2, <1>3 DEF Core

\* With the inbox unchanged too, the messages still point home.
LEMMA SilentStep ==
  ASSUME IndInv, NEW p \in Workers, Apart(p), OwnInbox(p), Local(p)',
         UNCHANGED <<wager, wallet, ledger, inbox>>
  PROVE  Core'
<1>1. InboxPointsHome'
  BY DEF IndInv, InboxPointsHome, Exists, Present
<1>. QED  BY <1>1, QuietStep

\* The commit of a command: its own wager, its wallet and its message.
LEMMA CommitStep ==
  ASSUME IndInv, NEW p \in Handlers, Commit(p)
  PROVE  Apart(p) /\ OwnInbox(p) /\ Core'
<1>. DEFINE m == req[p].msg
            id == seen[p].id
<1>1. /\ p \in Workers /\ DbType /\ SessionType /\ LockType /\ Private(p) /\ Staged(p)
      /\ Reservation(p)
  BY HandlerFacts
<1>2. pc[p] = "commit" /\ Install(p, 0)
  BY DEF Commit
<1>3. pc'[p] = "reply" /\ seen'[p] = NoSeen
  BY <1>1 DEF Commit, Return, SessionType
<1>4. Apart(p)
  BY <1>1, <1>3 DEF Apart, Commit, Install, Return, SessionType, LockType, Released, NoSeen
<1>5. inbox' = IF m = "" THEN inbox
               ELSE [inbox EXCEPT ![m] = [tx |-> id, hash |-> InboxHash(req[p])]]
  BY DEF Commit
<1>6. OwnInbox(p)
  <2>1. \A k \in Messages : ~Reserved(p, k)'
    BY <1>3 DEF Reserved, HandlerStates
  <2>2. ASSUME NEW k \in Messages, inbox'[k] # inbox[k]
        PROVE  inbox[k].tx = 0 /\ Reserved(p, k)
    <3>1. k = m /\ m # ""
      BY <1>1, <1>5, <2>2 DEF DbType
    <3>2. inbox[m].tx = 0
      BY <1>1, <1>2, <3>1 DEF Reservation, Reserving
    <3>. QED  BY <1>2, <3>1, <3>2 DEF Reserved, HandlerStates
  <2>. QED  BY <2>1, <2>2 DEF OwnInbox
<1>7. Local(p)'
  BY <1>1, <1>3, AtRest
<1>8. /\ \A q \in Workers \ {p} : Local(q)'
      /\ Funded' /\ LedgerChain'
      /\ \A t \in TxIds : Exists(t) => Exists(t)' /\ wager'[t].cmd = wager[t].cmd
      /\ wager'[id] = out[p].row /\ out[p].row.status # "NONE" /\ id \in TxIds
  BY <1>1, <1>2, <1>4, <1>6, InstallStep
<1>9. InboxPointsHome'
  <2>1. InboxPointsHome
    BY DEF IndInv
  <2>2. ASSUME NEW k \in Messages, inbox'[k].tx # 0
        PROVE  /\ inbox'[k].tx \in TxIds /\ wager'[inbox'[k].tx].status # "NONE"
               /\ wager'[inbox'[k].tx].cmd = inbox'[k].hash.cmd
    <3>1. CASE k = m /\ m # ""
      <4>1. inbox'[k] = [tx |-> id, hash |-> InboxHash(req[p])]
        BY <1>1, <1>5, <3>1 DEF DbType
      <4>2. out[p].row.cmd = req[p].cmd
        BY <1>1, <1>2 DEF Staged, Private
      <4>. QED  BY <1>8, <4>1, <4>2 DEF InboxHash
    <3>2. CASE ~(k = m /\ m # "")
      <4>1. inbox'[k] = inbox[k]
        BY <1>1, <1>5, <3>2 DEF DbType
      <4>2. Exists(inbox[k].tx) /\ wager[inbox[k].tx].cmd = inbox[k].hash.cmd
        BY <2>1, <2>2, <4>1 DEF InboxPointsHome
      <4>3. inbox[k].tx \in TxIds
        BY <4>2 DEF Exists, Present
      <4>4. \A t \in TxIds : Exists(t) => wager'[t].status # "NONE"
        BY <1>8 DEF Exists, Present
      <4>. QED  BY <1>8, <4>1, <4>2, <4>3, <4>4
    <3>. QED  BY <3>1, <3>2
  <2>. QED  BY <2>2 DEF InboxPointsHome, Exists, Present
<1>. QED  BY <1>4, <1>6, <1>7, <1>8, <1>9 DEF Core

\* The commit of a retry leaves the inbox alone.
LEMMA RetryCommitStep ==
  ASSUME IndInv, NEW p \in Resolvers, RetryCommit(p)
  PROVE  Apart(p) /\ OwnInbox(p) /\ Core'
<1>1. p \in Workers /\ DbType /\ SessionType /\ LockType
  BY ResolverFacts
<1>2. pc[p] = "rcommit" /\ Install(p, poll[seen[p].id].attempts + 1) /\ inbox' = inbox
  BY DEF RetryCommit
<1>3. pc'[p] = "idle" /\ seen'[p] = NoSeen
  BY <1>1 DEF RetryCommit, SessionType
<1>4. Apart(p)
  BY <1>1, <1>3 DEF Apart, RetryCommit, Install, SessionType, LockType, Released, NoSeen
<1>5. OwnInbox(p)
  BY <1>2, ResolverInbox
<1>6. Local(p)'
  BY <1>1, <1>3, AtRest
<1>7. /\ \A q \in Workers \ {p} : Local(q)'
      /\ Funded' /\ LedgerChain'
      /\ \A t \in TxIds : Exists(t) => Exists(t)' /\ wager'[t].cmd = wager[t].cmd
  BY <1>1, <1>2, <1>4, <1>5, InstallStep
<1>8. InboxPointsHome'
  <2>1. InboxPointsHome
    BY DEF IndInv
  <2>2. ASSUME NEW k \in Messages, inbox[k].tx # 0
        PROVE  /\ inbox[k].tx \in TxIds /\ wager'[inbox[k].tx].status # "NONE"
               /\ wager'[inbox[k].tx].cmd = inbox[k].hash.cmd
    <3>1. Exists(inbox[k].tx) /\ wager[inbox[k].tx].cmd = inbox[k].hash.cmd
      BY <2>1, <2>2 DEF InboxPointsHome
    <3>2. inbox[k].tx \in TxIds
      BY <3>1 DEF Exists, Present
    <3>3. \A t \in TxIds : Exists(t) => wager'[t].status # "NONE"
      BY <1>7 DEF Exists, Present
    <3>. QED  BY <1>7, <3>1, <3>2, <3>3
  <2>. QED  BY <1>2, <2>2 DEF InboxPointsHome, Exists, Present
<1>. QED  BY <1>4, <1>5, <1>6, <1>7, <1>8 DEF Core

\* A new wallet disturbs no session: nobody holds a wallet that did not exist, and
\* the id of its opening wager is nobody's.
LEMMA CreateStep ==
  ASSUME IndInv, NEW w \in Wallets, CreateWallet(w)
  PROVE  Core'
<1>. DEFINE id == FreshId
            o == Opening(id, w)
            new == [balance |-> Accounts[w].initial, version |-> 1]
<1>1. /\ DbType /\ SessionType /\ LockType /\ Funded /\ LedgerChain /\ InboxPointsHome
  BY TypeParts DEF IndInv
<1>2. /\ wallet[w].version = 0 /\ inbox' = inbox /\ lock' = lock
      /\ pc' = pc /\ req' = req /\ seen' = seen /\ snap' = snap /\ out' = out
  BY DEF CreateWallet, session
<1>3. wallet' = [wallet EXCEPT ![w] = new]
  BY DEF CreateWallet, Opening
<1>4. \/ /\ Accounts[w].initial > 0 /\ id \in TxIds /\ Free(id)
         /\ wager' = [wager EXCEPT ![id] = o.row]
         /\ ledger' = [ledger EXCEPT ![w] = Append(ledger[w], LedgerEntry(id, o, NoBalance))]
      \/ /\ ~(Accounts[w].initial > 0) /\ wager' = wager /\ ledger' = ledger
  BY FreshIdType DEF CreateWallet
<1>5. ASSUME Accounts[w].initial > 0
      PROVE  /\ o.row.cmd.wallet = w /\ o.row.cmd.amount = Accounts[w].initial
             /\ o.row.status = "PROCESSED" /\ o.dir = "CREDIT" /\ o.wallet = new
             /\ o.row \in Row
  BY <1>4, <1>5, OpeningSound
<1>6. Accounts[w].initial \in Minor
  BY AccountsAssumption DEF Account
<1>. HIDE DEF id, o
<1>7. ASSUME NEW t \in TxIds, Exists(t)  PROVE  wager'[t] = wager[t]
  BY <1>1, <1>4, <1>7 DEF Free, DbType
<1>8. ASSUME NEW t \in TxIds, wager'[t] # wager[t]
      PROVE  t = id /\ Free(t) /\ Accounts[w].initial > 0 /\ wager'[t] = o.row
  BY <1>1, <1>4, <1>8 DEF DbType
<1>9. \A v \in Wallets \ {w} : wallet'[v] = wallet[v]
  BY <1>1, <1>3 DEF DbType
<1>10. wallet'[w] = new
  BY <1>1, <1>3 DEF DbType
<1>11. ASSUME NEW q \in Workers  PROVE  Local(q)'
  <2>1. /\ Placed(q) /\ Locked(q) /\ Private(q) /\ Claimed(q) /\ Waiting(q) /\ Staged(q)
        /\ Reservation(q) /\ Found(q)
    BY DEF IndInv, Local
  <2>2. WalletOf(q)' = WalletOf(q) /\ WalletOf(q) \in Wallets
    BY <1>1, <1>2, WalletOfType DEF WalletOf
  <2>3. Placed(q)' /\ Staged(q)'
    BY <1>2, <2>1 DEF Placed, Staged, Moves
  <2>4. Reservation(q)'
    BY <1>2, <2>1 DEF Reservation, Reserved
  <2>5. Locked(q)'
    <3>1. CASE pc[q] \in Holding
      <4>1. WalletOf(q) # w
        BY <1>2, <2>1, <3>1 DEF Locked
      <4>. QED  BY <1>2, <1>9, <2>1, <2>2, <3>1, <4>1 DEF Locked
    <3>2. CASE pc[q] \notin Holding
      BY <1>2, <3>2 DEF Locked
    <3>. QED  BY <3>1, <3>2
  <2>6. Private(q)'
    <3>1. CASE pc[q] \in {"apply", "commit"}
      <4>1. seen[q].id # 0 /\ seen[q].id \in TxIds /\ ~Exists(seen[q].id)
        BY <1>1, <2>1, <3>1, SessionFacts DEF Placed, Busy, Private
      <4>2. wager'[seen[q].id] = wager[seen[q].id]
        BY <1>8, <4>1 DEF Free
      <4>3. (~Exists(seen[q].id))'
        BY <1>2, <4>1, <4>2 DEF Exists, Present
      <4>. QED  BY <1>2, <2>1, <4>3 DEF Private
    <3>2. CASE pc[q] \notin {"apply", "commit"}
      BY <1>2, <3>2 DEF Private
    <3>. QED  BY <3>1, <3>2
  <2>7. Claimed(q)' /\ Found(q)' /\ Waiting(q)'
    <3>1. ASSUME Exists(seen[q].id)
          PROVE  (Exists(seen[q].id))' /\ wager'[seen[q].id] = wager[seen[q].id]
      <4>1. seen[q].id \in TxIds
        BY <3>1 DEF Exists, Present
      <4>2. wager'[seen[q].id] = wager[seen[q].id]
        BY <1>7, <3>1, <4>1
      <4>. QED  BY <1>2, <3>1, <4>1, <4>2 DEF Exists, Present
    <3>2. Claimed(q)' /\ Found(q)'
      BY <1>2, <2>1, <3>1 DEF Claimed, Found
    <3>3. Waiting(q)'
      BY <1>2, <2>1, <3>1 DEF Waiting, Claimed, ResolverStates
    <3>. QED  BY <3>2, <3>3
  <2>. QED  BY <2>1, <2>3, <2>4, <2>5, <2>6, <2>7 DEF Local
<1>12. Funded'
  <2>. SUFFICES ASSUME NEW t \in TxIds, Exists(t)'
                PROVE  wallet'[wager'[t].cmd.wallet].version > 0
    BY DEF Funded
  <2>1. CASE wager'[t] # wager[t]
    <3>1. wager'[t].cmd.wallet = w
      BY <1>5, <1>8, <2>1
    <3>. QED  BY <1>10, <3>1
  <2>2. CASE wager'[t] = wager[t]
    <3>1. Exists(t)
      BY <2>2 DEF Exists, Present
    <3>2. wager[t].cmd.wallet \in Wallets /\ wallet[wager[t].cmd.wallet].version > 0
      BY <1>1, <3>1 DEF DbType, Row, Command, Funded
    <3>. QED  BY <1>2, <1>9, <2>2, <3>2
  <2>. QED  BY <2>1, <2>2
<1>13. LedgerChain'
  <2>1. ASSUME NEW v \in Wallets
        PROVE  Balanced(ledger'[v], wallet'[v], Accounts[v].initial)
    <3>1. Balanced(ledger[v], wallet[v], Accounts[v].initial)
      BY <1>1, LedgerChainParts
    <3>2. CASE v # w
      BY <1>1, <1>4, <1>9, <3>1, <3>2 DEF DbType
    <3>3. CASE v = w
      <4>1. ledger[w] = <<>>
        BY <1>2, <3>1, <3>3 DEF Balanced
      <4>2. CASE Accounts[w].initial > 0
        <5>1. ledger'[w] = <<LedgerEntry(id, o, NoBalance)>>
          BY <1>1, <1>4, <4>1, <4>2 DEF DbType
        <5>2. LedgerEntry(id, o, NoBalance) =
                [tx |-> id, dir |-> "CREDIT", amount |-> Accounts[w].initial,
                 before |-> 0, after |-> Accounts[w].initial]
          BY <1>5, <4>2 DEF LedgerEntry, NoBalance
        <5>3. Accounts[w].initial \in Int
          BY <1>6, MaxIntAssumption DEF Minor
        <5>. QED  BY <1>10, <3>3, <4>2, <5>1, <5>2, <5>3
                  DEF Balanced, Chain, Closing, Signed
      <4>3. CASE ~(Accounts[w].initial > 0)
        <5>1. ledger'[w] = <<>> /\ Accounts[w].initial = 0
          BY <1>4, <1>6, <4>1, <4>3, MaxIntAssumption DEF Minor
        <5>. QED  BY <1>10, <3>3, <5>1 DEF Balanced, Chain, Closing
      <4>. QED  BY <4>2, <4>3
    <3>. QED  BY <3>2, <3>3
  <2>. QED
    BY <2>1 DEF LedgerChain, Balanced, Chain, Closing
<1>14. InboxPointsHome'
  <2>1. ASSUME NEW k \in Messages, inbox[k].tx # 0
        PROVE  /\ inbox[k].tx \in TxIds /\ wager'[inbox[k].tx].status # "NONE"
               /\ wager'[inbox[k].tx].cmd = inbox[k].hash.cmd
    <3>1. Exists(inbox[k].tx) /\ wager[inbox[k].tx].cmd = inbox[k].hash.cmd
      BY <1>1, <2>1 DEF InboxPointsHome
    <3>2. inbox[k].tx \in TxIds /\ wager[inbox[k].tx].status # "NONE"
      BY <3>1 DEF Exists, Present
    <3>. QED  BY <1>7, <3>1, <3>2
  <2>. QED  BY <1>2, <2>1 DEF InboxPointsHome, Exists, Present
<1>. QED  BY <1>11, <1>12, <1>13, <1>14 DEF Core

\* Claims, leases and due times are columns that the invariant does not mention.
LEMMA PollStep ==
  ASSUME IndInv, UNCHANGED <<wallet, ledger, wager, inbox, lock, session>>
  PROVE  Core'
<1>1. Funded' /\ InboxPointsHome'
  BY DEF IndInv, Funded, InboxPointsHome, Exists, Present
<1>2. LedgerChain'
  BY DEF IndInv, LedgerChain
<1>3. ASSUME NEW q \in Workers  PROVE  Local(q)'
  <2>1. Local(q)
    BY DEF IndInv
  <2>2. Placed(q)' /\ Locked(q)' /\ Private(q)' /\ Claimed(q)' /\ Waiting(q)' /\ Found(q)'
    BY <2>1 DEF Local, session, Placed, Locked, WalletOf, Private, Claimed, Waiting, Found,
                Exists, Present
  <2>3. Staged(q)' /\ Reservation(q)'
    BY <2>1 DEF Local, session, Staged, Moves, Reservation, Reserved
  <2>. QED  BY <2>2, <2>3 DEF Local
<1>. QED  BY <1>1, <1>2, <1>3 DEF Core

\* A lost transaction leaves the database as it was.
LEMMA RollbackStep ==
  ASSUME IndInv, NEW p \in Workers, Rollback(p)
  PROVE  Core'
<1>1. UNCHANGED db
  BY DEF Rollback
<1>2. Apart(p) /\ OwnInbox(p) /\ Local(p)'
  <2>1. CASE p \in Handlers /\ Refuse(p, "UNAVAILABLE")
    BY <1>1, <2>1, RefuseStep
  <2>2. CASE p \in Resolvers /\ Leave(p)
    BY <1>1, <2>2, LeaveStep
  <2>. QED  BY <2>1, <2>2 DEF Rollback
<1>. QED  BY <1>1, <1>2, SilentStep DEF db

\* The initial state satisfies the invariant: nothing is there and nobody is at work.
LEMMA InitStep == Init => IndInv
<1>. SUFFICES ASSUME Init  PROVE  IndInv
  OBVIOUS
<1>1. TypeOK
  <2>1. /\ DbType
    BY InitialValues DEF Init, DbType
  <2>2. SessionType
    BY InitialValues DEF Init, SessionType
  <2>3. LockType /\ FaultType
    BY BoundsAssumption DEF Init, LockType, FaultType
  <2>. QED  BY <2>1, <2>2, <2>3, TypeParts
<1>2. ASSUME NEW p \in Workers  PROVE  Local(p)
  <2>1. pc[p] = "idle"
    BY DEF Init
  <2>. QED
    BY <2>1 DEF Local, Placed, Locked, Private, Claimed, Waiting, Staged, Reservation, Found,
                HandlerStates, ResolverStates, Busy, Holding, Reserving
<1>3. Funded
  <2>1. \A t \in TxIds : ~Exists(t)
    BY DEF Init, Exists, Present, NoRow, NewRow
  <2>. QED  BY <2>1 DEF Funded
<1>4. InboxPointsHome
  BY DEF Init, InboxPointsHome, NoInbox
<1>5. LedgerChain
  BY DEF Init, LedgerChain, NoBalance
<1>. QED  BY <1>1, <1>2, <1>3, <1>4, <1>5 DEF IndInv

\* Every step keeps the invariant.
LEMMA IndStep == IndInv /\ [Next]_vars => IndInv'
<1>. SUFFICES ASSUME IndInv, [Next]_vars  PROVE  IndInv'
  OBVIOUS
<1>1. TypeOK'
  BY TypeStep DEF IndInv, InFlight, Local
<1>2. Core'
  <2>1. CASE UNCHANGED vars
    <3>1. UNCHANGED <<wallet, ledger, wager, inbox, lock, session>>
      BY <2>1 DEF vars, db
    <3>. QED  BY <3>1, PollStep
  <2>2. ASSUME NEW w \in Wallets, CreateWallet(w)  PROVE  Core'
    BY <2>2, CreateStep
  <2>3. ASSUME NEW p \in Handlers, HandlerStep(p)  PROVE  Core'
    <3>1. p \in Workers
      BY DEF Workers
    <3>2. CASE ReserveInbox(p)
      BY <3>1, <3>2, ReserveStep, SilentStep DEF ReserveInbox, db
    <3>3. CASE LoadInboxWager(p)
      BY <3>1, <3>3, LoadStep, SilentStep DEF LoadInboxWager, db
    <3>4. CASE FindIdentity(p)
      BY <3>1, <3>4, FindStep, SilentStep DEF FindIdentity, db
    <3>5. CASE CommitReplay(p)
      BY <3>1, <3>5, CommitReplayStep, QuietStep DEF CommitReplay
    <3>6. CASE LockWallet(p)
      BY <3>1, <3>6, LockStep, SilentStep DEF LockWallet, db
    <3>7. CASE InsertWager(p)
      BY <3>1, <3>7, InsertStep, SilentStep DEF InsertWager, db
    <3>8. CASE Apply(p)
      BY <3>1, <3>8, ApplyStep, SilentStep DEF Apply, db
    <3>9. CASE Commit(p)
      BY <3>9, CommitStep
    <3>10. CASE Respond(p)
      BY <3>1, <3>10, RespondStep, SilentStep DEF Respond, db
    <3>. QED  BY <2>3, <3>2, <3>3, <3>4, <3>5, <3>6, <3>7, <3>8, <3>9, <3>10
              DEF HandlerStep
  <2>4. ASSUME NEW p \in Handlers, NEW r \in Requests, ProcessWager(p, r)  PROVE  Core'
    <3>1. p \in Workers
      BY DEF Workers
    <3>. QED  BY <2>4, <3>1, ProcessStep, SilentStep DEF ProcessWager, db
  <2>5. ASSUME NEW r \in Resolvers, ResolverStep(r)  PROVE  Core'
    <3>1. r \in Workers
      BY DEF Workers
    <3>2. CASE LockForRetry(r)
      BY <3>1, <3>2, RetryLockStep, SilentStep DEF LockForRetry, db
    <3>3. CASE SelectClaim(r)
      BY <3>1, <3>3, SelectStep, SilentStep DEF SelectClaim, db
    <3>4. CASE RetryApply(r)
      BY <3>1, <3>4, RetryApplyStep, SilentStep DEF RetryApply, db
    <3>5. CASE RetryCommit(r)
      BY <3>5, RetryCommitStep
    <3>. QED  BY <2>5, <3>2, <3>3, <3>4, <3>5 DEF ResolverStep
  <2>6. ASSUME NEW r \in Resolvers, ReleaseClaims(r)  PROVE  Core'
    BY <2>6, PollStep DEF ReleaseClaims
  <2>7. ASSUME NEW r \in Resolvers, NEW t \in TxIds, ClaimReference(r, t)  PROVE  Core'
    <3>1. r \in Workers
      BY DEF Workers
    <3>. QED  BY <2>7, <3>1, ClaimStep, SilentStep DEF ClaimReference
  <2>8. ASSUME NEW t \in TxIds, BecomesDue(t) \/ LeaseExpires(t) \/ LeaseOverrun(t)
        PROVE  Core'
    BY <2>8, PollStep DEF BecomesDue, LeaseExpires, LeaseOverrun
  <2>9. ASSUME NEW p \in Workers, Rollback(p)  PROVE  Core'
    BY <2>9, RollbackStep
  <2>. QED  BY <2>1, <2>2, <2>3, <2>4, <2>5, <2>6, <2>7, <2>8, <2>9 DEF Next
<1>. QED  BY <1>1, <1>2 DEF IndInv, Core

(***************************************************************************)
(* Theorems.                                                               *)
(***************************************************************************)
\* The inductive invariant holds in every reachable state.
THEOREM Inductive == Spec => []IndInv
BY InitStep, IndStep, PTL DEF Spec

\* Every variable of the store keeps its type: no balance is negative or beyond the
\* largest amount, no row carries a status or a code that the code does not know.
THEOREM TypeCorrect == Spec => []TypeOK
<1>1. IndInv => TypeOK
  BY DEF IndInv
<1>. QED  BY <1>1, Inductive, PTL

\* No lost update: from lockWallet to Commit, a transaction of ProcessWager or of
\* RetryReference holds the lock of its wallet and computes from its committed state.
THEOREM LockCorrect == Spec => []LockedWalletIsCurrent
<1>1. IndInv => LockedWalletIsCurrent
  BY DEF IndInv, Local, Locked, LockedWalletIsCurrent
<1>. QED  BY <1>1, Inductive, PTL

\* The ledger of every wallet is an unbroken chain that ends in the stored balance, and
\* its length is the version of the wallet.
THEOREM ChainCorrect == Spec => []LedgerChain
<1>1. IndInv => LedgerChain
  BY DEF IndInv
<1>. QED  BY <1>1, Inductive, PTL

\* The inbox row of a consumed message names a wager of exactly the command it carried.
THEOREM InboxCorrect == Spec => []InboxPointsHome
<1>1. IndInv => InboxPointsHome
  BY DEF IndInv
<1>. QED  BY <1>1, Inductive, PTL

\* A step changes only a wager that is new or still waits for its reference.
LEMMA FrozenStep ==
  ASSUME IndInv, [Next]_vars, NEW t \in TxIds, Terminal(wager[t].status)
  PROVE  wager'[t] = wager[t]
<1>1. DbType
  BY TypeParts DEF IndInv
<1>2. Exists(t) /\ wager[t].status # "PENDING_REFERENCE"
  BY DEF Terminal, TerminalStates, Exists, Present
<1>3. ASSUME NEW w \in Wallets, CreateWallet(w)  PROVE  wager'[t] = wager[t]
  <2>. DEFINE row == Opening(FreshId, w).row
  <2>1. CASE Accounts[w].initial > 0
    <3>1. wager' = [wager EXCEPT ![FreshId] = row] /\ \E u \in TxIds : Free(u)
      BY <1>3, <2>1 DEF CreateWallet
    <3>2. FreshId # t
      BY <1>2, <3>1, FreshIdType DEF Free
    <3>. QED  BY <1>1, <3>1, <3>2 DEF DbType
  <2>2. CASE ~(Accounts[w].initial > 0)
    BY <1>3, <2>2 DEF CreateWallet
  <2>. QED  BY <2>1, <2>2
<1>4. ASSUME NEW p \in Workers, NEW n, Install(p, n), seen[p].id # t
      PROVE  wager'[t] = wager[t]
  BY <1>1, <1>4 DEF Install, DbType
<1>5. ASSUME NEW p \in Handlers, Commit(p)  PROVE  wager'[t] = wager[t]
  <2>1. p \in Workers /\ Private(p)
    BY HandlerFacts
  <2>2. seen[p].id # t
    BY <1>2, <1>5, <2>1 DEF Commit, Private
  <2>. QED  BY <1>4, <1>5, <2>1, <2>2 DEF Commit
<1>6. ASSUME NEW r \in Resolvers, RetryCommit(r)  PROVE  wager'[t] = wager[t]
  <2>1. r \in Workers /\ Waiting(r)
    BY ResolverFacts
  <2>2. seen[r].id # t
    BY <1>2, <1>6, <2>1 DEF RetryCommit, Waiting
  <2>. QED  BY <1>4, <1>6, <2>1, <2>2 DEF RetryCommit
<1>7. CASE UNCHANGED vars
  BY <1>7 DEF vars, db
<1>8. ASSUME NEW p \in Handlers, HandlerStep(p)  PROVE  wager'[t] = wager[t]
  BY <1>5, <1>8 DEF HandlerStep, ReserveInbox, LoadInboxWager, FindIdentity, CommitReplay,
                    LockWallet, InsertWager, Apply, Respond, db
<1>9. ASSUME NEW p \in Handlers, NEW r \in Requests, ProcessWager(p, r)
      PROVE  wager'[t] = wager[t]
  BY <1>9 DEF ProcessWager, db
<1>10. ASSUME NEW r \in Resolvers, ResolverStep(r)  PROVE  wager'[t] = wager[t]
  BY <1>6, <1>10 DEF ResolverStep, LockForRetry, SelectClaim, RetryApply, db
<1>11. ASSUME NEW r \in Resolvers,
              ReleaseClaims(r) \/ \E u \in TxIds : ClaimReference(r, u)
       PROVE  wager'[t] = wager[t]
  BY <1>11 DEF ReleaseClaims, ClaimReference
<1>12. ASSUME NEW u \in TxIds, BecomesDue(u) \/ LeaseExpires(u) \/ LeaseOverrun(u)
       PROVE  wager'[t] = wager[t]
  BY <1>12 DEF BecomesDue, LeaseExpires, LeaseOverrun
<1>13. ASSUME NEW p \in Workers, Rollback(p)  PROVE  wager'[t] = wager[t]
  BY <1>13 DEF Rollback, db
<1>. QED
  BY <1>3, <1>7, <1>8, <1>9, <1>10, <1>11, <1>12, <1>13 DEF Next

\* A terminal wager never changes again: not by a late claim, a replay or another
\* command.
THEOREM FrozenCorrect == Spec => TerminalFrozen
<1>1. IndInv /\ [Next]_vars =>
        [\A t \in TxIds : Terminal(wager[t].status) => wager'[t] = wager[t]]_vars
  BY FrozenStep
<1>. QED  BY <1>1, Inductive, PTL DEF Spec, TerminalFrozen

\* Only a wallet that exists is locked.
Held == \A w \in Wallets : lock[w] # Nobody => wallet[w].version > 0

\* A step in four forms: a new wallet, a commit of p, a lock taken on a wallet that
\* exists, or a step that at most releases locks.
LEMMA StepForms ==
  ASSUME IndInv, [Next]_vars
  PROVE  \/ \E w \in Wallets : CreateWallet(w)
         \/ \E p \in Workers, n \in Nat :
              /\ Install(p, n) /\ pc[p] \in {"commit", "rcommit"}
              /\ Apart(p) /\ OwnInbox(p)
         \/ /\ UNCHANGED <<wallet, ledger, wager>>
            /\ \A w \in Wallets : \/ lock'[w] = lock[w] \/ lock'[w] = Nobody
                                  \/ wallet[w].version > 0
<1>. DEFINE Quiet == /\ UNCHANGED <<wallet, ledger, wager>>
                     /\ \A w \in Wallets : \/ lock'[w] = lock[w] \/ lock'[w] = Nobody
                                           \/ wallet[w].version > 0
            Installs == \E p \in Workers, n \in Nat :
                          /\ Install(p, n) /\ pc[p] \in {"commit", "rcommit"}
                          /\ Apart(p) /\ OwnInbox(p)
<1>1. DbType /\ SessionType /\ LockType
  BY TypeParts DEF IndInv
<1>2. ASSUME UNCHANGED <<wallet, ledger, wager, lock>>  PROVE  Quiet
  BY <1>2
<1>3. ASSUME UNCHANGED <<wallet, ledger, wager>>, NEW p, lock' = Released(p)  PROVE  Quiet
  BY <1>3 DEF Released
<1>4. CASE UNCHANGED vars
  BY <1>2, <1>4 DEF vars, db
<1>5. ASSUME NEW p \in Handlers, HandlerStep(p)  PROVE  Quiet \/ Installs
  <2>1. p \in Workers /\ 0 \in Nat
    BY DEF Workers
  <2>2. CASE Commit(p)
    <3>1. Install(p, 0) /\ pc[p] = "commit"
      BY <2>2 DEF Commit
    <3>2. Apart(p) /\ OwnInbox(p)
      BY <2>2, CommitStep
    <3>. QED  BY <2>1, <3>1, <3>2
  <2>3. CASE LockWallet(p)
    <3>1. UNCHANGED <<wallet, ledger, wager>>
      BY <2>3 DEF LockWallet, db
    <3>2. CASE lock' = Released(p)
      BY <1>3, <3>1, <3>2
    <3>3. CASE /\ wallet[req[p].cmd.wallet].version > 0
               /\ lock' = [lock EXCEPT ![req[p].cmd.wallet] = p]
      BY <1>1, <3>1, <3>3 DEF LockType
    <3>. QED  BY <2>3, <3>2, <3>3 DEF LockWallet, Refuse
  <2>4. CASE ReserveInbox(p) \/ LoadInboxWager(p) \/ FindIdentity(p) \/ Apply(p)
    <3>1. UNCHANGED <<wallet, ledger, wager>>
      BY <2>4 DEF ReserveInbox, LoadInboxWager, FindIdentity, Apply, db
    <3>2. lock' = lock \/ lock' = Released(p)
      BY <2>4 DEF ReserveInbox, LoadInboxWager, FindIdentity, Apply, Refuse
    <3>. QED  BY <1>2, <1>3, <3>1, <3>2
  <2>5. CASE CommitReplay(p)
    BY <1>3, <2>5 DEF CommitReplay
  <2>6. CASE InsertWager(p) \/ Respond(p)
    BY <1>2, <2>6 DEF InsertWager, Respond, db
  <2>. QED  BY <1>5, <2>2, <2>3, <2>4, <2>5, <2>6 DEF HandlerStep
<1>6. ASSUME NEW p \in Handlers, NEW r \in Requests, ProcessWager(p, r)  PROVE  Quiet
  BY <1>2, <1>6 DEF ProcessWager, db
<1>7. ASSUME NEW r \in Resolvers, ResolverStep(r)  PROVE  Quiet \/ Installs
  <2>1. /\ r \in Workers /\ Claimed(r) /\ Placed(r)
    BY ResolverFacts
  <2>2. CASE RetryCommit(r)
    <3>1. Install(r, poll[seen[r].id].attempts + 1) /\ pc[r] = "rcommit"
      BY <2>2 DEF RetryCommit
    <3>2. poll[seen[r].id].attempts + 1 \in Nat
      <4>1. seen[r].id \in TxIds
        BY <2>1, <3>1 DEF Claimed, ResolverStates, Exists, Present
      <4>2. poll[seen[r].id] \in Poll
        BY <1>1, <4>1 DEF DbType
      <4>. QED  BY <4>2 DEF Poll
    <3>3. Apart(r) /\ OwnInbox(r)
      BY <2>2, RetryCommitStep
    <3>. QED  BY <2>1, <3>1, <3>2, <3>3
  <2>3. CASE LockForRetry(r)
    <3>1. UNCHANGED <<wallet, ledger, wager>> /\ pc[r] = "rlock"
      BY <2>3 DEF LockForRetry, db
    <3>2. wallet[seen[r].row.cmd.wallet].version > 0
      <4>1. Exists(seen[r].id) /\ wager[seen[r].id].cmd = seen[r].row.cmd
        BY <2>1, <3>1 DEF Claimed, ResolverStates
      <4>. QED  BY <4>1 DEF IndInv, Funded, Exists, Present
    <3>3. lock' = [lock EXCEPT ![seen[r].row.cmd.wallet] = r]
      BY <2>3 DEF LockForRetry
    <3>. QED  BY <1>1, <3>1, <3>2, <3>3 DEF LockType
  <2>4. CASE SelectClaim(r)
    <3>1. UNCHANGED <<wallet, ledger, wager>>
      BY <2>4 DEF SelectClaim, db
    <3>2. lock' = lock \/ lock' = Released(r)
      BY <2>4 DEF SelectClaim, Leave
    <3>. QED  BY <1>2, <1>3, <3>1, <3>2
  <2>5. CASE RetryApply(r)
    BY <1>2, <2>5 DEF RetryApply, db
  <2>. QED  BY <1>7, <2>2, <2>3, <2>4, <2>5 DEF ResolverStep
<1>8. ASSUME NEW r \in Resolvers,
             ReleaseClaims(r) \/ \E t \in TxIds : ClaimReference(r, t)
      PROVE  Quiet
  BY <1>2, <1>8 DEF ReleaseClaims, ClaimReference
<1>9. ASSUME NEW t \in TxIds, BecomesDue(t) \/ LeaseExpires(t) \/ LeaseOverrun(t)
      PROVE  Quiet
  BY <1>2, <1>9 DEF BecomesDue, LeaseExpires, LeaseOverrun
<1>10. ASSUME NEW p \in Workers, Rollback(p)  PROVE  Quiet
  <2>1. UNCHANGED <<wallet, ledger, wager>> /\ lock' = Released(p)
    BY <1>10 DEF Rollback, Refuse, Leave, db
  <2>. QED  BY <1>3, <2>1
<1>. HIDE DEF Quiet, Installs
<1>11. CASE Next
  <2>1. \/ \E w \in Wallets : CreateWallet(w)
        \/ \E p \in Handlers : HandlerStep(p)
        \/ \E p \in Handlers, r \in Requests : ProcessWager(p, r)
        \/ \E r \in Resolvers : ResolverStep(r)
        \/ \E r \in Resolvers : ReleaseClaims(r) \/ \E t \in TxIds : ClaimReference(r, t)
        \/ \E t \in TxIds : BecomesDue(t) \/ LeaseExpires(t) \/ LeaseOverrun(t)
        \/ \E p \in Workers : Rollback(p)
    BY <1>11, Zenon DEF Next
  <2>2. (\E w \in Wallets : CreateWallet(w)) \/ Quiet \/ Installs
    BY <1>5, <1>6, <1>7, <1>8, <1>9, <1>10, <2>1, Zenon
  <2>. QED  BY <2>2 DEF Quiet, Installs
<1>. QED  BY <1>4, <1>11 DEF Quiet

\* Every step keeps locks on wallets that exist.
LEMMA HeldStep == IndInv /\ Held /\ [Next]_vars => Held'
<1>. SUFFICES ASSUME IndInv, Held, [Next]_vars  PROVE  Held'
  OBVIOUS
<1>1. DbType /\ LockType
  BY TypeParts DEF IndInv
<1>2. ASSUME NEW w \in Wallets, CreateWallet(w)  PROVE  Held'
  <2>1. lock' = lock /\ wallet' = [wallet EXCEPT ![w] = [balance |-> Accounts[w].initial,
                                                         version |-> 1]]
    BY <1>2 DEF CreateWallet, Opening
  <2>. QED  BY <1>1, <2>1 DEF Held, DbType
<1>3. ASSUME NEW p \in Workers, NEW n \in Nat, Install(p, n), Apart(p), OwnInbox(p),
             pc[p] \in {"commit", "rcommit"}
      PROVE  Held'
  <2>1. \A v \in Wallets : wallet[v].version > 0 => wallet'[v].version > 0
    BY <1>3, InstallStep
  <2>. QED  BY <1>3, <2>1 DEF Held, Install, Released
<1>4. CASE /\ UNCHANGED <<wallet, ledger, wager>>
           /\ \A w \in Wallets : \/ lock'[w] = lock[w] \/ lock'[w] = Nobody
                                 \/ wallet[w].version > 0
  BY <1>4 DEF Held
<1>. QED  BY <1>2, <1>3, <1>4, StepForms

\* A step that does not release the lock of a wallet leaves the wallet alone.
LEMMA IsolatedStep ==
  ASSUME IndInv, Held, [Next]_vars, NEW w \in Wallets, lock[w] # Nobody,
         lock'[w] = lock[w]
  PROVE  /\ wallet'[w] = wallet[w] /\ ledger'[w] = ledger[w]
         /\ \A t \in TxIds : Exists(t) /\ wager[t].cmd.wallet = w => wager'[t] = wager[t]
<1>1. DbType /\ LockType
  BY TypeParts DEF IndInv
<1>2. ASSUME NEW v \in Wallets, CreateWallet(v)
      PROVE  /\ wallet'[w] = wallet[w] /\ ledger'[w] = ledger[w]
             /\ \A t \in TxIds : Exists(t) => wager'[t] = wager[t]
  <2>1. v # w
    BY <1>2 DEF CreateWallet, Held
  <2>2. wallet'[w] = wallet[w] /\ ledger'[w] = ledger[w]
    <3>1. wallet' = [wallet EXCEPT ![v] = Opening(FreshId, v).wallet]
      BY <1>2 DEF CreateWallet
    <3>2. ledger' = ledger \/ ledger' = [ledger EXCEPT ![v] =
            Append(ledger[v], LedgerEntry(FreshId, Opening(FreshId, v), NoBalance))]
      BY <1>2 DEF CreateWallet
    <3>. QED  BY <1>1, <2>1, <3>1, <3>2 DEF DbType
  <2>3. ASSUME NEW t \in TxIds, Exists(t)  PROVE  wager'[t] = wager[t]
    <3>1. CASE Accounts[v].initial > 0
      <4>1. /\ wager' = [wager EXCEPT ![FreshId] = Opening(FreshId, v).row]
            /\ \E u \in TxIds : Free(u)
        BY <1>2, <3>1 DEF CreateWallet
      <4>2. FreshId # t
        BY <2>3, <4>1, FreshIdType DEF Free
      <4>. QED  BY <1>1, <4>1, <4>2 DEF DbType
    <3>2. CASE ~(Accounts[v].initial > 0)
      BY <1>2, <3>2 DEF CreateWallet
    <3>. QED  BY <3>1, <3>2
  <2>. QED  BY <2>2, <2>3
<1>3. ASSUME NEW p \in Workers, NEW n \in Nat, Install(p, n), Apart(p), OwnInbox(p),
             pc[p] \in {"commit", "rcommit"}
      PROVE  /\ wallet'[w] = wallet[w] /\ ledger'[w] = ledger[w]
             /\ \A t \in TxIds : Exists(t) /\ wager[t].cmd.wallet = w => wager'[t] = wager[t]
  <2>1. lock[w] # p
    BY <1>3, WorkersAssumption DEF Install, Released
  <2>. QED  BY <1>3, <2>1, InstallStep
<1>4. CASE UNCHANGED <<wallet, ledger, wager>>
  BY <1>4
<1>. QED  BY <1>2, <1>3, <1>4, StepForms

\* While one transaction holds a wallet, nothing of that wallet changes under it.
THEOREM IsolationCorrect == Spec => WalletIsolated
<1>1. Init => Held
  BY DEF Init, Held
<1>2. Spec => []Held
  BY <1>1, HeldStep, Inductive, PTL DEF Spec
<1>3. IndInv /\ Held /\ [Next]_vars =>
        [\A w \in Wallets : lock[w] # Nobody /\ lock'[w] = lock[w] =>
           /\ wallet'[w] = wallet[w] /\ ledger'[w] = ledger[w]
           /\ \A t \in TxIds : Exists(t) /\ wager[t].cmd.wallet = w => wager'[t] = wager[t]]_vars
  BY IsolatedStep
<1>. QED  BY <1>2, <1>3, Inductive, PTL DEF Spec, WalletIsolated
=============================================================================

------------------------- MODULE WagerCommandProofs -------------------------
(***************************************************************************)
(* Proofs about what WagerStore does with a command: that it becomes one   *)
(* wager at most, that what is written for it passes the guards of the     *)
(* database and can be read back, and that its answers are true.           *)
(*                                                                         *)
(* The argument rests on IndInv of WagerStoreProofs (locks, ids, claims)   *)
(* and adds what a session has learnt about its command (Checked), what    *)
(* its answer says (Answered), what it is about to commit (Judged), and    *)
(* three facts about the table: every row is readable and backed by the    *)
(* row it refers to (RowsSound), no row is reversed twice (OneReversal)    *)
(* and no identity names two rows (IdentityUnique, with Rivals for the     *)
(* rows that are inserted and not yet committed).                          *)
(***************************************************************************)
EXTENDS WagerStoreProofs

(***************************************************************************)
(* The inductive invariant.                                                *)
(***************************************************************************)
Clash(a, b) == SameKey(a, b) \/ SameExt(a, b)

\* No committed row has an identity of command c.
Unclaimed(c) == \A t \in TxIds : Exists(t) => ~Clash(wager[t].cmd, c)

\* What the checks of ProcessWager have established so far.
Checked(p) ==
  LET c == req[p].cmd IN
  /\ pc[p] \in HandlerStates \ {"reply"} => NormalizeCommand(c) = ""
  /\ pc[p] \in {"insert", "refind", "apply", "commit"} =>
       AcceptsReference(c) /\ Accounts[c.wallet].player = c.player
  /\ pc[p] = "refind" => ~Unclaimed(c)
  /\ pc[p] \in {"apply", "commit"} => seen[p].row = NewRow(c, "PENDING") /\ Unclaimed(c)

\* What is to be answered, and what has been.
Answered(p) ==
  /\ pc[p] = "replay" =>
       /\ seen[p].row.status # "PENDING"
       /\ Terminal(seen[p].row.status) => wager[seen[p].id] = seen[p].row
  /\ pc[p] = "reply" /\ reply[p].error = "" =>
       LET a == reply[p]
           row == wager[a.id]
       IN /\ Exists(a.id) /\ row.cmd = req[p].cmd
          /\ a.status # "PENDING"
          /\ Terminal(a.status) => /\ a.status = row.status /\ a.balance = row.balance
                                   /\ a.version = row.version /\ a.code = row.code

\* The row that `row' refers to is processed, of the same wallet and of a kind it may
\* refer to.
Backed(row) ==
  row.refId # 0 =>
    /\ wager[row.refId].status = "PROCESSED"
    /\ wager[row.refId].cmd.wallet = row.cmd.wallet
    /\ MayRefer(row.cmd.kind, wager[row.refId].cmd.kind)

RefKind(row) == IF row.refId = 0 THEN "OPENING" ELSE wager[row.refId].cmd.kind

\* An outcome o for wager id that the commit guards accept.
Sound(id, o) ==
  /\ ValidWager(o.row) /\ o.row.status \notin {"NONE", "PENDING"}
  /\ o.row.status # "PROCESSED" => o.row.refId = 0 /\ o.dir = "NONE"
  /\ o.row.status = "PROCESSED" =>
       /\ o.row.balance = o.wallet.balance /\ o.row.version = o.wallet.version
       /\ o.dir = DirectionOf(o.row.cmd.kind, RefKind(o.row))
  /\ o.row.refId # id /\ Backed(o.row)
  /\ o.row.status = "PROCESSED" /\ o.row.cmd.kind \in Reversals =>
       o.row.refId # 0 /\ ~ReversedIn(wager, o.row.refId)

Judged(p) == pc[p] \in {"commit", "rcommit"} => Sound(seen[p].id, out[p])

\* Two handlers that have both inserted their row and not yet committed it did not
\* insert the same identity.
Rivals ==
  \A p, q \in Handlers :
    p # q /\ Inserted(p) /\ Inserted(q) => ~Clash(req[p].cmd, req[q].cmd)

Readable(row) ==
  /\ ValidWager(row) /\ row.status # "PENDING"
  /\ row.status # "PROCESSED" => row.refId = 0
  /\ Backed(row)

RowsSound == \A t \in TxIds : Exists(t) => Readable(wager[t])

\* No row is reversed twice.
OneReversal ==
  \A t, u, v \in TxIds :
    ProcessedReversal(wager[t], v) /\ ProcessedReversal(wager[u], v) => t = u

CommandInv ==
  /\ \A p \in Workers : Checked(p) /\ Answered(p) /\ Judged(p)
  /\ Rivals /\ RowsSound /\ OneReversal /\ IdentityUnique

(***************************************************************************)
(* What Evaluate decides.                                                  *)
(***************************************************************************)
\* A version that is not zero is at least one.
LEMMA Positive == \A n \in Nat : n > 0 => n >= 1
OBVIOUS

\* A command that passed NormalizeCommand is external, identified, and has a reference
\* if it is a reversal.
LEMMA NormalFacts ==
  ASSUME NEW c, NormalizeCommand(c) = ""
  PROVE  /\ c.kind \in ExternalKinds /\ c.kind # "OPENING"
         /\ c.provider # "" /\ c.ext # "" /\ c.key # "" /\ c.round # ""
         /\ c.kind \in Reversals => c.ref # ""
BY DEF NormalizeCommand, ExternalKinds

\* The reference of a processed command: of the same business, processed, and, if the
\* command reverses it, of the same amount and not yet reversed.
Backs(id, c, ref, reversed) ==
  /\ ref.id # 0 /\ SameBusiness(id, c, ref) /\ MayRefer(c.kind, ref.row.cmd.kind)
  /\ ref.row.status = "PROCESSED"
  /\ c.kind \in Reversals => ref.row.cmd.amount = c.amount /\ ~reversed

\* A refusal has a code, a move has none and does not wait.
LEMMA DecisionFields ==
  /\ \A code : /\ Rejection(code).code = code /\ Rejection(code).pending = FALSE
               /\ Rejection(code).dir = "NONE"
  /\ \A d : Move(d).code = "" /\ Move(d).pending = FALSE /\ Move(d).dir = d
  /\ Wait.pending = TRUE /\ Wait.dir = "NONE" /\ Wait.code = ""
BY Zenon DEF Rejection, Move, Wait

\* The reference makes a command wait, refuses it, or backs it.
LEMMA JudgeForms ==
  ASSUME NEW id, NEW c, NEW ref, NEW reversed
  PROVE  LET j == JudgeReference(id, c, ref, reversed) IN
         \/ j = Wait
         \/ \E code \in Codes \ {""} : j = Rejection(code)
         \/ j = Move("NONE") /\ Backs(id, c, ref, reversed)
<1>1. {"REFERENCE_MISMATCH", "REFERENCE_NOT_PROCESSED", "REFERENCE_ALREADY_REVERSED"}
        \subseteq Codes \ {""}
  BY DEF Codes
<1>. QED  BY <1>1 DEF JudgeReference, Backs

\* The balance lets a move happen or refuses it.
LEMMA FundsForms ==
  ASSUME NEW b, NEW c, NEW d
  PROVE  \/ \E code \in Codes \ {""} : JudgeFunds(b, c, d) = Rejection(code)
         \/ JudgeFunds(b, c, d) = Move(d)
<1>1. {"INSUFFICIENT_FUNDS_FOR_REVERSAL", "INSUFFICIENT_FUNDS", "OVERFLOW"}
        \subseteq Codes \ {""}
  BY DEF Codes
<1>. QED  BY <1>1 DEF JudgeFunds

\* A decision e refuses with a code, waits for a reference that the command names, or
\* moves in the direction of the kind with every check passed.
Verdict(e, acct, id, c, ref, reversed) ==
  \/ \E code \in Codes \ {""} : e = Rejection(code)
  \/ e = Wait /\ c.ref # ""
  \/ /\ e = Move(DirectionOf(c.kind, ref.row.cmd.kind))
     /\ c.currency = acct.currency /\ AmountFitsKind(c)
     /\ c.ref # "" => Backs(id, c, ref, reversed)

\* Every decision of Evaluate is one of the three.
LEMMA EvaluateForms ==
  ASSUME NEW acct, NEW id, NEW c, NEW ref, NEW reversed
  PROVE  Verdict(Evaluate(acct, id, c, ref, reversed), acct, id, c, ref, reversed)
<1>. DEFINE j == JudgeReference(id, c, ref, reversed)
            f == JudgeFunds(acct.balance, c, DirectionOf(c.kind, ref.row.cmd.kind))
            e == Evaluate(acct, id, c, ref, reversed)
<1>1. {"CURRENCY_MISMATCH", "INVALID_AMOUNT_FOR_KIND"} \subseteq Codes \ {""}
  BY DEF Codes
<1>2. \/ j = Wait
      \/ \E code \in Codes \ {""} : j = Rejection(code)
      \/ j = Move("NONE") /\ Backs(id, c, ref, reversed)
  BY JudgeForms
<1>3. \/ \E code \in Codes \ {""} : f = Rejection(code)
      \/ f = Move(DirectionOf(c.kind, ref.row.cmd.kind))
  BY FundsForms
<1>4. /\ Wait # Move("NONE")
      /\ \A code \in Codes \ {""} : Rejection(code) # Move("NONE")
  <2>1. Move("NONE").code = "" /\ Move("NONE").pending = FALSE /\ Wait.pending = TRUE
    BY DecisionFields, Zenon
  <2>2. \A code : Rejection(code).code = code
    BY DecisionFields, Zenon
  <2>3. Wait # Move("NONE")
    BY <2>1, Zenon
  <2>4. \A code \in Codes \ {""} : Rejection(code) # Move("NONE")
    BY <2>1, <2>2
  <2>. QED  BY <2>3, <2>4
<1>5. e = IF c.currency # acct.currency THEN Rejection("CURRENCY_MISMATCH")
          ELSE IF ~AmountFitsKind(c) THEN Rejection("INVALID_AMOUNT_FOR_KIND")
          ELSE IF c.ref # "" /\ j # Move("NONE") THEN j ELSE f
  BY DEF Evaluate
<1>. HIDE DEF j, f, e
<1>. QED  BY <1>1, <1>2, <1>3, <1>4, <1>5 DEF e, Verdict

\* A row that is not decided yet: just inserted, or waiting.
Undecided(row) ==
  /\ NormalizeCommand(row.cmd) = "" /\ AcceptsReference(row.cmd)
  /\ row.status \in {"PENDING", "PENDING_REFERENCE"}
  /\ row.code = "" /\ row.version = 0 /\ row.refId = 0

\* A refused or failed row can be read back.
LEMMA RefusedReadable ==
  ASSUME NEW row \in Row, Undecided(row), NEW w \in Balance, w.version > 0,
         NEW code \in Codes \ {""}, NEW s \in {"REJECTED", "FAILED"}
  PROVE  LET next == Freeze(row, s, code, w, 0) IN
         /\ ValidWager(next) /\ next.status = s /\ next.refId = 0
<1>. DEFINE next == Freeze(row, s, code, w, 0)
<1>1. /\ next.cmd = row.cmd /\ next.status = s /\ next.code = code
      /\ next.version = w.version /\ next.refId = 0
      /\ next.currency = Accounts[row.cmd.wallet].currency
  BY DEF Freeze, Row
<1>2. row.cmd.wallet \in Wallets
  BY DEF Row, Command
<1>3. next.currency # ""
  BY <1>1, <1>2, AccountsAssumption DEF Account
<1>4. w.version >= 1
  <2>1. w.version \in Nat
    BY DEF Balance
  <2>. QED  BY <2>1, Positive, Zenon
<1>5. row.cmd.kind # "OPENING" /\ NormalizeCommand(row.cmd) = "" /\ AcceptsReference(row.cmd)
  BY NormalFacts DEF Undecided
<1>. HIDE DEF next
<1>6. ValidWager(next)
  BY <1>1, <1>3, <1>4, <1>5 DEF ValidWager, Terminal, TerminalStates
<1>. QED  BY <1>1, <1>6 DEF next

\* A processed row can be read back.
LEMMA ProcessedReadable ==
  ASSUME NEW row \in Row, Undecided(row), NEW w \in Balance, w.version > 0,
         NEW t \in TxIds \cup {0}, row.cmd.currency = Accounts[row.cmd.wallet].currency,
         AmountFitsKind(row.cmd), row.cmd.ref # "" => t # 0
  PROVE  ValidWager(Freeze(row, "PROCESSED", "", w, t))
<1>. DEFINE next == Freeze(row, "PROCESSED", "", w, t)
<1>1. /\ next.cmd = row.cmd /\ next.status = "PROCESSED" /\ next.code = ""
      /\ next.version = w.version /\ next.refId = t
      /\ next.currency = Accounts[row.cmd.wallet].currency
  BY DEF Freeze, Row
<1>2. row.cmd.wallet \in Wallets
  BY DEF Row, Command
<1>3. next.currency # ""
  BY <1>1, <1>2, AccountsAssumption DEF Account
<1>4. w.version >= 1
  <2>1. w.version \in Nat
    BY DEF Balance
  <2>. QED  BY <2>1, Positive, Zenon
<1>5. row.cmd.kind # "OPENING" /\ NormalizeCommand(row.cmd) = "" /\ AcceptsReference(row.cmd)
  BY NormalFacts DEF Undecided
<1>. HIDE DEF next
<1>6. ValidWager(next)
  BY <1>1, <1>3, <1>4, <1>5 DEF ValidWager, Terminal, TerminalStates
<1>. QED  BY <1>6 DEF next

\* A row that goes on waiting can be read back.
LEMMA WaitingReadable ==
  ASSUME NEW row \in Row, Undecided(row), row.cmd.ref # ""
  PROVE  LET next == [row EXCEPT !.status = "PENDING_REFERENCE"] IN
         /\ ValidWager(next) /\ next.status = "PENDING_REFERENCE" /\ next.refId = 0
<1>. DEFINE next == [row EXCEPT !.status = "PENDING_REFERENCE"]
<1>1. /\ next.cmd = row.cmd /\ next.status = "PENDING_REFERENCE" /\ next.code = ""
      /\ next.version = 0 /\ next.refId = 0
  BY DEF Row, Undecided
<1>2. row.cmd.kind # "OPENING" /\ NormalizeCommand(row.cmd) = "" /\ AcceptsReference(row.cmd)
  BY NormalFacts DEF Undecided
<1>. HIDE DEF next
<1>3. ValidWager(next)
  BY <1>1, <1>2 DEF ValidWager, Terminal, TerminalStates
<1>. QED  BY <1>1, <1>3 DEF next

\* An outcome o that can be read back; a row is processed only with every check passed,
\* it then freezes the wallet it leaves, and money moves only then.
Ruling(o, id, row, ref, reversed) ==
  /\ ValidWager(o.row) /\ o.row.cmd = row.cmd
  /\ o.row.status \in {"PROCESSED", "REJECTED", "PENDING_REFERENCE"}
  /\ o.row.status # "PROCESSED" => o.row.refId = 0 /\ o.dir = "NONE"
  /\ o.row.status = "PROCESSED" =>
       /\ o.row.balance = o.wallet.balance /\ o.row.version = o.wallet.version
       /\ o.row.refId = ref.id
       /\ o.dir = DirectionOf(row.cmd.kind, ref.row.cmd.kind)
       /\ row.cmd.ref # "" => Backs(id, row.cmd, ref, reversed)

\* What apply writes for an undecided row is such an outcome.
LEMMA OutcomeJudged ==
  ASSUME NEW id \in TxIds, NEW row \in Row, Undecided(row), NEW w \in Balance,
         w.version > 0, NEW ref \in Seen, NEW reversed, NEW expired \in BOOLEAN
  PROVE  Ruling(Outcome(id, row, w, ref, reversed, expired), id, row, ref, reversed)
<1>. DEFINE c == row.cmd
            acct == [currency |-> Accounts[c.wallet].currency, balance |-> w.balance]
            eval == Evaluate(acct, id, c, ref, reversed)
            d == IF eval.pending /\ expired
                   THEN Rejection("REFERENCE_NOT_FOUND") ELSE eval
            moved == MoveWallet(w, c.amount, d.dir)
            next == Decided(row, d, w, moved, ref.id)
            o == Outcome(id, row, w, ref, reversed, expired)
            dir == DirectionOf(c.kind, ref.row.cmd.kind)
<1>1. o.row = next /\ o.wallet = moved /\ o.dir = d.dir
  BY DEF Outcome
<1>2. o \in Out /\ Moves(o, w) /\ o.row.cmd = row.cmd
  BY OutcomeSound
<1>3. acct.currency = Accounts[c.wallet].currency
  OBVIOUS
<1>4. Verdict(eval, acct, id, c, ref, reversed)
  <2>. HIDE DEF acct
  <2>. QED  BY EvaluateForms
<1>. HIDE DEF acct, eval, o
<1>5. \/ \E code \in Codes \ {""} : d = Rejection(code)
      \/ d = Wait /\ c.ref # ""
      \/ /\ d = Move(dir) /\ c.currency = Accounts[c.wallet].currency /\ AmountFitsKind(c)
         /\ c.ref # "" => Backs(id, c, ref, reversed)
  <2>1. "REFERENCE_NOT_FOUND" \in Codes \ {""}
    BY DEF Codes
  <2>. QED  BY <1>3, <1>4, <2>1 DEF Verdict
<1>. HIDE DEF d, moved, dir
<1>6. CASE \E code \in Codes \ {""} : d = Rejection(code)
  <2>1. PICK code \in Codes \ {""} : d = Rejection(code)
    BY <1>6
  <2>2. d.code = code /\ d.pending = FALSE /\ d.dir = "NONE"
    BY <2>1, DecisionFields, Zenon
  <2>3. next = Freeze(row, "REJECTED", code, w, 0)
    BY <2>1, <2>2 DEF Decided
  <2>4. ValidWager(next) /\ next.status = "REJECTED" /\ next.refId = 0
    <3>1. ASSUME NEW s \in {"REJECTED", "FAILED"}
          PROVE  LET n == Freeze(row, s, code, w, 0) IN
                 ValidWager(n) /\ n.status = s /\ n.refId = 0
      BY RefusedReadable
    <3>2. "REJECTED" \in {"REJECTED", "FAILED"}
      OBVIOUS
    <3>. QED  BY <2>3, <3>1, <3>2, Zenon
  <2>. HIDE DEF next
  <2>. QED  BY <1>1, <1>2, <2>2, <2>4 DEF o, Ruling
<1>7. CASE d = Wait /\ c.ref # ""
  <2>1. d.pending = TRUE /\ d.dir = "NONE"
    BY <1>7, DecisionFields, Zenon
  <2>2. next = [row EXCEPT !.status = "PENDING_REFERENCE"]
    BY <2>1 DEF Decided
  <2>3. ValidWager(next) /\ next.status = "PENDING_REFERENCE" /\ next.refId = 0
    BY <1>7, <2>2, WaitingReadable
  <2>. HIDE DEF next
  <2>. QED  BY <1>1, <1>2, <2>1, <2>3 DEF o, Ruling
<1>8. CASE /\ d = Move(dir) /\ c.currency = Accounts[c.wallet].currency /\ AmountFitsKind(c)
           /\ c.ref # "" => Backs(id, c, ref, reversed)
  <2>1. d.code = "" /\ d.pending = FALSE /\ d.dir = dir
    BY <1>8, DecisionFields, Zenon
  <2>2. next = Freeze(row, "PROCESSED", "", moved, ref.id)
    BY <2>1 DEF Decided
  <2>3. moved \in Balance /\ moved.version > 0
    <3>1. moved \in Balance
      BY <1>1, <1>2 DEF Out
    <3>2. CASE d.dir = "NONE"
      BY <1>1, <1>2, <3>2 DEF Moves
    <3>3. CASE d.dir # "NONE"
      <4>1. moved.version = w.version + 1 /\ w.version \in Nat
        BY <1>1, <1>2, <3>3 DEF Moves, Balance
      <4>. QED  BY <3>1, <4>1
    <3>. QED  BY <3>1, <3>2, <3>3
  <2>4. ref.id \in TxIds \cup {0}
    BY DEF Seen
  <2>5. c.ref # "" => ref.id # 0
    BY <1>8 DEF Backs
  <2>6. ValidWager(next)
    BY <1>8, <2>2, <2>3, <2>4, <2>5, ProcessedReadable
  <2>7. /\ next.status = "PROCESSED" /\ next.balance = moved.balance
        /\ next.version = moved.version /\ next.refId = ref.id
    BY <2>2 DEF Freeze, Row
  <2>. HIDE DEF next
  <2>. QED  BY <1>1, <1>2, <1>8, <2>1, <2>6, <2>7 DEF o, dir, Ruling
<1>. QED  BY <1>5, <1>6, <1>7, <1>8

\* The permanent failure of RetryReference can be read back.
LEMMA FailureJudged ==
  ASSUME NEW id \in TxIds, NEW row \in Row, Undecided(row), NEW w \in Balance,
         w.version > 0
  PROVE  LET o == Failure(id, row, w) IN
         /\ ValidWager(o.row) /\ o.row.status = "FAILED" /\ o.row.refId = 0
         /\ o.dir = "NONE"
<1>1. "PERMANENT_PROCESSING_FAILURE" \in Codes \ {""}
  BY DEF Codes
<1>. DEFINE next == Freeze(row, "FAILED", "PERMANENT_PROCESSING_FAILURE", w, 0)
            o == Failure(id, row, w)
<1>2. ValidWager(next) /\ next.status = "FAILED" /\ next.refId = 0
  BY <1>1, RefusedReadable
<1>3. o.row = next /\ o.dir = "NONE"
  BY DEF Failure
<1>. HIDE DEF next, o
<1>. QED  BY <1>2, <1>3 DEF o

\* The OPENING wager of a new wallet can be read back, and has no identity that an
\* external command could have.
LEMMA OpeningReadable ==
  ASSUME NEW id \in TxIds, NEW w \in Wallets, Accounts[w].initial > 0
  PROVE  LET row == Opening(id, w).row IN
         /\ row \in Row
         /\ ValidWager(row) /\ row.status = "PROCESSED" /\ row.refId = 0
         /\ row.cmd.kind = "OPENING" /\ row.cmd.provider = "" /\ row.cmd.wallet = w
         /\ row.balance = Accounts[w].initial /\ row.version = 1
<1>. DEFINE c == OpeningCommand(w)
            new == [balance |-> Accounts[w].initial, version |-> 1]
            fresh == NewRow(c, "PENDING")
            row == Freeze(fresh, "PROCESSED", "", new, 0)
<1>1. Accounts[w] \in Account
  BY AccountsAssumption
<1>2. /\ c \in Command /\ c.wallet = w /\ c.amount = Accounts[w].initial
      /\ c.kind = "OPENING" /\ c.currency = Accounts[w].currency
      /\ c.provider = "" /\ c.ext = "" /\ c.key = "" /\ c.round = "" /\ c.ref = ""
  BY <1>1, InitialValues DEF OpeningCommand, NoCommand, Command, Account
<1>3. fresh \in Row /\ fresh.cmd = c
  <2>1. "PENDING" \in Statuses
    BY DEF Statuses
  <2>. HIDE DEF c
  <2>. QED  BY <1>2, <2>1, NewRowType
<1>4. new.balance = Accounts[w].initial /\ new.version = 1
  OBVIOUS
<1>5. Opening(id, w).row = row
  BY DEF Opening
<1>. HIDE DEF c, new, fresh
<1>6. /\ row.cmd = c /\ row.status = "PROCESSED" /\ row.code = "" /\ row.refId = 0
      /\ row.balance = Accounts[w].initial /\ row.version = 1
      /\ row.currency = Accounts[w].currency
  BY <1>2, <1>3, <1>4 DEF Freeze, Row
<1>7. row \in Row
  BY <1>5, OpeningSound
<1>. HIDE DEF row
<1>8. row.currency # ""
  BY <1>1, <1>6 DEF Account
<1>9. ValidWager(row)
  <2>1. AmountFitsKind(c)
    BY <1>2 DEF AmountFitsKind
  <2>2. row.version >= 1
    <3>1. row.version = 1
      BY <1>6
    <3>. QED  BY <3>1
  <2>. QED  BY <1>2, <1>6, <1>8, <2>1, <2>2 DEF ValidWager, Terminal, TerminalStates
<1>. QED  BY <1>2, <1>5, <1>6, <1>7, <1>9

(***************************************************************************)
(* The outcome that a session stages.                                      *)
(***************************************************************************)
\* The reference that a session reads is a row it sees, or none.
LEMMA ReferenceSeen ==
  ASSUME NEW p \in Workers
  PROVE  \/ Reference(p) = NoSeen
         \/ /\ seen[p].row.cmd.ref # ""
            /\ Reference(p).id \in TxIds
            /\ Reference(p).row = View(p)[Reference(p).id]
<1>. DEFINE rows == View(p)
            c == seen[p].row.cmd
            hits == ByExt(rows, [c EXCEPT !.ext = c.ref])
            t == CHOOSE t \in hits : TRUE
<1>1. hits \subseteq TxIds
  BY DEF ByExt, Present
<1>. HIDE DEF rows, hits
<1>2. CASE c.ref = "" \/ hits = {}
  BY <1>2 DEF Reference, ReferenceIn, rows, hits
<1>3. CASE ~(c.ref = "" \/ hits = {})
  <2>1. Reference(p) = [id |-> t, row |-> rows[t]]
    BY <1>3 DEF Reference, ReferenceIn, rows, hits
  <2>2. t \in TxIds
    BY <1>1, <1>3
  <2>. HIDE DEF t
  <2>3. Reference(p).id = t /\ Reference(p).row = rows[t]
    BY <2>1
  <2>. QED  BY <1>3, <2>2, <2>3, Zenon DEF rows
<1>. QED  BY <1>2, <1>3

\* What apply stages for an undecided wager passes the commit guards.
LEMMA SettleJudged ==
  ASSUME IndInv, NEW p \in Workers, seen[p].id # 0, Undecided(seen[p].row),
         snap[p].version > 0, wager[seen[p].id].status # "PROCESSED",
         NEW expired \in BOOLEAN
  PROVE  Sound(seen[p].id, Settle(p, expired))
<1>. DEFINE id == seen[p].id
            c == seen[p].row.cmd
            ref == Reference(p)
            reversed == ReversedIn(View(p), ref.id)
            o == Settle(p, expired)
<1>1. DbType /\ SessionType
  BY TypeParts DEF IndInv
<1>2. /\ id \in TxIds /\ seen[p].row \in Row /\ snap[p] \in Balance /\ ref \in Seen
  BY <1>1, SessionFacts, ReferenceType
<1>3. o = Outcome(id, seen[p].row, snap[p], ref, reversed, expired)
  BY DEF Settle
<1>. HIDE DEF ref, reversed, o
<1>4. /\ ValidWager(o.row) /\ o.row.cmd = c
      /\ o.row.status \in {"PROCESSED", "REJECTED", "PENDING_REFERENCE"}
      /\ o.row.status # "PROCESSED" => o.row.refId = 0 /\ o.dir = "NONE"
      /\ o.row.status = "PROCESSED" =>
           /\ o.row.balance = o.wallet.balance /\ o.row.version = o.wallet.version
           /\ o.row.refId = ref.id
           /\ o.dir = DirectionOf(c.kind, ref.row.cmd.kind)
           /\ c.ref # "" => Backs(id, c, ref, reversed)
  <2>1. Ruling(o, id, seen[p].row, ref, reversed)
    BY <1>2, <1>3, OutcomeJudged
  <2>. QED  BY <2>1 DEF Ruling
<1>5. CASE o.row.status # "PROCESSED"
  BY <1>2, <1>4, <1>5 DEF Sound, Backed, o
<1>6. CASE o.row.status = "PROCESSED" /\ ref = NoSeen
  <2>1. ref.id = 0 /\ ref.row.cmd.kind = "OPENING"
    BY <1>6 DEF NoSeen, NoRow, NewRow, NoCommand
  <2>2. c.ref = ""
    BY <1>4, <1>6, <2>1 DEF Backs
  <2>3. c.kind \notin Reversals
    BY <2>2, NormalFacts DEF Undecided
  <2>4. o.row.refId = 0
    BY <1>4, <1>6, <2>1
  <2>. QED  BY <1>2, <1>4, <1>6, <2>1, <2>3, <2>4 DEF Sound, Backed, RefKind, o
<1>7. CASE o.row.status = "PROCESSED" /\ ref # NoSeen
  <2>1. c.ref # "" /\ ref.id \in TxIds /\ ref.row = View(p)[ref.id]
    BY <1>7, ReferenceSeen DEF ref
  <2>2. Backs(id, c, ref, reversed)
    BY <1>4, <1>7, <2>1
  <2>3. ref.id # id /\ ref.id # 0
    BY <2>2 DEF Backs, SameBusiness
  <2>4. ref.row = wager[ref.id]
    BY <2>1, <2>3 DEF View
  <2>5. o.row.refId = ref.id
    BY <1>4, <1>7
  <2>6. RefKind(o.row) = ref.row.cmd.kind
    BY <2>3, <2>4, <2>5 DEF RefKind
  <2>7. Backed(o.row)
    BY <1>4, <2>2, <2>4, <2>5 DEF Backed, Backs, SameBusiness
  <2>8. ASSUME c.kind \in Reversals  PROVE  ~ReversedIn(wager, ref.id)
    <3>1. ~ReversedIn(View(p), ref.id)
      BY <2>2, <2>8 DEF Backs, reversed
    <3>2. ASSUME NEW u \in TxIds, ProcessedReversal(wager[u], ref.id)  PROVE  FALSE
      <4>1. u # id
        BY <3>2 DEF ProcessedReversal
      <4>2. View(p)[u] = wager[u]
        BY <4>1 DEF View
      <4>. QED  BY <3>1, <3>2, <4>2 DEF ReversedIn
    <3>. QED  BY <3>2 DEF ReversedIn
  <2>. QED  BY <1>4, <1>7, <2>3, <2>5, <2>6, <2>7, <2>8 DEF Sound, o
<1>. QED  BY <1>5, <1>6, <1>7

\* A row that waits in the table is undecided.
LEMMA WaitingUndecided ==
  ASSUME IndInv, RowsSound, NEW t \in TxIds, wager[t].status = "PENDING_REFERENCE"
  PROVE  Undecided(wager[t]) /\ ValidWager(wager[t]) /\ wager[t].refId = 0
<1>1. Exists(t)
  BY DEF Exists, Present
<1>2. Readable(wager[t])
  BY <1>1 DEF RowsSound
<1>3. /\ ValidWager(wager[t]) /\ wager[t].refId = 0
  BY <1>2 DEF Readable
<1>4. wager[t].cmd.ref # "" /\ wager[t].code = "" /\ wager[t].version = 0
  BY <1>3 DEF ValidWager, Terminal, TerminalStates
<1>5. wager[t].cmd.kind # "OPENING"
  BY <1>3, <1>4 DEF ValidWager
<1>. QED  BY <1>3, <1>4, <1>5 DEF Undecided, ValidWager

(***************************************************************************)
(* The forms of a step: a new wallet, a commit, or a turn of one session   *)
(* that changes no wallet, ledger, wager or outbox row.                    *)
(***************************************************************************)
HandlerTurn(p) ==
  \/ \E r \in Requests : ProcessWager(p, r)
  \/ ReserveInbox(p) \/ LoadInboxWager(p) \/ FindIdentity(p) \/ CommitReplay(p)
  \/ LockWallet(p) \/ InsertWager(p) \/ Apply(p) \/ Respond(p) \/ Rollback(p)

ResolverTurn(r) ==
  \/ \E t \in TxIds : ClaimReference(r, t)
  \/ LockForRetry(r) \/ SelectClaim(r) \/ RetryApply(r) \/ Rollback(r)

tables == <<wallet, ledger, wager, outbox>>

\* The other sessions do not move.
Others(p) ==
  \A q \in Workers \ {p} :
    /\ pc'[q] = pc[q] /\ req'[q] = req[q] /\ seen'[q] = seen[q]
    /\ snap'[q] = snap[q] /\ out'[q] = out[q] /\ reply'[q] = reply[q]

\* A turn of a handler is its own.
LEMMA HandlerFrame ==
  ASSUME IndInv, NEW p \in Handlers, HandlerTurn(p)
  PROVE  UNCHANGED tables /\ Others(p)
<1>1. p \in Workers /\ SessionType
  BY HandlerFacts
<1>. USE DEF SessionType
<1>2. ASSUME NEW code, Refuse(p, code)  PROVE  Others(p)
  BY <1>1, <1>2 DEF Refuse, Return, Others
<1>3. ASSUME NEW r \in Requests, ProcessWager(p, r)  PROVE  UNCHANGED tables /\ Others(p)
  BY <1>1, <1>3 DEF ProcessWager, tables, db, Others
<1>4. CASE ReserveInbox(p)
  <2>1. UNCHANGED tables
    BY <1>4 DEF ReserveInbox, tables, db
  <2>2. CASE \E code : Refuse(p, code)
    BY <1>2, <2>1, <2>2
  <2>3. CASE /\ \E s : pc' = [pc EXCEPT ![p] = s]
             /\ UNCHANGED <<lock, req, seen, snap, out, reply>>
    BY <1>1, <2>1, <2>3 DEF Others
  <2>. QED  BY <1>4, <2>2, <2>3 DEF ReserveInbox
<1>5. CASE LoadInboxWager(p)
  <2>1. UNCHANGED tables
    BY <1>5 DEF LoadInboxWager, tables, db
  <2>2. CASE \E code : Refuse(p, code)
    BY <1>2, <2>1, <2>2
  <2>3. CASE /\ \E s : pc' = [pc EXCEPT ![p] = s]
             /\ \E s : seen' = [seen EXCEPT ![p] = s]
             /\ UNCHANGED <<lock, req, snap, out, reply>>
    BY <1>1, <2>1, <2>3 DEF Others
  <2>. QED  BY <1>5, <2>2, <2>3 DEF LoadInboxWager
<1>6. CASE FindIdentity(p)
  <2>1. UNCHANGED tables
    BY <1>6 DEF FindIdentity, tables, db
  <2>2. CASE \E code : Refuse(p, code)
    BY <1>2, <2>1, <2>2
  <2>3. CASE /\ \E s : pc' = [pc EXCEPT ![p] = s]
             /\ seen' = seen \/ \E s : seen' = [seen EXCEPT ![p] = s]
             /\ UNCHANGED <<lock, req, snap, out, reply>>
    BY <1>1, <2>1, <2>3 DEF Others
  <2>. QED  BY <1>6, <2>2, <2>3 DEF FindIdentity
<1>7. CASE CommitReplay(p)
  BY <1>1, <1>7 DEF CommitReplay, Return, tables, Others
<1>8. CASE LockWallet(p)
  <2>1. UNCHANGED tables
    BY <1>8 DEF LockWallet, tables, db
  <2>2. CASE \E code : Refuse(p, code)
    BY <1>2, <2>1, <2>2
  <2>3. CASE /\ \E s : snap' = [snap EXCEPT ![p] = s]
             /\ pc' = [pc EXCEPT ![p] = "insert"]
             /\ UNCHANGED <<req, seen, out, reply>>
    BY <1>1, <2>1, <2>3 DEF Others
  <2>. QED  BY <1>8, <2>2, <2>3 DEF LockWallet
<1>9. CASE InsertWager(p)
  <2>1. UNCHANGED tables
    BY <1>9 DEF InsertWager, tables, db
  <2>2. /\ \E s : pc' = [pc EXCEPT ![p] = s]
        /\ seen' = seen \/ \E s : seen' = [seen EXCEPT ![p] = s]
        /\ UNCHANGED <<lock, req, snap, out, reply>>
    BY <1>9 DEF InsertWager
  <2>. QED  BY <1>1, <2>1, <2>2 DEF Others
<1>10. CASE Apply(p)
  <2>1. UNCHANGED tables
    BY <1>10 DEF Apply, tables, db
  <2>2. CASE \E code : Refuse(p, code)
    BY <1>2, <2>1, <2>2
  <2>3. CASE /\ \E o : out' = [out EXCEPT ![p] = o]
             /\ pc' = [pc EXCEPT ![p] = "commit"]
             /\ UNCHANGED <<lock, req, seen, snap, reply>>
    BY <1>1, <2>1, <2>3 DEF Others
  <2>. QED  BY <1>10, <2>2, <2>3 DEF Apply
<1>11. CASE Respond(p)
  BY <1>1, <1>11 DEF Respond, tables, db, Others
<1>12. CASE Rollback(p)
  <2>1. UNCHANGED tables /\ Refuse(p, "UNAVAILABLE")
    BY <1>12, WorkersAssumption DEF Rollback, tables, db
  <2>. QED  BY <1>2, <2>1
<1>. QED
  BY <1>3, <1>4, <1>5, <1>6, <1>7, <1>8, <1>9, <1>10, <1>11, <1>12 DEF HandlerTurn

\* A turn of a resolver is its own.
LEMMA ResolverFrame ==
  ASSUME IndInv, NEW p \in Resolvers, ResolverTurn(p)
  PROVE  UNCHANGED tables /\ Others(p)
<1>1. p \in Workers /\ SessionType
  BY ResolverFacts
<1>. USE DEF SessionType
<1>2. ASSUME Leave(p)  PROVE  Others(p)
  BY <1>1, <1>2 DEF Leave, Others
<1>3. ASSUME NEW t \in TxIds, ClaimReference(p, t)  PROVE  UNCHANGED tables /\ Others(p)
  BY <1>1, <1>3 DEF ClaimReference, tables, Others
<1>4. CASE LockForRetry(p)
  BY <1>1, <1>4 DEF LockForRetry, tables, db, Others
<1>5. CASE SelectClaim(p)
  <2>1. UNCHANGED tables
    BY <1>5 DEF SelectClaim, tables, db
  <2>2. CASE Leave(p)
    BY <1>2, <2>1, <2>2
  <2>3. CASE /\ seen' = [seen EXCEPT ![p].row = wager[seen[p].id]]
             /\ pc' = [pc EXCEPT ![p] = "rapply"]
             /\ UNCHANGED <<lock, req, snap, out, reply>>
    BY <1>1, <2>1, <2>3 DEF Others
  <2>. QED  BY <1>5, <2>2, <2>3 DEF SelectClaim
<1>6. CASE RetryApply(p)
  <2>1. UNCHANGED tables
    BY <1>6 DEF RetryApply, tables, db
  <2>2. /\ \E o : out' = [out EXCEPT ![p] = o]
        /\ pc' = [pc EXCEPT ![p] = "rcommit"]
        /\ UNCHANGED <<lock, req, seen, snap, reply>>
    BY <1>6 DEF RetryApply
  <2>. QED  BY <1>1, <2>1, <2>2 DEF Others
<1>7. CASE Rollback(p)
  <2>1. UNCHANGED tables /\ Leave(p)
    BY <1>7, WorkersAssumption DEF Rollback, tables, db
  <2>. QED  BY <1>2, <2>1
<1>. QED  BY <1>3, <1>4, <1>5, <1>6, <1>7 DEF ResolverTurn

\* Every step has one of the forms.
LEMMA NextForms ==
  ASSUME IndInv, [Next]_vars
  PROVE  \/ \E w \in Wallets : CreateWallet(w)
         \/ \E p \in Handlers : Commit(p) \/ HandlerTurn(p)
         \/ \E r \in Resolvers : RetryCommit(r) \/ ResolverTurn(r)
         \/ UNCHANGED <<tables, inbox, lock, session>>
<1>. DEFINE Still == UNCHANGED <<tables, inbox, lock, session>>
<1>1. CASE UNCHANGED vars
  BY <1>1 DEF vars, db, tables
<1>2. ASSUME NEW p \in Handlers, HandlerStep(p)  PROVE  Commit(p) \/ HandlerTurn(p)
  BY <1>2, Zenon DEF HandlerStep, HandlerTurn
<1>3. ASSUME NEW p \in Handlers, \E r \in Requests : ProcessWager(p, r)
      PROVE  HandlerTurn(p)
  BY <1>3, Zenon DEF HandlerTurn
<1>4. ASSUME NEW r \in Resolvers, ResolverStep(r)  PROVE  RetryCommit(r) \/ ResolverTurn(r)
  BY <1>4, Zenon DEF ResolverStep, ResolverTurn
<1>5. ASSUME NEW r \in Resolvers, \E t \in TxIds : ClaimReference(r, t)
      PROVE  ResolverTurn(r)
  BY <1>5, Zenon DEF ResolverTurn
<1>6. ASSUME NEW r \in Resolvers, ReleaseClaims(r)  PROVE  Still
  BY <1>6 DEF ReleaseClaims, tables
<1>7. ASSUME NEW t \in TxIds, BecomesDue(t) \/ LeaseExpires(t) \/ LeaseOverrun(t)
      PROVE  Still
  BY <1>7 DEF BecomesDue, LeaseExpires, LeaseOverrun, tables
<1>8. ASSUME NEW p \in Workers, Rollback(p)
      PROVE  \/ p \in Handlers /\ HandlerTurn(p)
             \/ p \in Resolvers /\ ResolverTurn(p)
  BY <1>8, Zenon DEF Workers, HandlerTurn, ResolverTurn
<1>. HIDE DEF Still
<1>9. CASE Next
  <2>1. \/ \E w \in Wallets : CreateWallet(w)
        \/ \E p \in Handlers : HandlerStep(p) \/ \E r \in Requests : ProcessWager(p, r)
        \/ \E r \in Resolvers : \/ ResolverStep(r) \/ ReleaseClaims(r)
                                \/ \E t \in TxIds : ClaimReference(r, t)
        \/ \E t \in TxIds : BecomesDue(t) \/ LeaseExpires(t) \/ LeaseOverrun(t)
        \/ \E p \in Workers : Rollback(p)
    BY <1>9, Zenon DEF Next
  <2>2. \/ \E w \in Wallets : CreateWallet(w)
        \/ \E p \in Handlers : Commit(p) \/ HandlerTurn(p)
        \/ \E r \in Resolvers : RetryCommit(r) \/ ResolverTurn(r)
        \/ Still
    BY <1>2, <1>3, <1>4, <1>5, <1>6, <1>7, <1>8, <2>1, Zenon
  <2>. QED  BY <2>2, Zenon DEF Still
<1>. QED  BY <1>1, <1>9 DEF Still

(***************************************************************************)
(* What a turn teaches the session that takes it.                          *)
(***************************************************************************)
Knows(p) == Checked(p) /\ Answered(p) /\ Judged(p)

\* A handler that inserts its row meets no uncommitted one with its identity.
Joins(p) ==
  Inserted(p)' =>
    \/ Inserted(p) /\ req'[p] = req[p]
    \/ \A q \in Handlers \ {p} : Inserted(q) => ~Clash(req[q].cmd, req'[p].cmd)

\* A session that is idle or has been refused knows nothing of its command.
LEMMA RestKnows ==
  ASSUME NEW p \in Workers,
         pc'[p] = "idle" \/ (pc'[p] = "reply" /\ reply'[p].error # "")
  PROVE  Knows(p)' /\ Joins(p)
<1>1. pc'[p] \notin (HandlerStates \ {"reply"}) \cup {"insert", "refind", "apply", "commit",
                     "replay", "rcommit"}
  BY DEF HandlerStates
<1>. QED
  BY <1>1 DEF Knows, Joins, Checked, Answered, Judged, Inserted

\* A refusal has an error.
LEMMA RefusedKnows ==
  ASSUME IndInv, NEW p \in Handlers, NEW code \in Errors \ {""}, Refuse(p, code)
  PROVE  Knows(p)' /\ Joins(p)
<1>1. p \in Workers /\ SessionType
  BY HandlerFacts
<1>2. pc'[p] = "reply" /\ reply'[p] = Refusal(code)
  BY <1>1 DEF Refuse, Return, SessionType
<1>3. Refusal(code).error = code
  BY DEF Refusal, NoResult
<1>. QED  BY <1>1, <1>2, <1>3, RestKnows

\* A session before its wallet lock knows only that its command is well formed.
LEMMA EarlyKnows ==
  ASSUME NEW p \in Workers, pc'[p] \in {"reserve", "load", "find", "lock"},
         NormalizeCommand(req'[p].cmd) = ""
  PROVE  Knows(p)' /\ Joins(p)
BY DEF Knows, Joins, Checked, Answered, Judged, Inserted

\* A session that found the wager of its command will answer with it.
LEMMA ReplayKnows ==
  ASSUME NEW p \in Workers, pc'[p] = "replay", NormalizeCommand(req'[p].cmd) = "",
         wager' = wager, RowsSound, NEW t \in TxIds, Exists(t),
         seen'[p].id = t, seen'[p].row = wager[t]
  PROVE  Knows(p)' /\ Joins(p)
<1>1. wager[t].status # "PENDING"
  BY DEF RowsSound, Readable
<1>. QED
  BY <1>1 DEF Knows, Joins, Checked, Answered, Judged, Inserted

\* The arrival of a command: it goes on only if it is well formed.
LEMMA ProcessKnows ==
  ASSUME IndInv, NEW p \in Handlers, NEW r \in Requests, ProcessWager(p, r)
  PROVE  Knows(p)' /\ Joins(p)
<1>. DEFINE bad == NormalizeCommand(r.cmd)
<1>1. p \in Workers /\ SessionType
  BY HandlerFacts
<1>2. /\ req'[p] = r /\ reply'[p] = Refusal(bad)
      /\ pc'[p] = IF bad # "" THEN "reply" ELSE IF r.msg = "" THEN "find" ELSE "reserve"
  BY <1>1 DEF ProcessWager, SessionType
<1>3. Refusal(bad).error = bad
  BY DEF Refusal, NoResult
<1>. HIDE DEF bad
<1>4. CASE bad = ""
  BY <1>1, <1>2, <1>4, EarlyKnows DEF bad
<1>5. CASE bad # ""
  BY <1>1, <1>2, <1>3, <1>5, RestKnows
<1>. QED  BY <1>4, <1>5

\* The codes that ProcessWager refuses with.
LEMMA RefusalCodes ==
  {"NOT_FOUND", "PLAYER_MISMATCH", "INVALID_WAGER", "INVALID_WALLET", "UNAVAILABLE",
   "INBOX_MESSAGE_REUSED", "IDEMPOTENCY_KEY_REUSED", "EXTERNAL_TRANSACTION_ID_REUSED"}
    \subseteq Errors \ {""}
BY DEF Errors

\* What a handler knows at the start of a turn, in the form the turns use.
LEMMA HandlerKnows ==
  ASSUME IndInv, CommandInv, NEW p \in Handlers
  PROVE  /\ p \in Workers /\ DbType /\ SessionType /\ Checked(p) /\ Answered(p) /\ Judged(p)
         /\ RowsSound /\ Rivals
BY HandlerFacts DEF CommandInv

\* reserveInbox.
LEMMA ReserveKnows ==
  ASSUME IndInv, CommandInv, NEW p \in Handlers, ReserveInbox(p)
  PROVE  Knows(p)' /\ Joins(p)
<1>1. p \in Workers /\ SessionType /\ Checked(p)
  BY HandlerKnows
<1>2. CASE Refuse(p, "INBOX_MESSAGE_REUSED")
  BY <1>2, RefusalCodes, RefusedKnows
<1>3. CASE (pc' = [pc EXCEPT ![p] = "find"] \/ pc' = [pc EXCEPT ![p] = "load"])
           /\ req' = req
  <2>1. pc'[p] \in {"find", "load"} /\ req'[p] = req[p]
    BY <1>1, <1>3 DEF SessionType
  <2>2. NormalizeCommand(req[p].cmd) = ""
    BY <1>1 DEF Checked, ReserveInbox, HandlerStates
  <2>. QED  BY <1>1, <2>1, <2>2, EarlyKnows
<1>. QED  BY <1>2, <1>3 DEF ReserveInbox

\* LoadInboxWager.
LEMMA LoadKnows ==
  ASSUME IndInv, CommandInv, NEW p \in Handlers, LoadInboxWager(p)
  PROVE  Knows(p)' /\ Joins(p)
<1>. DEFINE t == inbox[req[p].msg].tx
<1>1. p \in Workers /\ SessionType /\ Checked(p) /\ RowsSound
  BY HandlerKnows
<1>2. CASE Refuse(p, "INBOX_MESSAGE_REUSED")
  BY <1>2, RefusalCodes, RefusedKnows
<1>3. CASE /\ seen' = [seen EXCEPT ![p] = [id |-> t, row |-> wager[t]]]
           /\ pc' = [pc EXCEPT ![p] = "replay"] /\ req' = req
  <2>1. pc[p] = "load" /\ wager' = wager
    BY DEF LoadInboxWager, db
  <2>2. Exists(t) /\ t \in TxIds
    <3>1. req[p].msg \in Messages /\ t # 0
      BY <1>1, <2>1, HandlerFacts, SessionFacts DEF Placed
    <3>. QED  BY <3>1 DEF IndInv, InboxPointsHome, Exists, Present
  <2>3. /\ pc'[p] = "replay" /\ req'[p] = req[p]
        /\ seen'[p].id = t /\ seen'[p].row = wager[t]
    BY <1>1, <1>3 DEF SessionType
  <2>4. NormalizeCommand(req[p].cmd) = ""
    BY <1>1, <2>1 DEF Checked, HandlerStates
  <2>. HIDE DEF t
  <2>. QED  BY <1>1, <2>1, <2>2, <2>3, <2>4, ReplayKnows
<1>. QED  BY <1>2, <1>3 DEF LoadInboxWager

\* findIdentity, before the lock and after a conflict.
LEMMA FindKnows ==
  ASSUME IndInv, CommandInv, NEW p \in Handlers, FindIdentity(p)
  PROVE  Knows(p)' /\ Joins(p)
<1>. DEFINE c == req[p].cmd
            hits == IF ByKey(wager, c) # {} THEN ByKey(wager, c) ELSE ByExt(wager, c)
            t == CHOOSE t \in hits : TRUE
<1>1. p \in Workers /\ SessionType /\ Checked(p) /\ RowsSound
  BY HandlerKnows
<1>2. pc[p] \in {"find", "refind"} /\ wager' = wager
  BY DEF FindIdentity, db
<1>3. NormalizeCommand(c) = ""
  BY <1>1, <1>2 DEF Checked, HandlerStates
<1>4. CASE \E code \in Errors \ {""} : Refuse(p, code)
  BY <1>4, RefusedKnows
<1>5. CASE pc' = [pc EXCEPT ![p] = "lock"] /\ req' = req
  <2>1. pc'[p] = "lock" /\ req'[p] = req[p]
    BY <1>1, <1>5 DEF SessionType
  <2>. QED  BY <1>1, <1>3, <2>1, EarlyKnows
<1>6. CASE /\ hits # {}
           /\ seen' = [seen EXCEPT ![p] = [id |-> t, row |-> wager[t]]]
           /\ pc' = [pc EXCEPT ![p] = "replay"] /\ req' = req
  <2>1. t \in TxIds /\ Exists(t)
    BY <1>6, FoundType
  <2>. HIDE DEF t, hits
  <2>2. /\ pc'[p] = "replay" /\ req'[p] = req[p]
        /\ seen'[p].id = t /\ seen'[p].row = wager[t]
    BY <1>1, <1>6 DEF SessionType
  <2>. QED  BY <1>1, <1>2, <1>3, <2>1, <2>2, ReplayKnows
<1>. QED
  BY <1>4, <1>5, <1>6, RefusalCodes DEF FindIdentity

\* The answer of a replay is the one that the wager froze.
LEMMA CommitReplayKnows ==
  ASSUME IndInv, CommandInv, NEW p \in Handlers, CommitReplay(p)
  PROVE  Knows(p)' /\ Joins(p)
<1>. DEFINE d == seen[p]
            now == wallet[d.row.cmd.wallet]
            a == ResultOf(d.id, d.row, now, TRUE)
<1>1. p \in Workers /\ SessionType /\ Answered(p) /\ Found(p)
  BY HandlerKnows, HandlerFacts
<1>2. pc[p] = "replay" /\ wager' = wager /\ req' = req
  BY DEF CommitReplay, Return
<1>3. pc'[p] = "reply" /\ reply'[p] = a
  BY <1>1 DEF CommitReplay, Return, SessionType
<1>4. /\ Exists(d.id) /\ wager[d.id].cmd = req[p].cmd
      /\ d.row.status # "PENDING"
      /\ Terminal(d.row.status) => wager[d.id] = d.row
  BY <1>1, <1>2 DEF Answered, Found
<1>5. /\ a.id = d.id /\ a.status = d.row.status /\ a.code = d.row.code
      /\ Terminal(d.row.status) => a.balance = d.row.balance /\ a.version = d.row.version
  BY DEF ResultOf
<1>. HIDE DEF a
<1>6. Answered(p)'
  BY <1>2, <1>3, <1>4, <1>5 DEF Answered, Exists, Present
<1>7. Checked(p)' /\ Judged(p)' /\ Joins(p)
  BY <1>3 DEF Checked, Judged, Joins, Inserted, HandlerStates
<1>. QED  BY <1>6, <1>7 DEF Knows

\* lockWallet and the checks on the locked wallet.
LEMMA LockKnows ==
  ASSUME IndInv, CommandInv, NEW p \in Handlers, LockWallet(p)
  PROVE  Knows(p)' /\ Joins(p)
<1>. DEFINE c == req[p].cmd
<1>1. p \in Workers /\ SessionType /\ Checked(p)
  BY HandlerKnows
<1>2. NormalizeCommand(c) = ""
  BY <1>1 DEF Checked, LockWallet, HandlerStates
<1>3. CASE \E code \in Errors \ {""} : Refuse(p, code)
  BY <1>3, RefusedKnows
<1>4. CASE /\ Accounts[c.wallet].player = c.player /\ AcceptsReference(c)
           /\ pc' = [pc EXCEPT ![p] = "insert"] /\ req' = req
  <2>1. pc'[p] = "insert"
    BY <1>1, <1>4 DEF SessionType
  <2>. QED
    BY <1>2, <1>4, <2>1 DEF Knows, Joins, Checked, Answered, Judged, Inserted
<1>. QED  BY <1>3, <1>4, RefusalCodes DEF LockWallet

\* No committed row has the identity of c exactly if both lookups find nothing.
LEMMA UnclaimedHits ==
  ASSUME NEW c
  PROVE  Unclaimed(c) <=> ByKey(wager, c) \cup ByExt(wager, c) = {}
BY DEF Unclaimed, Clash, ByKey, ByExt, Exists, Present

\* The insert waits for rivals and sees the committed rows.
LEMMA InsertKnows ==
  ASSUME IndInv, CommandInv, NEW p \in Handlers, InsertWager(p)
  PROVE  Knows(p)' /\ Joins(p)
<1>. DEFINE c == req[p].cmd
<1>1. p \in Workers /\ SessionType /\ Checked(p)
  BY HandlerKnows
<1>2. pc[p] = "insert" /\ wager' = wager /\ req' = req
  BY DEF InsertWager, db
<1>3. NormalizeCommand(c) = "" /\ AcceptsReference(c) /\ Accounts[c.wallet].player = c.player
  BY <1>1, <1>2 DEF Checked, HandlerStates
<1>4. Unclaimed(c)' <=> Unclaimed(c)
  BY <1>2 DEF Unclaimed, Exists, Present
<1>5. CASE /\ ByKey(wager, c) \cup ByExt(wager, c) # {}
           /\ pc' = [pc EXCEPT ![p] = "refind"]
  <2>1. pc'[p] = "refind"
    BY <1>1, <1>5 DEF SessionType
  <2>2. ~Unclaimed(c)'
    BY <1>4, <1>5, UnclaimedHits
  <2>. QED
    BY <1>2, <1>3, <2>1, <2>2 DEF Knows, Joins, Checked, Answered, Judged, Inserted
<1>6. CASE /\ ByKey(wager, c) \cup ByExt(wager, c) = {}
           /\ seen' = [seen EXCEPT ![p] = [id |-> FreshId, row |-> NewRow(c, "PENDING")]]
           /\ pc' = [pc EXCEPT ![p] = "apply"]
  <2>1. pc'[p] = "apply" /\ seen'[p].row = NewRow(c, "PENDING")
    BY <1>1, <1>6 DEF SessionType
  <2>2. Unclaimed(c)'
    BY <1>4, <1>6, UnclaimedHits
  <2>3. Joins(p)
    <3>1. ASSUME NEW q \in Handlers \ {p}, Inserted(q)  PROVE  ~Clash(req[q].cmd, c)
      <4>1. seen[q].row.cmd = req[q].cmd
        BY <3>1, HandlerFacts DEF Private, Inserted
      <4>2. ~SameKey(seen[q].row.cmd, c) /\ ~SameExt(seen[q].row.cmd, c)
        BY <3>1 DEF InsertWager
      <4>. QED  BY <4>1, <4>2 DEF Clash
    <3>. QED  BY <1>2, <3>1 DEF Joins
  <2>. QED
    BY <1>2, <1>3, <2>1, <2>2, <2>3 DEF Knows, Checked, Answered, Judged
<1>. QED  BY <1>5, <1>6 DEF InsertWager


\* apply stages an outcome that the guards accept.
LEMMA ApplyKnows ==
  ASSUME IndInv, CommandInv, NEW p \in Handlers, Apply(p)
  PROVE  Knows(p)' /\ Joins(p)
<1>. DEFINE c == req[p].cmd
<1>1. /\ p \in Workers /\ SessionType /\ Checked(p) /\ Placed(p) /\ Locked(p) /\ Private(p)
  BY HandlerKnows, HandlerFacts
<1>2. pc[p] = "apply" /\ wager' = wager
  BY DEF Apply, db
<1>3. /\ NormalizeCommand(c) = "" /\ AcceptsReference(c)
      /\ Accounts[c.wallet].player = c.player
      /\ seen[p].row = NewRow(c, "PENDING") /\ Unclaimed(c)
  BY <1>1, <1>2 DEF Checked, HandlerStates
<1>4. CASE Refuse(p, "INVALID_WALLET")
  BY <1>4, RefusalCodes, RefusedKnows
<1>5. CASE /\ out' = [out EXCEPT ![p] = Settle(p, FALSE)]
           /\ pc'  = [pc EXCEPT ![p] = "commit"]
           /\ UNCHANGED <<lock, req, seen, snap, reply, faults>>
  <2>1. pc'[p] = "commit" /\ out'[p] = Settle(p, FALSE)
    BY <1>1, <1>5 DEF SessionType
  <2>2. seen[p].id # 0 /\ snap[p].version > 0
    BY <1>1, <1>2 DEF Placed, Busy, Locked, Holding
  <2>3. Undecided(seen[p].row)
    <3>1. /\ NewRow(c, "PENDING").cmd = c /\ NewRow(c, "PENDING").status = "PENDING"
          /\ NewRow(c, "PENDING").code = "" /\ NewRow(c, "PENDING").version = 0
          /\ NewRow(c, "PENDING").refId = 0
      BY DEF NewRow
    <3>. QED  BY <1>3, <3>1 DEF Undecided
  <2>4. wager[seen[p].id].status # "PROCESSED"
    <3>1. ~Exists(seen[p].id) /\ seen[p].id \in TxIds
      BY <1>1, <1>2, <2>2, SessionFacts DEF Private
    <3>. QED  BY <3>1 DEF Exists, Present
  <2>5. Sound(seen[p].id, Settle(p, FALSE))
    BY <1>1, <2>2, <2>3, <2>4, SettleJudged
  <2>. DEFINE o == Settle(p, FALSE)
  <2>. HIDE DEF o
  <2>6. Judged(p)'
    BY <1>2, <1>5, <2>1, <2>5
    DEF Judged, Sound, Backed, RefKind, ReversedIn, o
  <2>7. Checked(p)' /\ Answered(p)' /\ Joins(p)
    BY <1>2, <1>3, <1>5, <2>1 DEF Checked, Answered, Unclaimed, Exists, Present, Joins,
                                  Inserted
  <2>. QED  BY <2>6, <2>7 DEF Knows
<1>. QED  BY <1>4, <1>5 DEF Apply

\* Every turn of a handler.
LEMMA HandlerTurnKnows ==
  ASSUME IndInv, CommandInv, NEW p \in Handlers, HandlerTurn(p)
  PROVE  Knows(p)' /\ Joins(p)
<1>1. CASE Respond(p)
  <2>1. p \in Workers /\ pc'[p] = "idle"
    BY <1>1, HandlerFacts DEF Respond, SessionType
  <2>. QED  BY <2>1, RestKnows
<1>2. CASE Rollback(p)
  <2>1. Refuse(p, "UNAVAILABLE")
    BY <1>2, WorkersAssumption DEF Rollback
  <2>. QED  BY <2>1, RefusalCodes, RefusedKnows
<1>. QED
  BY <1>1, <1>2, ProcessKnows, ReserveKnows, LoadKnows, FindKnows, CommitReplayKnows,
     LockKnows, InsertKnows, ApplyKnows
  DEF HandlerTurn

\* Every turn of a resolver: only RetryApply stages anything.
LEMMA ResolverTurnKnows ==
  ASSUME IndInv, CommandInv, NEW p \in Resolvers, ResolverTurn(p)
  PROVE  Knows(p)'
<1>1. /\ p \in Workers /\ p \notin Handlers /\ SessionType /\ Placed(p) /\ Locked(p)
      /\ Claimed(p) /\ Waiting(p)
  BY ResolverFacts
<1>2. ASSUME pc'[p] \in {"idle", "rlock", "rselect", "rapply"}  PROVE  Knows(p)'
  BY <1>2 DEF Knows, Checked, Answered, Judged, HandlerStates
<1>3. CASE \/ \E t \in TxIds : ClaimReference(p, t)
           \/ LockForRetry(p) \/ SelectClaim(p) \/ Rollback(p)
  <2>1. pc'[p] \in {"idle", "rlock", "rselect", "rapply"}
    BY <1>1, <1>3 DEF ClaimReference, LockForRetry, SelectClaim, Rollback, Leave, SessionType
  <2>. QED  BY <1>2, <2>1
<1>4. CASE RetryApply(p)
  <2>1. /\ wager' = wager /\ UNCHANGED <<seen, snap>> /\ pc[p] = "rapply"
        /\ pc' = [pc EXCEPT ![p] = "rcommit"]
    BY <1>4 DEF RetryApply, db
  <2>2. pc'[p] = "rcommit"
    BY <1>1, <2>1 DEF SessionType
  <2>3. /\ seen[p].id # 0 /\ seen[p].id \in TxIds /\ snap[p].version > 0
        /\ snap[p] \in Balance /\ seen[p].row \in Row
    <3>1. seen[p].id # 0 /\ snap[p].version > 0
      BY <1>1, <2>1 DEF Placed, Busy, ResolverStates, Locked, Holding
    <3>. QED  BY <1>1, <3>1, SessionFacts
  <2>4. wager[seen[p].id] = seen[p].row /\ seen[p].row.status = "PENDING_REFERENCE"
    BY <1>1, <2>1 DEF Waiting
  <2>5. Undecided(seen[p].row) /\ ValidWager(seen[p].row) /\ seen[p].row.refId = 0
    BY <2>3, <2>4, WaitingUndecided DEF CommandInv
  <2>6. Sound(seen[p].id, out'[p])
    <3>1. PICK late \in BOOLEAN :
            LET exhausted == poll[seen[p].id].attempts + 1 >= MaxAttempts \/ late IN
            \/ out' = [out EXCEPT ![p] = Settle(p, exhausted)]
            \/ out' = [out EXCEPT ![p] = Failure(seen[p].id, seen[p].row, snap[p])]
            \/ out' = [out EXCEPT ![p] = [row |-> seen[p].row, wallet |-> snap[p],
                                          dir |-> "NONE", events |-> <<>>]]
      BY <1>4 DEF RetryApply
    <3>. DEFINE exhausted == poll[seen[p].id].attempts + 1 >= MaxAttempts \/ late
                failed == Failure(seen[p].id, seen[p].row, snap[p])
                again == [row |-> seen[p].row, wallet |-> snap[p], dir |-> "NONE",
                          events |-> <<>>]
    <3>2. exhausted \in BOOLEAN
      OBVIOUS
    <3>. HIDE DEF exhausted
    <3>3. CASE out' = [out EXCEPT ![p] = Settle(p, exhausted)]
      <4>1. out'[p] = Settle(p, exhausted)
        BY <1>1, <3>3 DEF SessionType
      <4>2. wager[seen[p].id].status # "PROCESSED"
        BY <2>4
      <4>. QED  BY <1>1, <2>3, <2>5, <3>2, <4>1, <4>2, SettleJudged
    <3>4. CASE out' = [out EXCEPT ![p] = failed]
      <4>1. out'[p] = failed
        BY <1>1, <3>4 DEF SessionType
      <4>2. /\ ValidWager(failed.row) /\ failed.row.status = "FAILED"
            /\ failed.row.refId = 0 /\ failed.dir = "NONE"
        BY <2>3, <2>5, FailureJudged
      <4>. HIDE DEF failed
      <4>. QED  BY <2>3, <4>1, <4>2 DEF Sound, Backed
    <3>5. CASE out' = [out EXCEPT ![p] = again]
      <4>1. out'[p] = again
        BY <1>1, <3>5 DEF SessionType
      <4>2. again.row = seen[p].row /\ again.dir = "NONE"
        OBVIOUS
      <4>. HIDE DEF again
      <4>. QED  BY <2>3, <2>4, <2>5, <4>1, <4>2 DEF Sound, Backed
    <3>. QED  BY <3>1, <3>3, <3>4, <3>5 DEF exhausted
  <2>7. Judged(p)'
    BY <2>1, <2>6 DEF Judged, Sound, Backed, RefKind, ReversedIn
  <2>8. Checked(p)' /\ Answered(p)'
    BY <2>2 DEF Checked, Answered, HandlerStates
  <2>. QED  BY <2>7, <2>8 DEF Knows
<1>. QED  BY <1>3, <1>4 DEF ResolverTurn

(***************************************************************************)
(* What a written row does to the others.                                  *)
(***************************************************************************)
\* The row that a backed row refers to stays as it is.
LEMMA BackedKeeps ==
  ASSUME IndInv, [Next]_vars, NEW row, row.refId \in TxIds \cup {0}, Backed(row),
         row.refId # 0
  PROVE  wager'[row.refId] = wager[row.refId]
<1>1. row.refId \in TxIds /\ Terminal(wager[row.refId].status)
  BY DEF Backed, Terminal, TerminalStates
<1>. QED  BY <1>1, FrozenStep

\* The transaction that commits a wager works on the wallet of the wager.
LEMMA StagedWallet ==
  ASSUME IndInv, NEW p \in Workers, pc[p] \in {"commit", "rcommit"}
  PROVE  /\ out[p].row.cmd.wallet = WalletOf(p) /\ WalletOf(p) \in Wallets
         /\ lock[WalletOf(p)] = p /\ seen[p].id \in TxIds
         /\ wallet[WalletOf(p)] = snap[p] /\ snap[p].version > 0
         /\ ~Terminal(wager[seen[p].id].status)
<1>1. /\ SessionType /\ Placed(p) /\ Locked(p) /\ Private(p) /\ Claimed(p) /\ Staged(p)
      /\ Waiting(p)
  BY TypeParts DEF IndInv, Local
<1>2. out[p].row.cmd = seen[p].row.cmd
  BY <1>1 DEF Staged
<1>3. seen[p].id \in TxIds
  <2>1. seen[p].id # 0
    BY <1>1 DEF Placed, Busy, ResolverStates
  <2>. QED  BY <1>1, <2>1, SessionFacts
<1>4. CASE pc[p] = "commit"
  <2>1. p \in Handlers
    BY <1>1, <1>4 DEF Placed, Workers, ResolverStates
  <2>2. out[p].row.cmd.wallet = WalletOf(p)
    BY <1>1, <1>2, <1>4, <2>1 DEF Private, WalletOf
  <2>3. ~Terminal(wager[seen[p].id].status)
    BY <1>1, <1>3, <1>4 DEF Private, Exists, Present, Terminal, TerminalStates
  <2>. QED  BY <1>1, <1>3, <1>4, <2>2, <2>3, WalletOfType DEF Locked, Holding
<1>5. CASE pc[p] = "rcommit"
  <2>1. p \notin Handlers
    BY <1>1, <1>5 DEF Placed, HandlerStates
  <2>2. out[p].row.cmd.wallet = WalletOf(p)
    BY <1>2, <2>1 DEF WalletOf
  <2>3. ~Terminal(wager[seen[p].id].status)
    BY <1>1, <1>5 DEF Waiting, Terminal, TerminalStates
  <2>. QED  BY <1>1, <1>3, <1>5, <2>2, <2>3, WalletOfType DEF Locked, Holding
<1>. QED  BY <1>4, <1>5

\* A session q that does not move keeps what it knows when one row is written that does
\* not have its identity and does not reverse the row it is about to reverse.
LEMMA WriteKnows ==
  ASSUME IndInv, CommandInv, [Next]_vars, NEW id \in TxIds, NEW row, row.status # "NONE",
         wager' = [wager EXCEPT ![id] = row], Exists(id) => wager[id].cmd = row.cmd,
         NEW q \in Workers,
         pc'[q] = pc[q], req'[q] = req[q], seen'[q] = seen[q], out'[q] = out[q],
         reply'[q] = reply[q],
         Inserted(q) => ~Clash(row.cmd, req[q].cmd),
         pc[q] \in {"commit", "rcommit"} /\ out[q].row.refId # 0 =>
           ~ProcessedReversal(row, out[q].row.refId)
  PROVE  Knows(q)'
<1>1. DbType /\ SessionType /\ Checked(q) /\ Answered(q) /\ Judged(q) /\ Placed(q) /\ Found(q)
  BY TypeParts DEF IndInv, Local, CommandInv
<1>2. wager'[id] = row /\ \A t \in TxIds \ {id} : wager'[t] = wager[t]
  BY <1>1 DEF DbType
<1>3. ASSUME NEW t \in TxIds, Exists(t)
      PROVE  Exists(t)' /\ wager'[t].cmd = wager[t].cmd
  <2>1. CASE t = id
    BY <1>2, <1>3, <2>1 DEF Exists, Present
  <2>2. CASE t # id
    BY <1>2, <1>3, <2>2 DEF Exists, Present
  <2>. QED  BY <2>1, <2>2
<1>4. ~Unclaimed(req[q].cmd) => ~Unclaimed(req[q].cmd)'
  <2>. SUFFICES ASSUME NEW t \in TxIds, Exists(t), Clash(wager[t].cmd, req[q].cmd)
                PROVE  ~Unclaimed(req[q].cmd)'
    BY DEF Unclaimed
  <2>1. Exists(t)' /\ Clash(wager'[t].cmd, req'[q].cmd)
    BY <1>3
  <2>. QED  BY <2>1 DEF Unclaimed, Clash, SameKey, SameExt
<1>5. Inserted(q) /\ Unclaimed(req[q].cmd) => Unclaimed(req[q].cmd)'
  <2>. SUFFICES ASSUME Inserted(q), Unclaimed(req[q].cmd), NEW t \in TxIds, Exists(t)'
                PROVE  ~Clash(wager'[t].cmd, req[q].cmd)
    BY DEF Unclaimed, Clash, SameKey, SameExt
  <2>1. CASE t = id
    BY <1>2, <2>1
  <2>2. CASE t # id
    BY <1>2, <2>2 DEF Unclaimed, Exists, Present
  <2>. QED  BY <2>1, <2>2
<1>6. Checked(q)'
  <2>1. pc[q] \in {"apply", "commit"} => Inserted(q)
    BY <1>1 DEF Placed, Inserted, Workers, ResolverStates
  <2>. QED  BY <1>1, <1>4, <1>5, <2>1 DEF Checked
<1>7. Answered(q)'
  <2>1. CASE pc[q] = "replay"
    <3>1. seen[q].row.status # "PENDING" /\ seen[q].id \in TxIds
      BY <1>1, <2>1 DEF Answered, Found, Exists, Present
    <3>2. ASSUME Terminal(seen[q].row.status)  PROVE  wager'[seen[q].id] = seen[q].row
      <4>1. wager[seen[q].id] = seen[q].row
        BY <1>1, <2>1, <3>2 DEF Answered
      <4>. QED  BY <3>1, <3>2, <4>1, FrozenStep
    <3>. QED  BY <2>1, <3>1, <3>2 DEF Answered
  <2>2. CASE pc[q] = "reply" /\ reply[q].error = ""
    <3>. DEFINE a == reply[q]
    <3>1. /\ Exists(a.id) /\ wager[a.id].cmd = req[q].cmd /\ a.status # "PENDING"
          /\ Terminal(a.status) =>
               /\ a.status = wager[a.id].status /\ a.balance = wager[a.id].balance
               /\ a.version = wager[a.id].version /\ a.code = wager[a.id].code
      BY <1>1, <2>2 DEF Answered
    <3>2. a.id \in TxIds
      BY <3>1 DEF Exists, Present
    <3>3. wager'[a.id].status # "NONE" /\ wager'[a.id].cmd = req[q].cmd
      BY <1>3, <3>1, <3>2 DEF Exists, Present
    <3>4. Terminal(a.status) => wager'[a.id] = wager[a.id]
      BY <3>1, <3>2, FrozenStep
    <3>. QED  BY <2>2, <3>1, <3>2, <3>3, <3>4 DEF Answered, Exists, Present
  <2>3. CASE ~(pc[q] = "replay" \/ (pc[q] = "reply" /\ reply[q].error = ""))
    BY <2>3 DEF Answered
  <2>. QED  BY <2>1, <2>2, <2>3
<1>8. Judged(q)'
  <2>1. CASE pc[q] \in {"commit", "rcommit"}
    <3>. DEFINE o == out[q]
                u == o.row.refId
    <3>1. Sound(seen[q].id, o) /\ u \in TxIds \cup {0}
      BY <1>1, <2>1, SessionFacts DEF Judged, Row
    <3>2. u # 0 => wager'[u] = wager[u]
      BY <3>1, BackedKeeps DEF Sound
    <3>3. ASSUME u # 0, ~ReversedIn(wager, u), NEW t \in TxIds
          PROVE  ~ProcessedReversal(wager'[t], u)
      <4>1. CASE t = id
        BY <1>2, <2>1, <3>3, <4>1
      <4>2. CASE t # id
        BY <1>2, <3>3, <4>2 DEF ReversedIn
      <4>. QED  BY <4>1, <4>2
    <3>. HIDE DEF o, u
    <3>4. Sound(seen[q].id, o)'
      <4>1. o' = o /\ u' = u
        BY DEF o, u
      <4>2. RefKind(o.row)' = RefKind(o.row) /\ (Backed(o.row) => Backed(o.row)')
        BY <3>2, <4>1 DEF RefKind, Backed, u
      <4>3. u # 0 /\ ~ReversedIn(wager, u) => ~ReversedIn(wager, u)'
        BY <3>3, <4>1 DEF ReversedIn
      <4>. QED  BY <3>1, <4>1, <4>2, <4>3 DEF Sound, u
    <3>. QED  BY <3>4 DEF Judged, o
  <2>2. CASE pc[q] \notin {"commit", "rcommit"}
    BY <2>2 DEF Judged
  <2>. QED  BY <2>1, <2>2
<1>. QED  BY <1>6, <1>7, <1>8 DEF Knows

\* The table stays sound when a sound row is written over none or over one that waits.
LEMMA WriteTables ==
  ASSUME IndInv, CommandInv, [Next]_vars, NEW id \in TxIds, NEW row, row.status # "NONE",
         wager' = [wager EXCEPT ![id] = row], Exists(id) => wager[id].cmd = row.cmd,
         row.refId \in TxIds \cup {0}, Readable(row),
         row.status = "PROCESSED" /\ row.cmd.kind \in Reversals =>
           ~ReversedIn(wager, row.refId),
         row.cmd.kind \in ExternalKinds /\ ~Exists(id) => Unclaimed(row.cmd)
  PROVE  RowsSound' /\ OneReversal' /\ IdentityUnique'
<1>1. DbType /\ RowsSound /\ OneReversal /\ IdentityUnique
  BY TypeParts DEF IndInv, CommandInv
<1>2. wager'[id] = row /\ \A t \in TxIds \ {id} : wager'[t] = wager[t]
  BY <1>1 DEF DbType
<1>3. RowsSound'
  <2>. SUFFICES ASSUME NEW t \in TxIds, Exists(t)'  PROVE  Readable(wager[t])'
    BY DEF RowsSound
  <2>. DEFINE r == wager'[t]
  <2>1. Readable(r) /\ r.refId \in TxIds \cup {0}
    <3>1. CASE t = id
      BY <1>2, <3>1
    <3>2. CASE t # id
      <4>1. r = wager[t] /\ Exists(t)
        BY <1>2, <3>2 DEF Exists, Present
      <4>2. r \in Row
        BY <1>1, <4>1 DEF DbType
      <4>. QED  BY <1>1, <4>1, <4>2 DEF RowsSound, Row
    <3>. QED  BY <3>1, <3>2
  <2>2. r.refId # 0 => wager'[r.refId] = wager[r.refId]
    BY <2>1, BackedKeeps DEF Readable
  <2>. QED  BY <2>1, <2>2 DEF Readable, Backed
<1>4. OneReversal'
  <2>1. ASSUME NEW t \in TxIds, NEW v \in TxIds, t # id, ProcessedReversal(wager[t], v),
               ProcessedReversal(row, v)
        PROVE  FALSE
    BY <2>1 DEF ReversedIn, ProcessedReversal
  <2>. SUFFICES ASSUME NEW t \in TxIds, NEW u \in TxIds, NEW v \in TxIds,
                       ProcessedReversal(wager'[t], v), ProcessedReversal(wager'[u], v)
                PROVE  t = u
    BY DEF OneReversal, ProcessedReversal
  <2>2. CASE t # id /\ u # id
    BY <1>1, <1>2, <2>2 DEF OneReversal
  <2>3. CASE t = id \/ u = id
    BY <1>2, <2>1, <2>3
  <2>. QED  BY <2>2, <2>3
<1>5. IdentityUnique'
  <2>1. ASSUME NEW t \in TxIds, t # id, Exists(t), row.cmd.kind \in ExternalKinds,
               wager[t].cmd.kind \in ExternalKinds
        PROVE  ~Clash(wager[t].cmd, row.cmd)
    <3>1. CASE Exists(id)
      BY <1>1, <2>1, <3>1 DEF IdentityUnique, Clash
    <3>2. CASE ~Exists(id)
      BY <2>1, <3>2 DEF Unclaimed
    <3>. QED  BY <3>1, <3>2
  <2>2. \A a, b : Clash(a, b) <=> Clash(b, a)
    BY DEF Clash, SameKey, SameExt
  <2>. SUFFICES ASSUME NEW t \in TxIds, NEW u \in TxIds, t # u, Exists(t)', Exists(u)',
                       wager'[t].cmd.kind \in ExternalKinds,
                       wager'[u].cmd.kind \in ExternalKinds
                PROVE  ~Clash(wager'[t].cmd, wager'[u].cmd)
    BY DEF IdentityUnique, Clash, SameKey, SameExt
  <2>3. \A s \in TxIds \ {id} : Exists(s)' => Exists(s)
    BY <1>2 DEF Exists, Present
  <2>4. CASE t # id /\ u # id
    BY <1>1, <1>2, <2>3, <2>4 DEF IdentityUnique, Clash
  <2>5. CASE t = id
    BY <1>2, <2>1, <2>2, <2>3, <2>5
  <2>6. CASE u = id
    BY <1>2, <2>1, <2>3, <2>6
  <2>. QED  BY <2>4, <2>5, <2>6
<1>. QED  BY <1>3, <1>4, <1>5

\* A commit of p: the others keep what they know, the table stays sound.
LEMMA CommitKnows ==
  ASSUME IndInv, CommandInv, [Next]_vars, NEW p \in Workers, NEW n, Install(p, n),
         pc[p] \in {"commit", "rcommit"}, Others(p),
         Inserted(p) \/ Exists(seen[p].id)
  PROVE  /\ \A q \in Workers \ {p} : Knows(q)'
         /\ RowsSound' /\ OneReversal' /\ IdentityUnique'
<1>. DEFINE id == seen[p].id
            row == out[p].row
<1>1. /\ DbType /\ SessionType /\ Checked(p) /\ Judged(p) /\ Private(p) /\ Claimed(p)
      /\ Staged(p) /\ Rivals /\ Placed(p)
  BY TypeParts DEF IndInv, Local, CommandInv
<1>2. /\ id \in TxIds /\ row.cmd.wallet = WalletOf(p) /\ lock[WalletOf(p)] = p
  BY StagedWallet
<1>3. wager' = [wager EXCEPT ![id] = row]
  BY DEF Install
<1>4. Sound(id, out[p])
  BY <1>1 DEF Judged
<1>5. row.cmd = seen[p].row.cmd /\ row \in Row
  BY <1>1, SessionFacts DEF Staged
<1>6. Exists(id) => wager[id].cmd = row.cmd
  <2>1. CASE pc[p] = "commit"
    BY <1>1, <2>1 DEF Private
  <2>2. CASE pc[p] = "rcommit"
    BY <1>1, <1>5, <2>2 DEF Claimed, ResolverStates
  <2>. QED  BY <2>1, <2>2
<1>7. Inserted(p) => row.cmd = req[p].cmd /\ Unclaimed(req[p].cmd)
  BY <1>1, <1>5 DEF Inserted, Private, Checked
<1>8. /\ row.status # "NONE" /\ row.refId \in TxIds \cup {0} /\ Readable(row)
      /\ row.status = "PROCESSED" /\ row.cmd.kind \in Reversals =>
           row.refId # 0 /\ ~ReversedIn(wager, row.refId)
  BY <1>4, <1>5 DEF Sound, Readable, Row
<1>9. RowsSound' /\ OneReversal' /\ IdentityUnique'
  <2>1. row.cmd.kind \in ExternalKinds /\ ~Exists(id) => Unclaimed(row.cmd)
    BY <1>7
  <2>. HIDE DEF id, row
  <2>. QED  BY <1>2, <1>3, <1>6, <1>8, <2>1, WriteTables
<1>10. ASSUME NEW q \in Workers \ {p}  PROVE  Knows(q)'
  <2>1. /\ q \in Workers /\ q # p
        /\ pc'[q] = pc[q] /\ req'[q] = req[q] /\ seen'[q] = seen[q] /\ out'[q] = out[q]
        /\ reply'[q] = reply[q]
    BY DEF Others
  <2>2. Inserted(q) => ~Clash(row.cmd, req[q].cmd)
    <3>1. CASE Inserted(p)
      BY <1>1, <1>7, <2>1, <3>1 DEF Rivals, Inserted
    <3>2. CASE Exists(id)
      <4>1. Checked(q)
        BY DEF CommandInv
      <4>2. Inserted(q) => Unclaimed(req[q].cmd)
        BY <4>1 DEF Inserted, Checked
      <4>. QED  BY <1>2, <1>6, <3>2, <4>2 DEF Unclaimed
    <3>. QED  BY <3>1, <3>2
  <2>3. ASSUME pc[q] \in {"commit", "rcommit"}, out[q].row.refId # 0,
               ProcessedReversal(row, out[q].row.refId)
        PROVE  FALSE
    <3>. DEFINE u == out[q].row.refId
    <3>1. Sound(seen[q].id, out[q])
      BY <2>3 DEF CommandInv, Judged
    <3>2. wager[u].cmd.wallet = out[q].row.cmd.wallet
      BY <2>3, <3>1 DEF Sound, Backed
    <3>3. row.refId = u
      BY <2>3 DEF ProcessedReversal
    <3>4. wager[u].cmd.wallet = row.cmd.wallet
      BY <1>4, <2>3, <3>3 DEF Sound, Backed
    <3>5. out[q].row.cmd.wallet = WalletOf(q) /\ lock[WalletOf(q)] = q
      BY <2>1, <2>3, StagedWallet
    <3>. QED  BY <1>2, <2>1, <3>2, <3>4, <3>5
  <2>. HIDE DEF id, row
  <2>. QED  BY <1>2, <1>3, <1>6, <1>8, <2>1, <2>2, <2>3, WriteKnows
<1>. QED  BY <1>9, <1>10

(***************************************************************************)
(* The steps.                                                              *)
(***************************************************************************)
\* Nobody knows anything at the start, and there is no row.
LEMMA CommandInit == Init => CommandInv
<1>. SUFFICES ASSUME Init  PROVE  CommandInv
  OBVIOUS
<1>1. \A p \in Workers : pc[p] = "idle"
  BY DEF Init
<1>2. \A t \in TxIds : wager[t] = NoRow
  BY DEF Init
<1>3. NoRow.status = "NONE"
  BY DEF NoRow, NewRow
<1>4. \A t \in TxIds : ~Exists(t)
  BY <1>2, <1>3 DEF Exists, Present
<1>5. \A p \in Workers : Checked(p) /\ Answered(p) /\ Judged(p)
  BY <1>1 DEF Checked, Answered, Judged, HandlerStates
<1>6. Rivals
  BY <1>1 DEF Rivals, Inserted, Workers
<1>7. OneReversal
  BY <1>2, <1>3 DEF OneReversal, ProcessedReversal
<1>8. RowsSound /\ IdentityUnique
  BY <1>4 DEF RowsSound, IdentityUnique
<1>. QED  BY <1>5, <1>6, <1>7, <1>8 DEF CommandInv

\* A session that does not move while no row changes keeps what it knows.
LEMMA StillKnows ==
  ASSUME CommandInv, NEW q \in Workers, wager' = wager,
         pc'[q] = pc[q], req'[q] = req[q], seen'[q] = seen[q], out'[q] = out[q],
         reply'[q] = reply[q]
  PROVE  Knows(q)'
<1>1. Checked(q) /\ Answered(q) /\ Judged(q)
  BY DEF CommandInv
<1>2. Checked(q)'
  BY <1>1 DEF Checked, Unclaimed, Exists, Clash, SameKey, SameExt
<1>3. Answered(q)'
  BY <1>1 DEF Answered, Exists
<1>4. Judged(q)'
  BY <1>1 DEF Judged, Sound, Backed, RefKind, ReversedIn
<1>. QED  BY <1>2, <1>3, <1>4 DEF Knows

\* The table is as sound as it was when no row changes.
LEMMA StillTables ==
  ASSUME CommandInv, wager' = wager
  PROVE  RowsSound' /\ OneReversal' /\ IdentityUnique'
BY DEF CommandInv, RowsSound, Readable, Backed, OneReversal, IdentityUnique, Exists

\* No two handlers have inserted the same identity after a step of p, if p met no rival.
LEMMA RivalsKeep ==
  ASSUME CommandInv, NEW p \in Workers, Others(p), p \in Handlers => Joins(p)
  PROVE  Rivals'
<1>. SUFFICES ASSUME NEW a \in Handlers, NEW b \in Handlers, a # b, Inserted(a)', Inserted(b)'
              PROVE  ~Clash(req'[a].cmd, req'[b].cmd)
  BY DEF Rivals, Clash, SameKey, SameExt
<1>1. \A q \in Workers \ {p} : (Inserted(q)' <=> Inserted(q)) /\ req'[q] = req[q]
  BY DEF Others, Inserted
<1>2. a \in Workers /\ b \in Workers
  BY DEF Workers
<1>3. \A c, d : Clash(c, d) <=> Clash(d, c)
  BY DEF Clash, SameKey, SameExt
<1>4. Rivals
  BY DEF CommandInv
<1>5. CASE a # p /\ b # p
  BY <1>1, <1>2, <1>4, <1>5 DEF Rivals
<1>6. ASSUME NEW q \in Handlers, q # p, p \in Handlers, Inserted(q), Inserted(p)'
      PROVE  ~Clash(req[q].cmd, req'[p].cmd)
  BY <1>4, <1>6 DEF Rivals, Joins
<1>7. CASE a = p
  <2>1. ~Clash(req[b].cmd, req'[p].cmd) /\ req'[b] = req[b]
    BY <1>1, <1>2, <1>6, <1>7
  <2>. QED  BY <1>3, <1>7, <2>1
<1>8. CASE b = p
  <2>1. ~Clash(req[a].cmd, req'[p].cmd) /\ req'[a] = req[a]
    BY <1>1, <1>2, <1>6, <1>8
  <2>. QED  BY <1>8, <2>1
<1>. QED  BY <1>5, <1>7, <1>8

\* ProcessWager commits: its answer is the row it has just written.
LEMMA CommitKeeps ==
  ASSUME IndInv, CommandInv, [Next]_vars, NEW p \in Handlers, Commit(p)
  PROVE  CommandInv'
<1>. DEFINE id == seen[p].id
            o == out[p]
            a == ResultOf(id, o.row, o.wallet, FALSE)
<1>1. /\ p \in Workers /\ DbType /\ SessionType /\ Private(p) /\ Judged(p) /\ Staged(p)
  BY HandlerFacts DEF CommandInv
<1>2. pc[p] = "commit" /\ Install(p, 0) /\ Return(p, a)
  BY DEF Commit
<1>3. Others(p)
  BY <1>1, <1>2 DEF Others, Return, SessionType
<1>4. Inserted(p)
  BY <1>2 DEF Inserted
<1>5. /\ \A q \in Workers \ {p} : Knows(q)'
      /\ RowsSound' /\ OneReversal' /\ IdentityUnique'
  BY <1>1, <1>2, <1>3, <1>4, CommitKnows
<1>6. pc'[p] = "reply" /\ reply'[p] = a /\ req'[p] = req[p]
  BY <1>1, <1>2 DEF Return, SessionType
<1>7. id \in TxIds
  BY <1>1, <1>2, StagedWallet
<1>8. wager'[id] = o.row
  BY <1>1, <1>2, <1>7 DEF Install, DbType
<1>9. /\ o.row.cmd = req[p].cmd /\ o.row.status \notin {"NONE", "PENDING"}
  BY <1>1, <1>2 DEF Private, Judged, Sound, Staged
<1>10. /\ a.id = id /\ a.status = o.row.status /\ a.code = o.row.code
       /\ Terminal(o.row.status) => a.balance = o.row.balance /\ a.version = o.row.version
  BY DEF ResultOf
<1>. HIDE DEF a, id, o
<1>11. Answered(p)'
  BY <1>6, <1>7, <1>8, <1>9, <1>10 DEF Answered, Exists, Present
<1>12. Checked(p)' /\ Judged(p)'
  BY <1>6 DEF Checked, Judged, HandlerStates
<1>13. Joins(p)
  BY <1>6 DEF Joins, Inserted
<1>14. Rivals'
  BY <1>1, <1>3, <1>13, RivalsKeep
<1>. QED  BY <1>5, <1>11, <1>12, <1>14 DEF CommandInv, Knows

\* RetryReference commits.
LEMMA RetryKeeps ==
  ASSUME IndInv, CommandInv, [Next]_vars, NEW r \in Resolvers, RetryCommit(r)
  PROVE  CommandInv'
<1>1. r \in Workers /\ r \notin Handlers /\ SessionType /\ Claimed(r)
  BY ResolverFacts
<1>2. pc[r] = "rcommit" /\ Install(r, poll[seen[r].id].attempts + 1)
  BY DEF RetryCommit
<1>3. Others(r) /\ pc'[r] = "idle"
  BY <1>1 DEF RetryCommit, Others, SessionType
<1>4. Exists(seen[r].id)
  BY <1>1, <1>2 DEF Claimed, ResolverStates
<1>5. /\ \A q \in Workers \ {r} : Knows(q)'
      /\ RowsSound' /\ OneReversal' /\ IdentityUnique'
  BY <1>1, <1>2, <1>3, <1>4, CommitKnows
<1>6. Knows(r)'
  BY <1>1, <1>3, RestKnows
<1>7. Rivals'
  BY <1>1, <1>3, RivalsKeep
<1>. QED  BY <1>5, <1>6, <1>7 DEF CommandInv, Knows

\* A new wallet: its OPENING wager has the identity of no command.
LEMMA CreateKeeps ==
  ASSUME IndInv, CommandInv, [Next]_vars, NEW w \in Wallets, CreateWallet(w)
  PROVE  CommandInv'
<1>1. UNCHANGED <<pc, req, seen, snap, out, reply>>
  BY DEF CreateWallet, session
<1>2. Rivals'
  BY <1>1 DEF CommandInv, Rivals, Inserted, Clash, SameKey, SameExt
<1>3. CASE Accounts[w].initial > 0
  <2>. DEFINE id == FreshId
              row == Opening(id, w).row
  <2>1. id \in TxIds /\ Free(id)
    BY <1>3, FreshIdType DEF CreateWallet
  <2>2. wager' = [wager EXCEPT ![id] = row] /\ ~Exists(id)
    BY <1>3, <2>1 DEF CreateWallet, Free
  <2>. HIDE DEF id
  <2>3. /\ row \in Row
        /\ ValidWager(row) /\ row.status = "PROCESSED" /\ row.refId = 0
        /\ row.cmd.kind = "OPENING" /\ row.cmd.provider = ""
    BY <1>3, <2>1, OpeningReadable
  <2>. HIDE DEF row
  <2>4. /\ row.status # "NONE" /\ Readable(row) /\ row.refId \in TxIds \cup {0}
        /\ row.cmd.kind \notin Reversals /\ row.cmd.kind \notin ExternalKinds
    BY <2>3 DEF Readable, Backed, Reversals, ExternalKinds
  <2>5. RowsSound' /\ OneReversal' /\ IdentityUnique'
    BY <2>1, <2>2, <2>4, WriteTables
  <2>6. ASSUME NEW q \in Workers  PROVE  Knows(q)'
    <3>1. Inserted(q) => ~Clash(row.cmd, req[q].cmd)
      <4>1. Inserted(q) => NormalizeCommand(req[q].cmd) = ""
        BY DEF CommandInv, Checked, Inserted, HandlerStates
      <4>2. Inserted(q) => req[q].cmd.provider # ""
        BY <4>1, NormalFacts
      <4>. QED  BY <2>3, <4>2 DEF Clash, SameKey, SameExt
    <3>2. ~ProcessedReversal(row, out[q].row.refId)
      BY <2>4 DEF ProcessedReversal
    <3>. QED  BY <1>1, <2>1, <2>2, <2>4, <3>1, <3>2, WriteKnows
  <2>. QED  BY <1>2, <2>5, <2>6 DEF CommandInv, Knows
<1>4. CASE ~(Accounts[w].initial > 0)
  <2>1. wager' = wager
    BY <1>4 DEF CreateWallet
  <2>2. \A q \in Workers : Knows(q)'
    BY <1>1, <2>1, StillKnows
  <2>. QED  BY <1>2, <2>1, <2>2, StillTables DEF CommandInv, Knows
<1>. QED  BY <1>3, <1>4

\* A turn of one session that writes no row.
LEMMA TurnKeeps ==
  ASSUME IndInv, CommandInv, NEW p \in Workers, wager' = wager, Others(p), Knows(p)',
         p \in Handlers => Joins(p)
  PROVE  CommandInv'
<1>1. ASSUME NEW q \in Workers  PROVE  Knows(q)'
  <2>1. CASE q = p
    BY <2>1
  <2>2. CASE q # p
    <3>1. /\ pc'[q] = pc[q] /\ req'[q] = req[q] /\ seen'[q] = seen[q] /\ out'[q] = out[q]
          /\ reply'[q] = reply[q]
      BY <2>2 DEF Others
    <3>. QED  BY <3>1, StillKnows
  <2>. QED  BY <2>1, <2>2
<1>2. Rivals'
  BY RivalsKeep
<1>. QED  BY <1>1, <1>2, StillTables DEF CommandInv, Knows

\* The inductive step.
LEMMA CommandStep == IndInv /\ CommandInv /\ [Next]_vars => CommandInv'
<1>. SUFFICES ASSUME IndInv, CommandInv, [Next]_vars  PROVE  CommandInv'
  OBVIOUS
<1>1. CASE \E w \in Wallets : CreateWallet(w)
  BY <1>1, CreateKeeps
<1>2. ASSUME NEW p \in Handlers, Commit(p) \/ HandlerTurn(p)  PROVE  CommandInv'
  <2>1. CASE Commit(p)
    BY <2>1, CommitKeeps
  <2>2. CASE HandlerTurn(p)
    <3>1. p \in Workers /\ wager' = wager /\ Others(p)
      BY <2>2, HandlerFrame DEF tables, Workers
    <3>2. Knows(p)' /\ Joins(p)
      BY <2>2, HandlerTurnKnows
    <3>. QED  BY <3>1, <3>2, TurnKeeps
  <2>. QED  BY <1>2, <2>1, <2>2
<1>3. ASSUME NEW r \in Resolvers, RetryCommit(r) \/ ResolverTurn(r)  PROVE  CommandInv'
  <2>1. CASE RetryCommit(r)
    BY <2>1, RetryKeeps
  <2>2. CASE ResolverTurn(r)
    <3>1. r \in Workers /\ r \notin Handlers /\ wager' = wager /\ Others(r)
      BY <2>2, ResolverFrame, ResolverFacts DEF tables
    <3>2. Knows(r)'
      BY <2>2, ResolverTurnKnows
    <3>. QED  BY <3>1, <3>2, TurnKeeps
  <2>. QED  BY <1>3, <2>1, <2>2
<1>4. CASE UNCHANGED <<tables, inbox, lock, session>>
  <2>1. UNCHANGED <<wager, pc, req, seen, out, reply>>
    BY <1>4 DEF tables, session
  <2>2. \A q \in Workers : Knows(q)'
    BY <2>1, StillKnows
  <2>3. Rivals'
    BY <2>1 DEF CommandInv, Rivals, Inserted, Clash, SameKey, SameExt
  <2>. QED  BY <2>1, <2>2, <2>3, StillTables DEF CommandInv, Knows
<1>. QED  BY <1>1, <1>2, <1>3, <1>4, NextForms

(***************************************************************************)
(* The theorems.                                                           *)
(***************************************************************************)
\* The invariant of the commands holds in every reachable state: what every session has
\* learnt, answers and stages, and that the committed rows are readable, backed by the
\* rows they refer to, reversed once and identified once.
THEOREM CommandsCorrect == Spec => []CommandInv
BY CommandInit, CommandStep, Inductive, PTL DEF Spec

\* However often a command is delivered, on whichever replica and over whichever
\* transport, InsertWager gives it at most one row.
THEOREM IdentityCorrect == Spec => []IdentityUnique
<1>1. CommandInv => IdentityUnique
  BY DEF CommandInv
<1>. QED  BY <1>1, CommandsCorrect, PTL

\* No bet, win or refund is given back twice, by whatever mix of refunds and rollbacks.
THEOREM ReversedOnce == Spec => []OneReversal
<1>1. CommandInv => OneReversal
  BY DEF CommandInv
<1>. QED  BY <1>1, CommandsCorrect, PTL

\* The row that an INSERT ran into is there for the second findIdentity.
THEOREM ConflictCorrect == Spec => []ConflictIsVisible
<1>1. CommandInv => ConflictIsVisible
  <2>. SUFFICES ASSUME CommandInv, NEW p \in Handlers, pc[p] = "refind"
                PROVE  ByKey(wager, req[p].cmd) \cup ByExt(wager, req[p].cmd) # {}
    BY DEF ConflictIsVisible
  <2>1. ~Unclaimed(req[p].cmd)
    BY DEF CommandInv, Checked, Workers
  <2>. QED  BY <2>1, UnclaimedHits
<1>. QED  BY <1>1, CommandsCorrect, PTL

\* An answer of ProcessWager is about the caller's own command, and a terminal one is the
\* result that the wager froze.
THEOREM AnswersCorrect == Spec => []AnswersAreTrue
<1>1. CommandInv => AnswersAreTrue
  <2>. SUFFICES ASSUME CommandInv, NEW p \in Handlers, pc[p] = "reply", reply[p].error = ""
                PROVE  LET a == reply[p]
                           row == wager[a.id]
                       IN /\ row.cmd = req[p].cmd
                          /\ a.status # "PENDING"
                          /\ Terminal(a.status) =>
                               /\ <<a.status, a.balance, a.version>> =
                                    <<row.status, row.balance, row.version>>
                               /\ a.code = row.code
    BY DEF AnswersAreTrue
  <2>1. Answered(p)
    BY DEF CommandInv, Workers
  <2>. QED  BY <2>1 DEF Answered
<1>. QED  BY <1>1, CommandsCorrect, PTL

\* scanWager can rehydrate every row that the code commits, and every row that it is
\* about to commit passes validateWager.
THEOREM ReadableCorrect == Spec => []RowsReadable
<1>1. CommandInv => RowsReadable
  BY DEF CommandInv, RowsSound, Readable, Judged, Sound, RowsReadable
<1>. QED  BY <1>1, CommandsCorrect, PTL

\* What the guard on the ledger computes from a processed row is what Evaluate decided.
LEMMA GuardAgrees ==
  ASSUME NEW kind, NEW refKind, NEW refStatus,
         kind = "ROLLBACK" => refStatus = "PROCESSED" /\ MayRefer(kind, refKind),
         kind \in ExternalKinds
  PROVE  GuardDirection(kind, refKind, refStatus) = DirectionOf(kind, refKind)
BY DEF GuardDirection, DirectionOf, MayRefer, ExternalKinds

\* A sound outcome passes every guard of the schema.
LEMMA GuardStep ==
  ASSUME IndInv, CommandInv, NEW p \in Workers, pc[p] \in {"commit", "rcommit"}
  PROVE  GuardAccepts(p)
<1>. DEFINE id  == seen[p].id
            row == out[p].row
            ref == IF row.refId = 0 THEN NoRow ELSE wager[row.refId]
<1>1. SessionType /\ Sound(id, out[p]) /\ row \in Row /\ out[p].wallet.balance \in Minor
  <2>1. SessionType /\ Judged(p)
    BY TypeParts DEF IndInv, CommandInv
  <2>. QED  BY <2>1, SessionFacts DEF Judged, Balance
<1>2. ~Terminal(wager[id].status)
  BY StagedWallet
<1>3. ref.cmd.kind = RefKind(row)
  BY DEF RefKind, NoRow, NewRow, NoCommand
<1>4. /\ row.status \notin {"NONE", "PENDING"} /\ row.refId # id
      /\ row.status # "PROCESSED" => out[p].dir = "NONE"
      /\ row.status = "PROCESSED" =>
           /\ row.balance = out[p].wallet.balance
           /\ out[p].dir = DirectionOf(row.cmd.kind, RefKind(row))
  BY <1>1 DEF Sound
<1>5. ASSUME row.status = "PROCESSED"
      PROVE  out[p].dir = GuardDirection(row.cmd.kind, ref.cmd.kind, ref.status)
  <2>1. row.cmd.kind \in ExternalKinds
    <3>1. SessionType /\ Placed(p) /\ Private(p) /\ Waiting(p) /\ Staged(p) /\ Checked(p)
          /\ RowsSound
      BY TypeParts DEF IndInv, Local, CommandInv
    <3>2. row.cmd = seen[p].row.cmd
      BY <3>1 DEF Staged
    <3>3. NormalizeCommand(row.cmd) = ""
      <4>1. CASE pc[p] = "commit"
        BY <3>1, <3>2, <4>1 DEF Private, Checked, HandlerStates
      <4>2. CASE pc[p] = "rcommit"
        <5>1. id \in TxIds /\ wager[id] = seen[p].row /\ wager[id].status = "PENDING_REFERENCE"
          BY <3>1, <4>2, StagedWallet DEF Waiting
        <5>. QED  BY <3>1, <3>2, <5>1, WaitingUndecided DEF Undecided
      <4>. QED  BY <4>1, <4>2
    <3>. HIDE DEF row
    <3>. QED  BY <3>3, NormalFacts
  <2>2. row.cmd.kind = "ROLLBACK" =>
          ref.status = "PROCESSED" /\ MayRefer(row.cmd.kind, ref.cmd.kind)
    BY <1>1, <1>5 DEF Sound, Backed, Reversals
  <2>. HIDE DEF ref, row
  <2>3. GuardDirection(row.cmd.kind, ref.cmd.kind, ref.status) =
          DirectionOf(row.cmd.kind, ref.cmd.kind)
    BY <2>1, <2>2, GuardAgrees
  <2>. QED  BY <1>3, <1>4, <1>5, <2>3
<1>6. row.status = "PROCESSED" /\ row.cmd.kind \in Reversals =>
        ~\E t \in TxIds \ {id} : ProcessedReversal(wager[t], row.refId)
  BY <1>1 DEF Sound, ReversedIn
<1>. QED  BY <1>1, <1>2, <1>4, <1>5, <1>6 DEF GuardAccepts

\* No command is lost to a trigger, a unique index or a CHECK of the schema: whatever
\* Evaluate lets through, the guards written in SQL accept.
THEOREM GuardsCorrect == Spec => []GuardsSilent
<1>1. IndInv /\ CommandInv => GuardsSilent
  BY GuardStep DEF GuardsSilent
<1>. QED  BY <1>1, Inductive, CommandsCorrect, PTL
=============================================================================

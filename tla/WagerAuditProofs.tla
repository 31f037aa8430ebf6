-------------------------- MODULE WagerAuditProofs --------------------------
(***************************************************************************)
(* Proofs about what WagerStore promises as a whole: that it implements    *)
(* the serial machine of WagerLedger, and that every committed state       *)
(* passes the checks of the auditor.                                       *)
(***************************************************************************)
EXTENDS WagerCommandProofs, WagerAudit

(***************************************************************************)
(* The serial machine decides with the same operators.  Serial!F and F are *)
(* two instances of one definition; the lemmas say so, bottom up.          *)
(***************************************************************************)
\* The absent values.
LEMMA SameValues ==
  /\ Serial!Wallets = Wallets /\ Serial!Messages = Messages /\ Serial!NoBalance = NoBalance
  /\ Serial!NoCommand = NoCommand /\ Serial!NoRow = NoRow /\ Serial!NoSeen = NoSeen
  /\ Serial!NoInbox = NoInbox
<1>1. Serial!Wallets = Wallets /\ Serial!Messages = Messages /\ Serial!NoBalance = NoBalance
  BY DEF Serial!Wallets, Wallets, Serial!Messages, Messages, Serial!NoBalance, NoBalance
<1>2. Serial!NoCommand = NoCommand
  BY <1>1 DEF Serial!NoCommand, NoCommand
<1>3. Serial!NoRow = NoRow
  BY <1>2 DEF Serial!NoRow, NoRow, Serial!NewRow, NewRow
<1>4. Serial!NoSeen = NoSeen
  BY <1>3 DEF Serial!NoSeen, NoSeen
<1>5. Serial!NoInbox = NoInbox
  BY <1>2 DEF Serial!NoInbox, NoInbox, InboxHash, NoRequest
<1>. QED  BY <1>1, <1>2, <1>3, <1>4, <1>5

\* The checks on a command.
LEMMA SameChecks ==
  /\ \A c : Serial!NormalizeCommand(c) = NormalizeCommand(c)
  /\ \A c : Serial!AcceptsReference(c) <=> AcceptsReference(c)
  /\ \A c : Serial!AmountFitsKind(c) <=> AmountFitsKind(c)
  /\ \A c, s : Serial!NewRow(c, s) = NewRow(c, s)
  /\ \A r : Serial!InboxHash(r) = InboxHash(r)
BY DEF Serial!NormalizeCommand, NormalizeCommand, Serial!AcceptsReference, AcceptsReference,
       Serial!AmountFitsKind, AmountFitsKind, Serial!ExternalKinds, ExternalKinds,
       Serial!Reversals, Reversals, Serial!NewRow, NewRow, Serial!InboxHash, InboxHash

\* The forms of a decision.
LEMMA SameForms ==
  /\ \A code : Serial!Rejection(code) = Rejection(code)
  /\ \A d : Serial!Move(d) = Move(d)
  /\ Serial!Wait = Wait /\ Serial!Reversals = Reversals
BY DEF Serial!Rejection, Rejection, Serial!Move, Move, Serial!Wait, Wait,
       Serial!Reversals, Reversals

\* JudgeReference.
LEMMA SameReference ==
  \A id, c, ref, reversed :
    Serial!JudgeReference(id, c, ref, reversed) = JudgeReference(id, c, ref, reversed)
BY SameForms DEF Serial!JudgeReference, JudgeReference, Serial!SameBusiness, SameBusiness,
                 Serial!MayRefer, MayRefer

\* JudgeFunds.
LEMMA SameFunds ==
  /\ \A b, c, d : Serial!JudgeFunds(b, c, d) = JudgeFunds(b, c, d)
  /\ \A k, rk : Serial!DirectionOf(k, rk) = DirectionOf(k, rk)
BY SameForms DEF Serial!JudgeFunds, JudgeFunds, Serial!AddOverflows, AddOverflows,
                 Serial!DirectionOf, DirectionOf

\* Evaluate.
LEMMA SameEvaluate ==
  \A acct, id, c, ref, reversed :
    Serial!Evaluate(acct, id, c, ref, reversed) = Evaluate(acct, id, c, ref, reversed)
<1>. TAKE acct, id, c, ref, reversed
<1>. DEFINE d == DirectionOf(c.kind, ref.row.cmd.kind)
<1>1. Serial!JudgeReference(id, c, ref, reversed) = JudgeReference(id, c, ref, reversed)
  BY SameReference
<1>2. Serial!JudgeFunds(acct.balance, c, Serial!DirectionOf(c.kind, ref.row.cmd.kind)) =
        JudgeFunds(acct.balance, c, d)
  BY SameFunds
<1>3. Serial!AmountFitsKind(c) <=> AmountFitsKind(c)
  BY SameChecks
<1>4. /\ Serial!Rejection("CURRENCY_MISMATCH") = Rejection("CURRENCY_MISMATCH")
      /\ Serial!Rejection("INVALID_AMOUNT_FOR_KIND") = Rejection("INVALID_AMOUNT_FOR_KIND")
      /\ Serial!Move("NONE") = Move("NONE")
  BY DEF Serial!Rejection, Rejection, Serial!Move, Move
<1>. QED  BY <1>1, <1>2, <1>3, <1>4 DEF Serial!Evaluate, Evaluate

\* The rows, wallets, entries and events that a decision writes.
LEMMA SameWrites ==
  /\ \A row, s, code, w, t : Serial!Freeze(row, s, code, w, t) = Freeze(row, s, code, w, t)
  /\ \A w, n, d : Serial!MoveWallet(w, n, d) = MoveWallet(w, n, d)
  /\ \A id, row, w, d : Serial!WriteEvents(id, row, w, d) = WriteEvents(id, row, w, d)
  /\ \A id, o, w : Serial!LedgerEntry(id, o, w) = LedgerEntry(id, o, w)
BY DEF Serial!Freeze, Freeze, Serial!MoveWallet, MoveWallet, Serial!WriteEvents, WriteEvents,
       Serial!LedgerEntry, LedgerEntry

\* PendingReference, Reject or Process.
LEMMA SameDecided ==
  \A row, d, w, moved, t : Serial!Decided(row, d, w, moved, t) = Decided(row, d, w, moved, t)
BY SameWrites DEF Serial!Decided, Decided

\* The outcomes.
LEMMA SameOutcome ==
  /\ \A id, row, w, ref, reversed, expired :
       Serial!Outcome(id, row, w, ref, reversed, expired) =
         Outcome(id, row, w, ref, reversed, expired)
  /\ \A id, row, w : Serial!Failure(id, row, w) = Failure(id, row, w)
  /\ \A id, w : Serial!Opening(id, w) = Opening(id, w)
<1>1. \A id, row, w, ref, reversed, expired :
        Serial!Outcome(id, row, w, ref, reversed, expired) =
          Outcome(id, row, w, ref, reversed, expired)
  BY SameForms, SameEvaluate, SameWrites, SameDecided DEF Serial!Outcome, Outcome
<1>2. \A id, row, w : Serial!Failure(id, row, w) = Failure(id, row, w)
  BY SameWrites DEF Serial!Failure, Failure
<1>3. \A id, w : Serial!Opening(id, w) = Opening(id, w)
  BY SameWrites, SameValues, SameChecks
  DEF Serial!Opening, Opening, Serial!OpeningCommand, OpeningCommand
<1>. QED  BY <1>1, <1>2, <1>3

\* The queries on the wager table.
LEMMA SameQueries ==
  /\ \A rows, c : Serial!ByKey(rows, c) = ByKey(rows, c)
  /\ \A rows, c : Serial!ByExt(rows, c) = ByExt(rows, c)
  /\ \A rows, c : Serial!ReferenceIn(rows, c) = ReferenceIn(rows, c)
  /\ \A rows, t : Serial!ReversedIn(rows, t) <=> ReversedIn(rows, t)
<1>1. \A rows : Serial!Present(rows) = Present(rows)
  BY DEF Serial!Present, Present
<1>2. /\ \A rows, c : Serial!ByKey(rows, c) = ByKey(rows, c)
      /\ \A rows, c : Serial!ByExt(rows, c) = ByExt(rows, c)
  BY <1>1 DEF Serial!ByKey, ByKey, Serial!ByExt, ByExt, Serial!SameKey, SameKey,
              Serial!SameExt, SameExt
<1>3. \A rows, c : Serial!ReferenceIn(rows, c) = ReferenceIn(rows, c)
  BY <1>2, SameValues DEF Serial!ReferenceIn, ReferenceIn
<1>4. \A rows, t : Serial!ReversedIn(rows, t) <=> ReversedIn(rows, t)
  BY SameForms DEF Serial!ReversedIn, ReversedIn, Serial!ProcessedReversal, ProcessedReversal
<1>. QED  BY <1>2, <1>3, <1>4

(***************************************************************************)
(* What a decision does not depend on.                                     *)
(***************************************************************************)
\* Without a reference, nobody asks whether it is reversed.
LEMMA OutcomeWithout ==
  ASSUME NEW id, NEW row, NEW w, NEW a, NEW b, NEW expired
  PROVE  Outcome(id, row, w, NoSeen, a, expired) = Outcome(id, row, w, NoSeen, b, expired)
<1>1. NoSeen.id = 0
  BY DEF NoSeen
<1>2. JudgeReference(id, row.cmd, NoSeen, a) = JudgeReference(id, row.cmd, NoSeen, b)
  BY <1>1 DEF JudgeReference
<1>3. ASSUME NEW acct
      PROVE  Evaluate(acct, id, row.cmd, NoSeen, a) = Evaluate(acct, id, row.cmd, NoSeen, b)
  BY <1>2 DEF Evaluate
<1>. QED  BY <1>3 DEF Outcome

Foreign(row, f) ==
  row.cmd.ref # "" /\ f.id # 0 /\ f.row.cmd.wallet # row.cmd.wallet

\* A reference of another wallet refuses the command, whatever has become of it.
LEMMA OutcomeForeign ==
  ASSUME NEW id, NEW row, NEW w, NEW f, NEW g, NEW a, NEW b, NEW expired,
         Foreign(row, f), Foreign(row, g)
  PROVE  Outcome(id, row, w, f, a, expired) = Outcome(id, row, w, g, b, expired)
<1>. DEFINE c == row.cmd
            acct == [currency |-> Accounts[c.wallet].currency, balance |-> w.balance]
            refused == Rejection("REFERENCE_MISMATCH")
            d == IF c.currency # acct.currency THEN Rejection("CURRENCY_MISMATCH")
                 ELSE IF ~AmountFitsKind(c) THEN Rejection("INVALID_AMOUNT_FOR_KIND")
                 ELSE refused
            moved == MoveWallet(w, c.amount, "NONE")
            next == Freeze(row, "REJECTED", d.code, w, 0)
<1>1. ASSUME NEW ref, NEW reversed, Foreign(row, ref)
      PROVE  Outcome(id, row, w, ref, reversed, expired) =
               [row |-> next, wallet |-> moved, dir |-> "NONE",
                events |-> IF next.status = "PENDING_REFERENCE" /\ row.status = next.status
                             THEN <<>> ELSE WriteEvents(id, next, moved, "NONE")]
  <2>1. JudgeReference(id, c, ref, reversed) = refused
    BY <1>1 DEF Foreign, JudgeReference, SameBusiness
  <2>2. refused # Move("NONE")
    BY DEF Rejection, Move
  <2>3. Evaluate(acct, id, c, ref, reversed) = d
    <3>. HIDE DEF acct, refused
    <3>. QED  BY <1>1, <2>1, <2>2 DEF Foreign, Evaluate
  <2>4. d.pending = FALSE /\ d.dir = "NONE" /\ d.code # ""
    BY Zenon DEF Rejection
  <2>. HIDE DEF d, acct
  <2>5. Decided(row, d, w, moved, ref.id) = next
    BY <2>4 DEF Decided
  <2>. HIDE DEF next
  <2>. QED  BY <2>3, <2>4, <2>5 DEF Outcome, acct
<1>. HIDE DEF next, moved
<1>. QED  BY <1>1

\* How the reference of command c follows when row id is written.
Follows(rows, next, c, id) ==
  LET old == ReferenceIn(rows, c)
      new == ReferenceIn(next, c)
  IN \/ old = NoSeen /\ new = NoSeen
     \/ old = NoSeen /\ new = [id |-> id, row |-> next[id]]
     \/ \E t \in TxIds : /\ c.ref # "" /\ rows[t].status # "NONE"
                         /\ old = [id |-> t, row |-> rows[t]]
                         /\ new = [id |-> t, row |-> next[t]]

\* A row is written whose wallet is not that of command c.  The reference of c stays the
\* row it was, or there was none and the written row is it.
LEMMA ReferenceKeeps ==
  ASSUME NEW rows, NEW next, NEW c \in Command, NEW id \in TxIds,
         \A t \in TxIds \ {id} : next[t] = rows[t],
         next[id].status # "NONE",
         rows[id].status # "NONE" => rows[id].cmd = next[id].cmd,
         rows[id].status = "NONE" /\ SameExt(next[id].cmd, [c EXCEPT !.ext = c.ref]) =>
           ByExt(rows, [c EXCEPT !.ext = c.ref]) = {}
  PROVE  Follows(rows, next, c, id)
<1>. DEFINE probe == [c EXCEPT !.ext = c.ref]
            old == ReferenceIn(rows, c)
            new == ReferenceIn(next, c)
            hits == ByExt(rows, probe)
            hits2 == ByExt(next, probe)
<1>1. hits \subseteq TxIds /\ hits2 \subseteq TxIds
  BY DEF ByExt, Present
<1>2. hits2 = hits \/ (hits = {} /\ hits2 = {id})
  <2>. HIDE DEF probe
  <2>1. \A t \in TxIds \ {id} : t \in hits <=> t \in hits2
    BY DEF ByExt, Present
  <2>2. CASE rows[id].status # "NONE"
    <3>1. id \in hits <=> id \in hits2
      BY <2>2 DEF ByExt, Present
    <3>. HIDE DEF hits, hits2
    <3>. QED  BY <1>1, <2>1, <3>1
  <2>3. CASE rows[id].status = "NONE" /\ ~SameExt(next[id].cmd, probe)
    <3>1. id \notin hits /\ id \notin hits2
      BY <2>3 DEF ByExt, Present
    <3>. HIDE DEF hits, hits2
    <3>. QED  BY <1>1, <2>1, <3>1
  <2>4. CASE rows[id].status = "NONE" /\ SameExt(next[id].cmd, probe)
    <3>1. hits = {} /\ id \in hits2
      BY <2>4 DEF ByExt, Present, probe
    <3>. HIDE DEF hits, hits2
    <3>. QED  BY <1>1, <2>1, <3>1
  <2>. QED  BY <2>2, <2>3, <2>4
<1>3. /\ old = IF c.ref = "" \/ hits = {} THEN NoSeen
               ELSE LET t == CHOOSE t \in hits : TRUE IN [id |-> t, row |-> rows[t]]
      /\ new = IF c.ref = "" \/ hits2 = {} THEN NoSeen
               ELSE LET t == CHOOSE t \in hits2 : TRUE IN [id |-> t, row |-> next[t]]
  BY DEF ReferenceIn
<1>. HIDE DEF old, new, hits, hits2
<1>4. CASE c.ref = "" \/ hits2 = {}
  <2>1. old = NoSeen /\ new = NoSeen
    BY <1>2, <1>3, <1>4
  <2>. QED  BY <2>1 DEF Follows, old, new
<1>5. CASE c.ref # "" /\ hits2 # {} /\ hits2 = hits
  <2>. DEFINE t == CHOOSE t \in hits : TRUE
  <2>1. t \in TxIds /\ rows[t].status # "NONE"
    <3>1. t \in hits
      BY <1>5
    <3>. QED  BY <1>1, <3>1 DEF hits, ByExt, Present
  <2>. HIDE DEF t
  <2>2. old = [id |-> t, row |-> rows[t]] /\ new = [id |-> t, row |-> next[t]]
    BY <1>3, <1>5 DEF t
  <2>. QED  BY <1>5, <2>1, <2>2 DEF old, new, Follows
<1>6. CASE c.ref # "" /\ hits = {} /\ hits2 = {id}
  <2>1. (CHOOSE t \in hits2 : TRUE) = id
    BY <1>6
  <2>2. old = NoSeen /\ new = [id |-> id, row |-> next[id]]
    BY <1>3, <1>6, <2>1
  <2>. QED  BY <2>2 DEF old, new, Follows
<1>. QED  BY <1>2, <1>4, <1>5, <1>6

\* From table `rows' to table `next', a row of a wallet other than that of `row' is written,
\* under an identity that no row had, and it reverses nothing of the wallet of `row'.
Elsewhere(rows, next, row, id) ==
  LET probe == [row.cmd EXCEPT !.ext = row.cmd.ref] IN
  /\ \A t \in TxIds \ {id} : next[t] = rows[t]
  /\ next[id].status # "NONE" /\ next[id].cmd.wallet # row.cmd.wallet
  /\ rows[id].status # "NONE" => rows[id].cmd = next[id].cmd
  /\ rows[id].status = "NONE" /\ SameExt(next[id].cmd, probe) => ByExt(rows, probe) = {}
  /\ \A t \in TxIds : rows[t].cmd.wallet = row.cmd.wallet =>
       ReversedIn(next, t) = ReversedIn(rows, t)

\* Whatever is decided for `row' in table `rows' can be decided in table `next'.
Repeats(rows, next, row) ==
  \A x, w, expired : \A ref \in Serial!References(rows, row.cmd) :
    \E new \in Serial!References(next, row.cmd) :
      Outcome(x, row, w, ref, ReversedIn(rows, ref.id), expired) =
        Outcome(x, row, w, new, ReversedIn(next, new.id), expired)

\* What is written elsewhere does not disturb a decision.
LEMMA OutcomeKeeps ==
  ASSUME NEW rows, NEW next, NEW row \in Row, NEW id \in TxIds,
         Elsewhere(rows, next, row, id)
  PROVE  Repeats(rows, next, row)
<1>. SUFFICES ASSUME NEW x, NEW w, NEW expired, NEW ref \in Serial!References(rows, row.cmd)
              PROVE  \E new \in Serial!References(next, row.cmd) :
                       Outcome(x, row, w, ref, ReversedIn(rows, ref.id), expired) =
                         Outcome(x, row, w, new, ReversedIn(next, new.id), expired)
  BY DEF Repeats
<1>. DEFINE c == row.cmd
            old == ReferenceIn(rows, c)
            now == ReferenceIn(next, c)
<1>0. /\ \A t \in TxIds \ {id} : next[t] = rows[t]
      /\ next[id].status # "NONE" /\ next[id].cmd.wallet # row.cmd.wallet
      /\ rows[id].status # "NONE" => rows[id].cmd = next[id].cmd
      /\ \A t \in TxIds : rows[t].cmd.wallet = row.cmd.wallet =>
           ReversedIn(next, t) = ReversedIn(rows, t)
  BY DEF Elsewhere
<1>1. /\ Serial!References(rows, c) =
           IF old.row.cmd.wallet # c.wallet THEN {old, NoSeen} ELSE {old}
      /\ Serial!References(next, c) =
           IF now.row.cmd.wallet # c.wallet THEN {now, NoSeen} ELSE {now}
  BY SameQueries, SameValues DEF Serial!References
<1>2. c \in Command
  BY DEF Row
<1>3. \/ old = NoSeen /\ now = NoSeen
      \/ old = NoSeen /\ now = [id |-> id, row |-> next[id]]
      \/ \E t \in TxIds : /\ c.ref # "" /\ rows[t].status # "NONE"
                          /\ old = [id |-> t, row |-> rows[t]]
                          /\ now = [id |-> t, row |-> next[t]]
  <2>1. Follows(rows, next, c, id)
    BY <1>2, ReferenceKeeps DEF Elsewhere
  <2>. QED  BY <2>1 DEF Follows
<1>. HIDE DEF old, now
<1>4. /\ now \in Serial!References(next, c)
      /\ now.row.cmd.wallet # c.wallet => NoSeen \in Serial!References(next, c)
      /\ ref = old \/ (ref = NoSeen /\ old.row.cmd.wallet # c.wallet)
  BY <1>1
<1>5. CASE now = NoSeen /\ old = NoSeen
  BY <1>4, <1>5, OutcomeWithout
<1>6. CASE old = NoSeen /\ now = [id |-> id, row |-> next[id]]
  <2>1. now.row.cmd.wallet # c.wallet
    BY <1>0, <1>6
  <2>. QED  BY <1>4, <1>6, <2>1, OutcomeWithout
<1>7. ASSUME NEW t \in TxIds, c.ref # "", rows[t].status # "NONE",
             old = [id |-> t, row |-> rows[t]], now = [id |-> t, row |-> next[t]]
      PROVE  \E new \in Serial!References(next, row.cmd) :
               Outcome(x, row, w, ref, ReversedIn(rows, ref.id), expired) =
                 Outcome(x, row, w, new, ReversedIn(next, new.id), expired)
  <2>1. /\ old.id = t /\ old.row = rows[t] /\ now.id = t /\ now.row = next[t]
        /\ t # 0 /\ rows[t].cmd = next[t].cmd
    BY <1>0, <1>7, TxIdsAssumption
  <2>2. CASE ref = NoSeen /\ rows[t].cmd.wallet # c.wallet
    <3>1. NoSeen \in Serial!References(next, c)
      BY <1>4, <2>1, <2>2
    <3>. QED  BY <2>2, <3>1, OutcomeWithout
  <2>3. CASE ref = old /\ rows[t].cmd.wallet # c.wallet
    <3>. DEFINE a == ReversedIn(rows, t)
                b == ReversedIn(next, t)
    <3>. HIDE DEF a, b
    <3>1. Outcome(x, row, w, old, a, expired) = Outcome(x, row, w, now, b, expired)
      <4>1. Foreign(row, old) /\ Foreign(row, now)
        BY <1>7, <2>1, <2>3 DEF Foreign
      <4>. QED  BY <4>1, OutcomeForeign
    <3>. QED  BY <1>4, <2>1, <2>3, <3>1 DEF a, b
  <2>4. CASE ref = old /\ rows[t].cmd.wallet = c.wallet
    <3>1. ReversedIn(next, t) = ReversedIn(rows, t)
      BY <1>0, <2>4
    <3>2. t # id
      BY <1>0, <1>7, <2>1, <2>4
    <3>3. now = old
      BY <1>0, <1>7, <3>2
    <3>. QED  BY <1>4, <2>1, <2>4, <3>1, <3>3
  <2>5. ref = old \/ (ref = NoSeen /\ rows[t].cmd.wallet # c.wallet)
    BY <1>4, <2>1
  <2>. QED  BY <2>2, <2>3, <2>4, <2>5
<1>. QED  BY <1>3, <1>5, <1>6, <1>7

(***************************************************************************)
(* The invariant of the refinement: what a session is about to commit is   *)
(* what the serial machine would decide in the present state, although it  *)
(* was decided in an earlier one.                                          *)
(***************************************************************************)
Stands(p, expired) ==
  \E ref \in Serial!References(View(p), seen[p].row.cmd) :
    out[p] = Outcome(seen[p].id, seen[p].row, snap[p], ref, ReversedIn(View(p), ref.id),
                     expired)

\* The effects of an attempt were rolled back to the savepoint.
Undone(p) ==
  out[p] = [row |-> seen[p].row, wallet |-> snap[p], dir |-> "NONE", events |-> <<>>]

Timely(p) ==
  /\ pc[p] = "commit" => Stands(p, FALSE)
  /\ pc[p] = "rcommit" =>
       \/ \E expired \in BOOLEAN : Stands(p, expired)
       \/ out[p] = Failure(seen[p].id, seen[p].row, snap[p])
       \/ Undone(p)

SerialInv == \A p \in Workers : Timely(p)

\* A staged command passed NormalizeCommand.
LEMMA StagedNormal ==
  ASSUME IndInv, CommandInv, NEW p \in Workers, pc[p] \in {"commit", "rcommit"}
  PROVE  /\ seen[p].row \in Row /\ seen[p].row.cmd.wallet = WalletOf(p)
         /\ seen[p].row.cmd.provider # ""
<1>1. SessionType /\ Private(p) /\ Waiting(p) /\ Staged(p) /\ Checked(p) /\ RowsSound
  BY TypeParts DEF IndInv, Local, CommandInv
<1>2. seen[p].row \in Row
  BY <1>1, SessionFacts
<1>3. NormalizeCommand(seen[p].row.cmd) = ""
  <2>1. CASE pc[p] = "commit"
    BY <1>1, <2>1 DEF Private, Checked, HandlerStates
  <2>2. CASE pc[p] = "rcommit"
    <3>1. /\ seen[p].id \in TxIds /\ wager[seen[p].id] = seen[p].row
          /\ wager[seen[p].id].status = "PENDING_REFERENCE"
      BY <1>1, <2>2, StagedWallet DEF Waiting
    <3>. QED  BY <1>1, <3>1, WaitingUndecided DEF Undecided
  <2>. QED  BY <2>1, <2>2
<1>4. seen[p].row.cmd.wallet = WalletOf(p)
  BY <1>1, StagedWallet DEF Staged
<1>. QED  BY <1>2, <1>3, <1>4, NormalFacts

\* A row of another wallet is written: the decision of p still stands.
LEMMA WrittenStands ==
  ASSUME IndInv, CommandInv, NEW p \in Workers, pc[p] \in {"commit", "rcommit"},
         seen'[p] = seen[p], snap'[p] = snap[p], out'[p] = out[p],
         NEW id \in TxIds, id # seen[p].id, NEW row, row.status # "NONE",
         wager' = [wager EXCEPT ![id] = row], row.cmd.wallet # WalletOf(p),
         Exists(id) => wager[id].cmd = row.cmd /\ wager[id].status # "PROCESSED",
         ~Exists(id) /\ row.cmd.provider # "" =>
           Unclaimed(row.cmd) /\ (Inserted(p) => ~Clash(row.cmd, req[p].cmd)),
         Backed(row),
         row.status = "PROCESSED" /\ row.cmd.kind \in Reversals => row.refId # 0,
         NEW expired, Stands(p, expired)
  PROVE  Stands(p, expired)'
<1>. DEFINE V == View(p)
            V2 == View(p)'
            me == seen[p].row
            c == me.cmd
            probe == [c EXCEPT !.ext = c.ref]
<1>1. /\ DbType /\ SessionType /\ Private(p) /\ Waiting(p) /\ Placed(p)
  BY TypeParts DEF IndInv, Local
<1>2. me \in Row /\ c.wallet = WalletOf(p) /\ c.provider # ""
  BY StagedNormal
<1>3. seen[p].id \in TxIds /\ ~Terminal(wager[seen[p].id].status)
  BY StagedWallet
<1>4. wager'[id] = row /\ \A t \in TxIds \ {id} : wager'[t] = wager[t]
  BY <1>1 DEF DbType
<1>5. /\ \A t \in TxIds \ {id} : V2[t] = V[t]
      /\ V2[id] = row /\ V[id] = wager[id]
      /\ V[seen[p].id] = me /\ \A t \in TxIds : t # seen[p].id => V[t] = wager[t]
  BY <1>3, <1>4 DEF View
<1>. HIDE DEF V, V2
<1>6. V[id].status # "NONE" => V[id].cmd = V2[id].cmd
  BY <1>5 DEF Exists, Present
<1>7. V[id].status = "NONE" /\ SameExt(V2[id].cmd, probe) => ByExt(V, probe) = {}
  <2>. SUFFICES ASSUME V[id].status = "NONE", SameExt(row.cmd, probe),
                       NEW t \in ByExt(V, probe)
                PROVE  FALSE
    BY <1>5
  <2>1. probe.provider = c.provider
    BY <1>2 DEF Row, Command
  <2>2. t \in TxIds /\ V[t].status # "NONE" /\ SameExt(V[t].cmd, probe)
    BY DEF ByExt, Present
  <2>. HIDE DEF probe
  <2>3. SameExt(V[t].cmd, row.cmd) /\ SameExt(row.cmd, V[t].cmd) /\ row.cmd.provider # ""
    BY <1>2, <2>1, <2>2 DEF SameExt
  <2>4. ~Exists(id)
    BY <1>5 DEF Exists, Present
  <2>5. Unclaimed(row.cmd) /\ (Inserted(p) => ~Clash(row.cmd, req[p].cmd))
    BY <2>3, <2>4
  <2>6. \A s \in TxIds : Exists(s) => ~SameExt(wager[s].cmd, row.cmd)
    BY <2>5 DEF Unclaimed, Clash
  <2>7. CASE t # seen[p].id
    BY <1>5, <2>2, <2>3, <2>6, <2>7 DEF Exists, Present
  <2>8. CASE t = seen[p].id /\ pc[p] = "rcommit"
    <3>1. wager[t] = me /\ V[t] = me
      BY <1>1, <1>5, <2>8 DEF Waiting
    <3>. QED  BY <2>2, <2>3, <2>6, <3>1 DEF Exists, Present
  <2>9. CASE t = seen[p].id /\ pc[p] = "commit"
    <3>1. V[t].cmd = req[p].cmd
      BY <1>1, <1>5, <2>9 DEF Private
    <3>2. Inserted(p)
      BY <1>1, <2>9 DEF Inserted, Placed, Workers, ResolverStates
    <3>. QED  BY <2>3, <2>5, <3>1, <3>2 DEF Clash
  <2>. QED  BY <2>7, <2>8, <2>9
<1>8. ASSUME NEW t \in TxIds, V[t].cmd.wallet = c.wallet
      PROVE  ReversedIn(V2, t) = ReversedIn(V, t)
  <2>1. ~ProcessedReversal(V[id], t)
    BY <1>5 DEF ProcessedReversal, Exists, Present
  <2>2. ~ProcessedReversal(V2[id], t)
    <3>. SUFFICES ASSUME row.status = "PROCESSED", row.cmd.kind \in Reversals, row.refId = t
                  PROVE  FALSE
      BY <1>5 DEF ProcessedReversal
    <3>1. wager[t].status = "PROCESSED" /\ wager[t].cmd.wallet = row.cmd.wallet
      BY DEF Backed
    <3>2. t # seen[p].id
      BY <1>3, <3>1 DEF Terminal, TerminalStates
    <3>. QED  BY <1>2, <1>5, <1>8, <3>1, <3>2
  <2>3. (\E u \in TxIds : ProcessedReversal(V2[u], t)) <=>
          (\E u \in TxIds : ProcessedReversal(V[u], t))
    BY <1>5, <2>1, <2>2
  <2>. QED  BY <2>3 DEF ReversedIn
<1>9. PICK ref \in Serial!References(V, c) :
        out[p] = Outcome(seen[p].id, me, snap[p], ref, ReversedIn(V, ref.id), expired)
  BY DEF Stands, V
<1>10. V2[id].status # "NONE" /\ V2[id].cmd.wallet # me.cmd.wallet
  BY <1>2, <1>5
<1>11. Elsewhere(V, V2, me, id)
  BY <1>5, <1>6, <1>7, <1>8, <1>10 DEF Elsewhere
<1>12. \E new \in Serial!References(V2, me.cmd) :
         Outcome(seen[p].id, me, snap[p], ref, ReversedIn(V, ref.id), expired) =
           Outcome(seen[p].id, me, snap[p], new, ReversedIn(V2, new.id), expired)
  <2>1. me \in Row /\ ref \in Serial!References(V, me.cmd)
    BY <1>2, <1>9
  <2>. HIDE DEF me
  <2>2. Repeats(V, V2, me)
    BY <1>11, <2>1, OutcomeKeeps
  <2>. QED  BY <2>1, <2>2 DEF Repeats
<1>. QED  BY <1>9, <1>12 DEF Stands, V2

(***************************************************************************)
(* The steps.                                                              *)
(***************************************************************************)
\* A session that does not move while no row changes.
LEMMA StillTimely ==
  ASSUME SerialInv, NEW p \in Workers, wager' = wager, pc'[p] = pc[p],
         seen'[p] = seen[p], snap'[p] = snap[p], out'[p] = out[p]
  PROVE  Timely(p)'
<1>1. Timely(p)
  BY DEF SerialInv
<1>2. View(p)' = View(p)
  BY DEF View
<1>3. ASSUME NEW expired, Stands(p, expired)  PROVE  Stands(p, expired)'
  BY <1>2, <1>3 DEF Stands
<1>4. Undone(p) => Undone(p)'
  BY DEF Undone
<1>5. CASE pc[p] = "commit"
  BY <1>1, <1>3, <1>5 DEF Timely
<1>6. CASE pc[p] = "rcommit"
  <2>1. CASE \E expired \in BOOLEAN : Stands(p, expired)
    <3>1. PICK expired \in BOOLEAN : Stands(p, expired)
      BY <2>1
    <3>2. Stands(p, expired)'
      BY <1>3, <3>1
    <3>. QED  BY <1>6, <3>2 DEF Timely
  <2>2. CASE out[p] = Failure(seen[p].id, seen[p].row, snap[p])
    BY <1>6, <2>2 DEF Timely
  <2>3. CASE Undone(p)
    BY <1>4, <1>6, <2>3 DEF Timely
  <2>. QED  BY <1>1, <1>6, <2>1, <2>2, <2>3 DEF Timely
<1>7. CASE pc[p] \notin {"commit", "rcommit"}
  BY <1>7 DEF Timely
<1>. QED  BY <1>5, <1>6, <1>7

\* A session that does not move while a row of another wallet is written.
LEMMA WrittenTimely ==
  ASSUME IndInv, CommandInv, SerialInv, NEW p \in Workers, pc'[p] = pc[p],
         seen'[p] = seen[p], snap'[p] = snap[p], out'[p] = out[p],
         NEW id \in TxIds, NEW row, row.status # "NONE",
         wager' = [wager EXCEPT ![id] = row],
         Exists(id) => wager[id].cmd = row.cmd /\ wager[id].status # "PROCESSED",
         ~Exists(id) /\ row.cmd.provider # "" =>
           Unclaimed(row.cmd) /\ (Inserted(p) => ~Clash(row.cmd, req[p].cmd)),
         Backed(row),
         row.status = "PROCESSED" /\ row.cmd.kind \in Reversals => row.refId # 0,
         pc[p] \in {"commit", "rcommit"} => id # seen[p].id /\ row.cmd.wallet # WalletOf(p)
  PROVE  Timely(p)'
<1>1. Timely(p)
  BY DEF SerialInv
<1>2. ASSUME NEW expired, Stands(p, expired), pc[p] \in {"commit", "rcommit"}
      PROVE  Stands(p, expired)'
  BY <1>2, WrittenStands
<1>4. Undone(p) => Undone(p)'
  BY DEF Undone
<1>5. CASE pc[p] = "commit"
  BY <1>1, <1>2, <1>5 DEF Timely
<1>6. CASE pc[p] = "rcommit"
  <2>1. CASE \E expired \in BOOLEAN : Stands(p, expired)
    <3>1. PICK expired \in BOOLEAN : Stands(p, expired)
      BY <2>1
    <3>2. Stands(p, expired)'
      BY <1>2, <1>6, <3>1
    <3>. QED  BY <1>6, <3>2 DEF Timely
  <2>2. CASE out[p] = Failure(seen[p].id, seen[p].row, snap[p])
    BY <1>6, <2>2 DEF Timely
  <2>3. CASE Undone(p)
    BY <1>4, <1>6, <2>3 DEF Timely
  <2>. QED  BY <1>1, <1>6, <2>1, <2>2, <2>3 DEF Timely
<1>7. CASE pc[p] \notin {"commit", "rcommit"}
  BY <1>7 DEF Timely
<1>. QED  BY <1>5, <1>6, <1>7

\* Two sessions that are about to commit commit different wagers, of different wallets.
LEMMA StagedApart ==
  ASSUME IndInv, NEW p \in Workers, NEW q \in Workers, p # q,
         pc[p] \in {"commit", "rcommit"}, pc[q] \in {"commit", "rcommit"}
  PROVE  seen[q].id # seen[p].id /\ out[q].row.cmd.wallet # WalletOf(p)
<1>1. /\ Private(p) /\ Private(q) /\ Claimed(p) /\ Claimed(q) /\ Staged(p) /\ Staged(q)
  BY DEF IndInv, Local
<1>2. /\ out[p].row.cmd.wallet = WalletOf(p) /\ lock[WalletOf(p)] = p
      /\ out[q].row.cmd.wallet = WalletOf(q) /\ lock[WalletOf(q)] = q
  BY StagedWallet
<1>3. CASE pc[p] = "commit" \/ pc[q] = "commit"
  BY <1>1, <1>2, <1>3 DEF Private
<1>4. CASE pc[p] = "rcommit" /\ pc[q] = "rcommit"
  BY <1>1, <1>2, <1>4 DEF Claimed, Staged, ResolverStates
<1>. QED  BY <1>3, <1>4

\* A commit of q leaves the decisions of the others standing.
LEMMA CommitTimely ==
  ASSUME IndInv, CommandInv, SerialInv, NEW q \in Workers, NEW n, Install(q, n),
         pc[q] \in {"commit", "rcommit"}, Others(q), Inserted(q) \/ Exists(seen[q].id),
         NEW p \in Workers \ {q}
  PROVE  Timely(p)'
<1>. DEFINE id == seen[q].id
            row == out[q].row
<1>1. /\ SessionType /\ Checked(q) /\ Judged(q) /\ Private(q) /\ Claimed(q) /\ Staged(q)
      /\ Rivals /\ p \in Workers /\ p # q
  BY TypeParts DEF IndInv, Local, CommandInv
<1>2. id \in TxIds /\ ~Terminal(wager[id].status)
  BY StagedWallet
<1>3. wager' = [wager EXCEPT ![id] = row]
  BY DEF Install
<1>4. Sound(id, out[q])
  BY <1>1 DEF Judged
<1>5. row.cmd = seen[q].row.cmd /\ row \in Row
  BY <1>1, SessionFacts DEF Staged
<1>6. Exists(id) => wager[id].cmd = row.cmd /\ wager[id].status # "PROCESSED"
  <2>1. CASE pc[q] = "commit"
    BY <1>1, <2>1 DEF Private
  <2>2. CASE pc[q] = "rcommit"
    BY <1>1, <1>2, <1>5, <2>2 DEF Claimed, ResolverStates, Terminal, TerminalStates
  <2>. QED  BY <2>1, <2>2
<1>7. ~Exists(id) => Unclaimed(row.cmd) /\ (Inserted(p) => ~Clash(row.cmd, req[p].cmd))
  <2>1. Inserted(q) => row.cmd = req[q].cmd /\ Unclaimed(req[q].cmd)
    BY <1>1, <1>5 DEF Inserted, Private, Checked
  <2>. QED  BY <1>1, <2>1 DEF Rivals, Inserted
<1>8. /\ row.status # "NONE" /\ Backed(row)
      /\ row.status = "PROCESSED" /\ row.cmd.kind \in Reversals => row.refId # 0
  BY <1>4 DEF Sound
<1>9. pc[p] \in {"commit", "rcommit"} => id # seen[p].id /\ row.cmd.wallet # WalletOf(p)
  BY <1>1, StagedApart
<1>10. pc'[p] = pc[p] /\ seen'[p] = seen[p] /\ snap'[p] = snap[p] /\ out'[p] = out[p]
  BY DEF Others
<1>. HIDE DEF id, row
<1>. QED  BY <1>1, <1>2, <1>3, <1>6, <1>7, <1>8, <1>9, <1>10, WrittenTimely

\* A new wallet leaves all decisions standing.
LEMMA CreateTimely ==
  ASSUME IndInv, CommandInv, SerialInv, NEW w \in Wallets, CreateWallet(w), NEW p \in Workers
  PROVE  Timely(p)'
<1>1. UNCHANGED <<pc, req, seen, snap, out, reply>>
  BY DEF CreateWallet, session
<1>2. CASE Accounts[w].initial > 0
  <2>. DEFINE id == FreshId
              row == Opening(id, w).row
  <2>1. id \in TxIds /\ Free(id)
    BY <1>2, FreshIdType DEF CreateWallet
  <2>2. wager' = [wager EXCEPT ![id] = row] /\ ~Exists(id) /\ id # seen[p].id
    BY <1>2, <2>1 DEF CreateWallet, Free
  <2>. HIDE DEF id
  <2>3. /\ row.status = "PROCESSED" /\ row.refId = 0 /\ row.cmd.wallet = w
        /\ row.cmd.kind = "OPENING" /\ row.cmd.provider = ""
    BY <1>2, <2>1, OpeningReadable
  <2>. HIDE DEF row
  <2>4. row.status # "NONE" /\ Backed(row) /\ row.cmd.kind \notin Reversals
    BY <2>3 DEF Backed, Reversals
  <2>5. pc[p] \in {"commit", "rcommit"} => row.cmd.wallet # WalletOf(p)
    <3>1. wallet[w].version = 0
      BY DEF CreateWallet
    <3>2. ASSUME pc[p] \in {"commit", "rcommit"}, WalletOf(p) = w  PROVE  FALSE
      <4>1. wallet[w] = snap[p] /\ snap[p].version > 0
        BY <3>2, StagedWallet
      <4>2. wallet[w].version > 0
        BY <4>1
      <4>. QED  BY <3>1, <4>2
    <3>. QED  BY <2>3, <3>2
  <2>. QED  BY <1>1, <2>1, <2>2, <2>3, <2>4, <2>5, WrittenTimely
<1>3. CASE ~(Accounts[w].initial > 0)
  <2>1. wager' = wager
    BY <1>3 DEF CreateWallet
  <2>. QED  BY <1>1, <2>1, StillTimely
<1>. QED  BY <1>2, <1>3

\* What apply stages is what the serial machine would decide.
LEMMA SettleStands ==
  ASSUME NEW p \in Workers, NEW expired
  PROVE  \E ref \in Serial!References(View(p), seen[p].row.cmd) :
           Settle(p, expired) =
             Outcome(seen[p].id, seen[p].row, snap[p], ref, ReversedIn(View(p), ref.id), expired)
<1>1. Reference(p) \in Serial!References(View(p), seen[p].row.cmd)
  BY SameQueries DEF Serial!References, Reference
<1>. QED  BY <1>1 DEF Settle

\* A turn of a handler: only Apply stages a decision.
LEMMA HandlerTimely ==
  ASSUME IndInv, NEW p \in Handlers, HandlerTurn(p)
  PROVE  Timely(p)'
<1>1. p \in Workers /\ p \notin Resolvers /\ SessionType
  BY HandlerFacts
<1>2. ASSUME pc'[p] \notin {"commit", "rcommit"}  PROVE  Timely(p)'
  BY <1>2 DEF Timely
<1>3. ASSUME NEW code, Refuse(p, code)  PROVE  pc'[p] = "reply"
  BY <1>1, <1>3 DEF Refuse, Return, SessionType
<1>4. CASE \E r \in Requests : ProcessWager(p, r)
  <2>1. pc'[p] \in {"reply", "find", "reserve"}
    BY <1>1, <1>4 DEF ProcessWager, SessionType
  <2>. QED  BY <1>2, <2>1
<1>5. CASE ReserveInbox(p) \/ LoadInboxWager(p)
  <2>1. pc'[p] \in {"reply", "find", "load", "replay"}
    BY <1>1, <1>3, <1>5 DEF ReserveInbox, LoadInboxWager, SessionType
  <2>. QED  BY <1>2, <2>1
<1>6. CASE FindIdentity(p)
  <2>1. pc'[p] \in {"reply", "lock", "replay"}
    BY <1>1, <1>3, <1>6 DEF FindIdentity, SessionType
  <2>. QED  BY <1>2, <2>1
<1>7. CASE CommitReplay(p) \/ Respond(p)
  <2>1. pc'[p] \in {"reply", "idle"}
    BY <1>1, <1>7 DEF CommitReplay, Respond, Return, SessionType
  <2>. QED  BY <1>2, <2>1
<1>8. CASE LockWallet(p) \/ InsertWager(p)
  <2>1. pc'[p] \in {"reply", "insert", "refind", "apply"}
    BY <1>1, <1>3, <1>8 DEF LockWallet, InsertWager, SessionType
  <2>. QED  BY <1>2, <2>1
<1>9. CASE Rollback(p)
  <2>1. pc'[p] = "reply"
    BY <1>1, <1>3, <1>9 DEF Rollback
  <2>. QED  BY <1>2, <2>1
<1>10. CASE Apply(p)
  <2>1. CASE /\ out' = [out EXCEPT ![p] = Settle(p, FALSE)]
             /\ pc' = [pc EXCEPT ![p] = "commit"] /\ UNCHANGED <<seen, snap, wager>>
    <3>1. out'[p] = Settle(p, FALSE) /\ pc'[p] = "commit" /\ View(p)' = View(p)
      BY <1>1, <2>1 DEF SessionType, View
    <3>2. Stands(p, FALSE)'
      BY <1>1, <2>1, <3>1, SettleStands DEF Stands
    <3>. QED  BY <3>1, <3>2 DEF Timely
  <2>2. CASE Refuse(p, "INVALID_WALLET")
    BY <1>2, <1>3, <2>2
  <2>. QED  BY <1>10, <2>1, <2>2 DEF Apply, db
<1>. QED  BY <1>4, <1>5, <1>6, <1>7, <1>8, <1>9, <1>10 DEF HandlerTurn

\* A turn of a resolver: only RetryApply stages a decision.
LEMMA ResolverTimely ==
  ASSUME IndInv, NEW p \in Resolvers, ResolverTurn(p)
  PROVE  Timely(p)'
<1>1. p \in Workers /\ p \notin Handlers /\ SessionType
  BY ResolverFacts
<1>2. ASSUME pc'[p] \notin {"commit", "rcommit"}  PROVE  Timely(p)'
  BY <1>2 DEF Timely
<1>3. CASE \/ \E t \in TxIds : ClaimReference(p, t)
           \/ LockForRetry(p) \/ SelectClaim(p) \/ Rollback(p)
  <2>1. pc'[p] \in {"idle", "rlock", "rselect", "rapply"}
    BY <1>1, <1>3 DEF ClaimReference, LockForRetry, SelectClaim, Rollback, Leave, SessionType
  <2>. QED  BY <1>2, <2>1
<1>4. CASE RetryApply(p)
  <2>1. /\ pc'[p] = "rcommit" /\ UNCHANGED <<seen, snap, wager>> /\ View(p)' = View(p)
    BY <1>1, <1>4 DEF RetryApply, SessionType, db, View
  <2>2. PICK late \in BOOLEAN :
          LET exhausted == poll[seen[p].id].attempts + 1 >= MaxAttempts \/ late IN
          \/ out' = [out EXCEPT ![p] = Settle(p, exhausted)]
          \/ out' = [out EXCEPT ![p] = Failure(seen[p].id, seen[p].row, snap[p])]
          \/ out' = [out EXCEPT ![p] = [row |-> seen[p].row, wallet |-> snap[p],
                                        dir |-> "NONE", events |-> <<>>]]
    BY <1>4 DEF RetryApply
  <2>. DEFINE exhausted == poll[seen[p].id].attempts + 1 >= MaxAttempts \/ late
  <2>3. exhausted \in BOOLEAN
    OBVIOUS
  <2>4. CASE out' = [out EXCEPT ![p] = Settle(p, exhausted)]
    <3>1. PICK expired \in BOOLEAN : expired = exhausted
      BY <2>3
    <3>. HIDE DEF exhausted
    <3>2. out'[p] = Settle(p, expired)
      BY <1>1, <2>4, <3>1 DEF SessionType
    <3>3. Stands(p, expired)'
      BY <1>1, <2>1, <3>2, SettleStands DEF Stands
    <3>. QED  BY <2>1, <3>3 DEF Timely
  <2>5. CASE out' = [out EXCEPT ![p] = Failure(seen[p].id, seen[p].row, snap[p])]
    <3>1. out'[p] = Failure(seen[p].id, seen[p].row, snap[p])
      BY <1>1, <2>5 DEF SessionType
    <3>. QED  BY <2>1, <3>1 DEF Timely
  <2>6. CASE out' = [out EXCEPT ![p] = [row |-> seen[p].row, wallet |-> snap[p],
                                        dir |-> "NONE", events |-> <<>>]]
    <3>1. Undone(p)'
      BY <1>1, <2>1, <2>6 DEF SessionType, Undone
    <3>. QED  BY <2>1, <3>1 DEF Timely
  <2>. QED  BY <2>2, <2>4, <2>5, <2>6
<1>. QED  BY <1>3, <1>4 DEF ResolverTurn

\* The inductive step.
LEMMA SerialStep == IndInv /\ CommandInv /\ SerialInv /\ [Next]_vars => SerialInv'
<1>. SUFFICES ASSUME IndInv, CommandInv, SerialInv, [Next]_vars, NEW p \in Workers
              PROVE  Timely(p)'
  BY DEF SerialInv
<1>1. ASSUME NEW w \in Wallets, CreateWallet(w)  PROVE  Timely(p)'
  BY <1>1, CreateTimely
<1>2. ASSUME NEW q \in Workers, wager' = wager, Others(q), p # q  PROVE  Timely(p)'
  <2>1. pc'[p] = pc[p] /\ seen'[p] = seen[p] /\ snap'[p] = snap[p] /\ out'[p] = out[p]
    BY <1>2 DEF Others
  <2>. QED  BY <1>2, <2>1, StillTimely
<1>3. ASSUME NEW q \in Handlers, HandlerTurn(q)  PROVE  Timely(p)'
  <2>1. q \in Workers /\ wager' = wager /\ Others(q)
    BY <1>3, HandlerFrame DEF tables, Workers
  <2>. QED  BY <1>2, <1>3, <2>1, HandlerTimely
<1>4. ASSUME NEW q \in Resolvers, ResolverTurn(q)  PROVE  Timely(p)'
  <2>1. q \in Workers /\ wager' = wager /\ Others(q)
    BY <1>4, ResolverFrame DEF tables, Workers
  <2>. QED  BY <1>2, <1>4, <2>1, ResolverTimely
<1>5. ASSUME NEW q \in Handlers, Commit(q)  PROVE  Timely(p)'
  <2>1. q \in Workers /\ SessionType
    BY HandlerFacts
  <2>2. pc[q] = "commit" /\ Install(q, 0)
    BY <1>5 DEF Commit
  <2>3. Others(q) /\ pc'[q] = "reply" /\ Inserted(q)
    BY <1>5, <2>1, <2>2 DEF Commit, Others, Return, SessionType, Inserted
  <2>4. CASE p = q
    BY <2>3, <2>4 DEF Timely
  <2>5. CASE p # q
    BY <2>1, <2>2, <2>3, <2>5, CommitTimely
  <2>. QED  BY <2>4, <2>5
<1>6. ASSUME NEW q \in Resolvers, RetryCommit(q)  PROVE  Timely(p)'
  <2>1. q \in Workers /\ SessionType /\ Claimed(q)
    BY ResolverFacts
  <2>2. pc[q] = "rcommit" /\ Install(q, poll[seen[q].id].attempts + 1)
    BY <1>6 DEF RetryCommit
  <2>3. Others(q) /\ pc'[q] = "idle"
    BY <1>6, <2>1 DEF RetryCommit, Others, SessionType
  <2>4. Exists(seen[q].id)
    BY <2>1, <2>2 DEF Claimed, ResolverStates
  <2>5. CASE p = q
    BY <2>3, <2>5 DEF Timely
  <2>6. CASE p # q
    BY <2>1, <2>2, <2>3, <2>4, <2>6, CommitTimely
  <2>. QED  BY <2>5, <2>6
<1>7. CASE UNCHANGED <<tables, inbox, lock, session>>
  <2>1. UNCHANGED <<wager, pc, seen, snap, out>>
    BY <1>7 DEF tables, session
  <2>. QED  BY <2>1, StillTimely
<1>. QED  BY <1>1, <1>3, <1>4, <1>5, <1>6, <1>7, NextForms

(***************************************************************************)
(* The refinement: an action of the store is one of the serial machine, or *)
(* leaves the tables alone.                                                *)
(***************************************************************************)
\* The initial states agree.
LEMMA SerialInit == Init => Serial!Init /\ SerialInv
<1>1. Init => Serial!Init
  BY SameValues DEF Init, Serial!Init
<1>2. Init => SerialInv
  BY DEF Init, SerialInv, Timely
<1>. QED  BY <1>1, <1>2

\* The commit of p records its outcome on the committed wallet.
LEMMA InstallRecords ==
  ASSUME IndInv, NEW p \in Workers, NEW n, Install(p, n), pc[p] \in {"commit", "rcommit"}
  PROVE  Serial!Record(seen[p].id, WalletOf(p), out[p])
<1>. DEFINE id == seen[p].id
            w == WalletOf(p)
            o == out[p]
<1>1. DbType /\ Staged(p)
  BY TypeParts DEF IndInv, Local
<1>2. /\ o.row.cmd.wallet = w /\ w \in Wallets /\ wallet[w] = snap[p]
  BY StagedWallet
<1>3. o.dir = "NONE" => o.wallet = wallet[w]
  BY <1>1, <1>2 DEF Staged, Moves
<1>4. wallet' = [wallet EXCEPT ![w] = o.wallet]
  <2>1. CASE o.dir = "NONE"
    <3>1. wallet' = wallet
      BY <2>1 DEF Install
    <3>. QED  BY <1>1, <1>2, <1>3, <2>1, <3>1 DEF DbType
  <2>2. CASE o.dir # "NONE"
    BY <1>2, <2>2 DEF Install
  <2>. QED  BY <2>1, <2>2
<1>5. ledger' = IF o.dir = "NONE" THEN ledger
                ELSE [ledger EXCEPT ![w] = Append(@, Serial!LedgerEntry(id, o, wallet[w]))]
  BY <1>2, SameWrites DEF Install
<1>6. /\ wager' = [wager EXCEPT ![id] = o.row]
      /\ outbox' = [outbox EXCEPT ![w] = @ \o o.events]
  BY <1>2 DEF Install
<1>. QED  BY <1>4, <1>5, <1>6 DEF Serial!Record

\* CreateWallet opens a wallet.
LEMMA OpenSerial ==
  ASSUME IndInv, NEW w \in Wallets, CreateWallet(w)
  PROVE  Serial!Open(w)
<1>1. DbType /\ LedgerChain
  BY TypeParts DEF IndInv
<1>2. /\ wallet[w].version = 0 /\ inbox' = inbox
      /\ \A v \in Wallets : wallet[v].version > 0 =>
           <<Accounts[v].player, Accounts[v].currency>>
             # <<Accounts[w].player, Accounts[w].currency>>
  BY DEF CreateWallet
<1>3. wallet[w].balance = 0 /\ NoBalance.balance = 0
  BY <1>1, <1>2 DEF LedgerChain, NoBalance
<1>4. CASE Accounts[w].initial > 0
  <2>. DEFINE id == FreshId
              o == Opening(id, w)
  <2>1. id \in TxIds /\ Free(id)
    BY <1>4, FreshIdType DEF CreateWallet
  <2>2. wager[id].status = "NONE"
    BY <2>1 DEF Free, Exists, Present
  <2>3. /\ wallet' = [wallet EXCEPT ![w] = o.wallet]
        /\ wager' = [wager EXCEPT ![id] = o.row]
        /\ ledger' = [ledger EXCEPT ![w] = Append(@, LedgerEntry(id, o, NoBalance))]
        /\ outbox' = [outbox EXCEPT ![w] = @ \o o.events]
    BY <1>4 DEF CreateWallet
  <2>. HIDE DEF id
  <2>4. o.dir = "CREDIT"
    BY <2>1, OpeningSound
  <2>. HIDE DEF o
  <2>5. LedgerEntry(id, o, NoBalance) = Serial!LedgerEntry(id, o, wallet[w])
    BY <1>3 DEF LedgerEntry, Serial!LedgerEntry
  <2>6. Serial!Record(id, w, o)
    BY <2>3, <2>4, <2>5 DEF Serial!Record
  <2>7. o = Serial!Opening(id, w)
    BY SameOutcome DEF o
  <2>. QED  BY <1>2, <1>4, <2>1, <2>2, <2>6, <2>7, SameValues DEF Serial!Open
<1>5. CASE ~(Accounts[w].initial > 0)
  <2>1. /\ wallet' = [wallet EXCEPT ![w] = Opening(FreshId, w).wallet]
        /\ UNCHANGED <<wager, ledger, outbox>>
    BY <1>5 DEF CreateWallet
  <2>2. Accounts[w].initial = 0
    <3>1. Accounts[w].initial \in Minor
      BY AccountsAssumption DEF Account
    <3>. QED  BY <1>5, <3>1, MaxIntAssumption DEF Minor
  <2>3. Opening(FreshId, w).wallet = [balance |-> 0, version |-> 1]
    BY <2>2 DEF Opening
  <2>. QED  BY <1>2, <1>5, <2>1, <2>3, SameValues DEF Serial!Open
<1>. QED  BY <1>4, <1>5

\* The commit of ProcessWager decides its command.
LEMMA DecideSerial ==
  ASSUME IndInv, CommandInv, SerialInv, NEW p \in Handlers, Commit(p)
  PROVE  /\ req[p] \in Requests /\ seen[p].id \in TxIds
         /\ Serial!Decide(req[p], seen[p].id)
<1>. DEFINE id == seen[p].id
            r == req[p]
            c == r.cmd
            o == out[p]
            rows == [wager EXCEPT ![id] = NewRow(c, "PENDING")]
<1>1. /\ p \in Workers /\ DbType /\ SessionType /\ Private(p) /\ Checked(p) /\ Reservation(p)
      /\ Timely(p) /\ pc[p] = "commit" /\ Install(p, 0)
  BY HandlerFacts DEF CommandInv, SerialInv, Commit
<1>2. /\ id \in TxIds /\ WalletOf(p) = c.wallet /\ wallet[c.wallet] = snap[p]
      /\ snap[p].version > 0
  BY <1>1, StagedWallet DEF WalletOf
<1>3. /\ NormalizeCommand(c) = "" /\ AcceptsReference(c) /\ Accounts[c.wallet].player = c.player
      /\ seen[p].row = NewRow(c, "PENDING") /\ ByKey(wager, c) \cup ByExt(wager, c) = {}
  BY <1>1, UnclaimedHits DEF Checked, HandlerStates
<1>4. wager[id].status = "NONE"
  BY <1>1, <1>2 DEF Private, Exists, Present
<1>5. r.msg # "" => inbox[r.msg].tx = 0
  BY <1>1 DEF Reservation, Reserving
<1>6. r \in Requests
  <2>1. r \in Requests \cup {NoRequest}
    BY <1>1 DEF SessionType
  <2>2. NoRequest.cmd.kind = "OPENING"
    BY DEF NoRequest, NoCommand
  <2>3. c.kind # "OPENING"
    <3>. HIDE DEF c
    <3>. QED  BY <1>3, NormalFacts
  <2>. QED  BY <2>1, <2>2, <2>3
<1>7. rows = View(p) /\ rows[id] = seen[p].row
  BY <1>1, <1>2, <1>3 DEF DbType, View
<1>8. PICK ref \in Serial!References(View(p), seen[p].row.cmd) :
        o = Outcome(id, seen[p].row, snap[p], ref, ReversedIn(View(p), ref.id), FALSE)
  BY <1>1 DEF Timely, Stands
<1>9. o \in Serial!Settled(View(p), id, c.wallet, FALSE)
  <2>1. View(p)[id] = seen[p].row
    BY <1>7
  <2>2. o = Serial!Outcome(id, View(p)[id], wallet[c.wallet], ref,
                           Serial!ReversedIn(View(p), ref.id), FALSE)
    <3>1. Serial!ReversedIn(View(p), ref.id) = ReversedIn(View(p), ref.id)
      BY SameQueries DEF Serial!ReversedIn, ReversedIn
    <3>2. o = Serial!Outcome(id, seen[p].row, snap[p], ref, ReversedIn(View(p), ref.id), FALSE)
      BY <1>8, SameOutcome
    <3>. QED  BY <1>2, <2>1, <3>1, <3>2
  <2>. QED  BY <1>8, <2>1, <2>2 DEF Serial!Settled
<1>10. Serial!Record(id, c.wallet, o)
  BY <1>1, <1>2, InstallRecords
<1>11. inbox' = Serial!Consumed(r, id)
  BY SameChecks DEF Commit, Serial!Consumed
<1>12. [wager EXCEPT ![id] = Serial!NewRow(c, "PENDING")] = View(p)
  BY <1>7 DEF Serial!NewRow, NewRow
<1>13. /\ Serial!NormalizeCommand(c) = "" /\ Serial!AcceptsReference(c)
       /\ Serial!ByKey(wager, c) \cup Serial!ByExt(wager, c) = {}
  BY <1>3, SameChecks, SameQueries
<1>14. wallet[c.wallet].version > 0 /\ Accounts[c.wallet].player = c.player
  BY <1>2, <1>3
<1>. HIDE DEF id, r, o, rows
<1>15. Serial!Decide(r, id)
  BY <1>4, <1>5, <1>9, <1>10, <1>11, <1>12, <1>13, <1>14 DEF Serial!Decide
<1>. QED  BY <1>2, <1>6, <1>15 DEF id, r

\* The commit of a replay consumes its message, or changes nothing.
LEMMA RepeatSerial ==
  ASSUME IndInv, NEW p \in Handlers, CommitReplay(p)
  PROVE  \/ UNCHANGED Serial!vars
         \/ \E r \in Requests : \E id \in TxIds : Serial!Repeat(r, id)
<1>. DEFINE r == req[p]
            id == seen[p].id
<1>1. p \in Workers /\ SessionType /\ Found(p)
  BY HandlerFacts
<1>2. UNCHANGED <<wallet, ledger, wager, outbox>> /\ pc[p] = "replay"
  BY DEF CommitReplay
<1>3. CASE inbox' = inbox
  BY <1>2, <1>3 DEF Serial!vars
<1>4. CASE inbox' # inbox
  <2>1. /\ r.msg # "" /\ inbox[r.msg].tx = 0
        /\ inbox' = [inbox EXCEPT ![r.msg] = [tx |-> id, hash |-> InboxHash(r)]]
    BY <1>4 DEF CommitReplay
  <2>2. id \in TxIds /\ wager[id].status # "NONE" /\ wager[id].cmd = r.cmd
    BY <1>1, <1>2 DEF Found, Exists, Present
  <2>3. r \in Requests
    <3>1. r \in Requests \cup {NoRequest}
      BY <1>1 DEF SessionType
    <3>2. NoRequest.msg = ""
      BY DEF NoRequest
    <3>. QED  BY <2>1, <3>1, <3>2
  <2>4. inbox' = Serial!Consumed(r, id)
    BY <2>1, SameChecks DEF Serial!Consumed
  <2>5. Serial!Repeat(r, id)
    BY <1>2, <2>1, <2>2, <2>4 DEF Serial!Repeat
  <2>. QED  BY <2>2, <2>3, <2>5
<1>. QED  BY <1>3, <1>4

\* The commit of RetryReference resolves its wager, or changes nothing.
LEMMA ResolveSerial ==
  ASSUME IndInv, CommandInv, SerialInv, NEW p \in Resolvers, RetryCommit(p)
  PROVE  \/ UNCHANGED Serial!vars
         \/ \E id \in TxIds : Serial!Resolve(id)
<1>. DEFINE id == seen[p].id
            w == wager[id].cmd.wallet
            o == out[p]
<1>1. /\ p \in Workers /\ p \notin Handlers /\ DbType /\ Waiting(p) /\ Timely(p)
      /\ pc[p] = "rcommit" /\ Install(p, poll[id].attempts + 1) /\ inbox' = inbox
  BY ResolverFacts DEF SerialInv, RetryCommit
<1>2. /\ id \in TxIds /\ wager[id] = seen[p].row /\ wager[id].status = "PENDING_REFERENCE"
      /\ WalletOf(p) = w /\ w \in Wallets /\ wallet[w] = snap[p]
  BY <1>1, StagedWallet DEF Waiting, WalletOf
<1>3. View(p) = wager
  BY <1>1, <1>2 DEF View, DbType
<1>4. Serial!Record(id, w, o)
  BY <1>1, <1>2, InstallRecords
<1>5. CASE \E expired \in BOOLEAN : Stands(p, expired)
  <2>1. PICK expired \in BOOLEAN : Stands(p, expired)
    BY <1>5
  <2>2. PICK ref \in Serial!References(wager, wager[id].cmd) :
          o = Outcome(id, wager[id], wallet[w], ref, ReversedIn(wager, ref.id), expired)
    BY <1>2, <1>3, <2>1 DEF Stands
  <2>3. o \in Serial!Settled(wager, id, w, expired)
    <3>1. Serial!ReversedIn(wager, ref.id) = ReversedIn(wager, ref.id)
      BY SameQueries DEF Serial!ReversedIn, ReversedIn
    <3>2. o = Serial!Outcome(id, wager[id], wallet[w], ref, ReversedIn(wager, ref.id), expired)
      BY <2>2, SameOutcome
    <3>. HIDE DEF o, w
    <3>. QED  BY <2>2, <3>1, <3>2 DEF Serial!Settled
  <2>4. Serial!Resolve(id)
    <3>. HIDE DEF o
    <3>. QED  BY <1>1, <1>2, <1>4, <2>1, <2>3 DEF Serial!Resolve
  <2>. QED  BY <1>2, <2>4
<1>6. CASE o = Failure(id, seen[p].row, snap[p])
  <2>1. Serial!Record(id, w, Serial!Failure(id, wager[id], wallet[w]))
    BY <1>2, <1>4, <1>6, SameOutcome
  <2>2. Serial!Resolve(id)
    BY <1>1, <1>2, <2>1 DEF Serial!Resolve
  <2>. QED  BY <1>2, <2>2
<1>7. CASE Undone(p)
  <2>1. o.row = wager[id] /\ o.wallet = wallet[w] /\ o.dir = "NONE" /\ o.events = <<>>
    BY <1>2, <1>7 DEF Undone
  <2>2. /\ wager' = [wager EXCEPT ![id] = o.row] /\ wallet' = [wallet EXCEPT ![w] = o.wallet]
        /\ ledger' = ledger /\ outbox' = [outbox EXCEPT ![w] = @ \o o.events]
    BY <1>4, <2>1 DEF Serial!Record
  <2>3. wager' = wager /\ wallet' = wallet
    BY <1>1, <1>2, <2>1, <2>2 DEF DbType
  <2>4. outbox' = outbox
    <3>1. outbox[w] \in Seq(Event)
      BY <1>1, <1>2 DEF DbType
    <3>2. outbox[w] \o <<>> = outbox[w]
      BY <3>1
    <3>. QED  BY <1>1, <1>2, <2>1, <2>2, <3>2 DEF DbType
  <2>. QED  BY <1>1, <2>2, <2>3, <2>4 DEF Serial!vars
<1>. QED  BY <1>1, <1>5, <1>6, <1>7 DEF Timely

\* A turn of a handler other than the end of a replay changes no table.
LEMMA TurnSerial ==
  ASSUME IndInv, NEW p \in Handlers, HandlerTurn(p), ~CommitReplay(p)
  PROVE  UNCHANGED Serial!vars
<1>1. UNCHANGED tables
  BY HandlerFrame
<1>2. inbox' = inbox
  BY DEF HandlerTurn, ProcessWager, ReserveInbox, LoadInboxWager, FindIdentity, LockWallet,
         InsertWager, Apply, Respond, Rollback, db
<1>. QED  BY <1>1, <1>2 DEF tables, Serial!vars

\* Every step of the store is a step of the serial machine or changes no table.
LEMMA RefineStep ==
  IndInv /\ CommandInv /\ SerialInv /\ [Next]_vars => [Serial!Next]_(Serial!vars)
<1>. SUFFICES ASSUME IndInv, CommandInv, SerialInv, [Next]_vars
              PROVE  Serial!Next \/ UNCHANGED Serial!vars
  OBVIOUS
<1>1. ASSUME NEW w \in Wallets, CreateWallet(w)  PROVE  Serial!Next
  BY <1>1, OpenSerial, SameValues DEF Serial!Next
<1>2. ASSUME NEW p \in Handlers, Commit(p)  PROVE  Serial!Next
  BY <1>2, DecideSerial DEF Serial!Next
<1>3. ASSUME NEW p \in Handlers, HandlerTurn(p)  PROVE  Serial!Next \/ UNCHANGED Serial!vars
  <2>1. CASE CommitReplay(p)
    BY <2>1, RepeatSerial DEF Serial!Next
  <2>2. CASE ~CommitReplay(p)
    BY <1>3, <2>2, TurnSerial
  <2>. QED  BY <2>1, <2>2
<1>4. ASSUME NEW r \in Resolvers, RetryCommit(r)  PROVE  Serial!Next \/ UNCHANGED Serial!vars
  BY <1>4, ResolveSerial DEF Serial!Next
<1>5. ASSUME NEW r \in Resolvers, ResolverTurn(r)  PROVE  UNCHANGED Serial!vars
  <2>1. UNCHANGED tables
    BY <1>5, ResolverFrame
  <2>2. inbox' = inbox
    BY <1>5 DEF ResolverTurn, ClaimReference, LockForRetry, SelectClaim, RetryApply, Rollback,
                db
  <2>. QED  BY <2>1, <2>2 DEF tables, Serial!vars
<1>6. CASE UNCHANGED <<tables, inbox, lock, session>>
  BY <1>6 DEF tables, Serial!vars
<1>. QED  BY <1>1, <1>2, <1>3, <1>4, <1>5, <1>6, NextForms

\* What a session is about to commit is at all times what the serial machine would decide
\* in the present state, although apply read the reference, its reversals and the wallet in
\* earlier statements.
THEOREM DecisionsStand == Spec => []SerialInv
<1>1. Init => SerialInv
  BY SerialInit
<1>. QED  BY <1>1, SerialStep, Inductive, CommandsCorrect, PTL DEF Spec

\* The store implements the serial machine: ProcessWager, RetryReference and CreateWallet,
\* statement by statement on any number of replicas, have the effect of deciding one command
\* at a time, at the commit.
THEOREM Refinement == Spec => IsSerial
<1>1. Init => Serial!Init
  BY SerialInit
<1>. QED
  BY <1>1, RefineStep, Inductive, CommandsCorrect, DecisionsStand, PTL
  DEF Spec, IsSerial, Serial!Spec

(***************************************************************************)
(* The invariant of the audit: how the wagers, the ledger, the wallets and *)
(* the outbox agree.                                                       *)
(***************************************************************************)
Moved(t) == wager[t].status = "PROCESSED" /\ wager[t].cmd.kind # "LOSS"

\* Every entry is of a wager that moved, and no wager has two.
Entered(w) ==
  /\ \A i \in DOMAIN ledger[w] :
       LET e == ledger[w][i] IN
       /\ e.tx \in TxIds /\ Moved(e.tx) /\ wager[e.tx].cmd.wallet = w
       /\ e.amount = wager[e.tx].cmd.amount
  /\ \A i, j \in DOMAIN ledger[w] : ledger[w][i].tx = ledger[w][j].tx => i = j
  /\ \A t \in TxIds : Moved(t) /\ wager[t].cmd.wallet = w =>
       \E i \in DOMAIN ledger[w] : ledger[w][i].tx = t

\* The processed wagers of a wallet, and what their frozen results say of the wallet.
Done(w) == {t \in TxIds : wager[t].status = "PROCESSED" /\ wager[t].cmd.wallet = w}

Frozen(w) ==
  /\ \A t \in Done(w) : /\ wager[t].version <= wallet[w].version
                        /\ wager[t].version = wallet[w].version =>
                             wager[t].balance = wallet[w].balance
  /\ Done(w) # {} => \E t \in Done(w) : wager[t].version = wallet[w].version

\* Every event is of a wager of the wallet; a terminal one carries its frozen result, and
\* every terminal wager has one.
Told(w) ==
  /\ \A i \in DOMAIN outbox[w] :
       LET e == outbox[w][i] IN
       /\ e.tx \in TxIds /\ Exists(e.tx) /\ wager[e.tx].cmd.wallet = w
       /\ Terminal(e.type) =>
            /\ e.type = wager[e.tx].status /\ e.balance = wager[e.tx].balance
            /\ e.version = wager[e.tx].version
  /\ \A i, j \in DOMAIN outbox[w] :
       /\ Terminal(outbox[w][i].type) /\ Terminal(outbox[w][j].type)
       /\ outbox[w][i].tx = outbox[w][j].tx
       => i = j
  /\ \A t \in TxIds : Terminal(wager[t].status) /\ wager[t].cmd.wallet = w =>
       \E i \in DOMAIN outbox[w] : outbox[w][i].tx = t /\ Terminal(outbox[w][i].type)

\* The balance events follow the entries.
Paired(w) ==
  LET moves == {i \in DOMAIN outbox[w] : outbox[w][i].type = "BALANCE"} IN
  /\ \A i \in moves :
       LET k == outbox[w][i].version - Unmoved(w) IN
       /\ k \in DOMAIN ledger[w]
       /\ outbox[w][i].tx = ledger[w][k].tx
       /\ outbox[w][i].balance = ledger[w][k].after
  /\ \A k \in DOMAIN ledger[w] : \E i \in moves : outbox[w][i].version = k + Unmoved(w)
  /\ \A i, j \in moves : i < j => outbox[w][i].version < outbox[w][j].version

Audited(w) == Entered(w) /\ Frozen(w) /\ Told(w) /\ Paired(w)

AuditInv == \A w \in Wallets : Audited(w)

\* What the serial machine records: an outcome o of wager id that is not yet decided, on
\* wallet w, moving it by one version or not at all.
Fits(id, w, o) ==
  /\ id \in TxIds /\ w \in Wallets /\ ~Terminal(wager[id].status)
  /\ Exists(id) => wager[id].cmd = o.row.cmd
  /\ o.row.cmd.wallet = w /\ o.row.status \in TerminalStates \cup {"PENDING_REFERENCE"}
  /\ o.row.status # "PROCESSED" => o.dir = "NONE"
  /\ o.row.status = "PROCESSED" =>
       /\ o.row.balance = o.wallet.balance /\ o.row.version = o.wallet.version
       /\ o.dir = "NONE" <=> o.row.cmd.kind = "LOSS"
  /\ o.dir = "NONE" => o.wallet = wallet[w]
  /\ o.dir # "NONE" => /\ o.wallet.version = wallet[w].version + 1
                       /\ wallet[w].version = Len(ledger[w]) + Unmoved(w)
  /\ \/ o.events = WriteEvents(id, o.row, o.wallet, o.dir)
     \/ o.events = <<>> /\ o.row.status = "PENDING_REFERENCE"

\* Record, table by table.
Posts(id, w, o) ==
  /\ wager'[id] = o.row /\ \A t \in TxIds \ {id} : wager'[t] = wager[t]
  /\ wallet'[w] = o.wallet
  /\ ledger'[w] = IF o.dir = "NONE" THEN ledger[w]
                  ELSE Append(ledger[w], LedgerEntry(id, o, wallet[w]))
  /\ outbox'[w] = outbox[w] \o o.events
  /\ \A v \in Wallets \ {w} :
       wallet'[v] = wallet[v] /\ ledger'[v] = ledger[v] /\ outbox'[v] = outbox[v]

\* Record does so.
LEMMA RecordPosts ==
  ASSUME DbType, NEW id \in TxIds, NEW w \in Wallets, NEW o, Serial!Record(id, w, o)
  PROVE  Posts(id, w, o)
<1>1. wager'[id] = o.row /\ \A t \in TxIds \ {id} : wager'[t] = wager[t]
  BY DEF Serial!Record, DbType
<1>2. wallet'[w] = o.wallet /\ \A v \in Wallets \ {w} : wallet'[v] = wallet[v]
  BY DEF Serial!Record, DbType
<1>3. outbox'[w] = outbox[w] \o o.events /\ \A v \in Wallets \ {w} : outbox'[v] = outbox[v]
  BY DEF Serial!Record, DbType
<1>4. /\ ledger'[w] = IF o.dir = "NONE" THEN ledger[w]
                      ELSE Append(ledger[w], LedgerEntry(id, o, wallet[w]))
      /\ \A v \in Wallets \ {w} : ledger'[v] = ledger[v]
  <2>1. Serial!LedgerEntry(id, o, wallet[w]) = LedgerEntry(id, o, wallet[w])
    BY SameWrites
  <2>. QED  BY <2>1 DEF Serial!Record, DbType
<1>. QED  BY <1>1, <1>2, <1>3, <1>4 DEF Posts

\* The wagers, entries and events of another wallet stay as they were.
LEMMA OthersAudited ==
  ASSUME DbType, NEW id, NEW w, NEW o, Fits(id, w, o), Posts(id, w, o),
         NEW v \in Wallets, v # w, Audited(v)
  PROVE  Audited(v)'
<1>1. /\ id \in TxIds /\ ~Terminal(wager[id].status) /\ wager'[id].cmd.wallet # v
      /\ Exists(id) => wager[id].cmd.wallet # v
  BY DEF Fits, Posts
<1>2. /\ \A t \in TxIds \ {id} : wager'[t] = wager[t]
      /\ wallet'[v] = wallet[v] /\ ledger'[v] = ledger[v] /\ outbox'[v] = outbox[v]
  BY DEF Posts
<1>3. \A t \in TxIds : Terminal(wager[t].status) => wager'[t] = wager[t]
  BY <1>1, <1>2
<1>4. /\ \A t \in TxIds : Exists(t) /\ wager[t].cmd.wallet = v => wager'[t] = wager[t]
      /\ \A t \in TxIds : wager'[t].cmd.wallet = v => wager'[t] = wager[t]
  BY <1>1, <1>2
<1>5. Entered(v)'
  BY <1>2, <1>3, <1>4 DEF Audited, Entered, Moved, Terminal, TerminalStates
<1>6. Done(v)' = Done(v)
  BY <1>1, <1>2 DEF Done, Terminal, TerminalStates
<1>7. Frozen(v)'
  BY <1>2, <1>3, <1>6 DEF Audited, Frozen, Done, Terminal, TerminalStates
<1>8. Told(v)'
  BY <1>2, <1>4 DEF Audited, Told, Exists, Present
<1>9. Paired(v)'
  BY <1>2 DEF Audited, Paired
<1>. QED  BY <1>5, <1>7, <1>8, <1>9 DEF Audited

\* The ledger after the record.
LEMMA LedgerAfter ==
  ASSUME DbType, NEW id, NEW w, NEW o, Fits(id, w, o), Posts(id, w, o), o.dir # "NONE"
  PROVE  LET n == Len(ledger[w]) IN
         /\ n \in Nat /\ DOMAIN ledger[w] = 1 .. n /\ DOMAIN ledger'[w] = 1 .. n + 1
         /\ \A i \in 1 .. n : ledger'[w][i] = ledger[w][i]
         /\ ledger'[w][n + 1].tx = id /\ ledger'[w][n + 1].amount = o.row.cmd.amount
         /\ ledger'[w][n + 1].after = o.wallet.balance
<1>. DEFINE l == ledger[w]
            e == LedgerEntry(id, o, wallet[w])
<1>1. l \in Seq(Entry)
  BY DEF DbType, Fits
<1>2. ledger'[w] = Append(l, e)
  BY DEF Posts
<1>3. e.tx = id /\ e.amount = o.row.cmd.amount /\ e.after = o.wallet.balance
  BY DEF LedgerEntry
<1>. HIDE DEF l, e
<1>4. /\ Len(l) \in Nat /\ DOMAIN l = 1 .. Len(l) /\ DOMAIN Append(l, e) = 1 .. Len(l) + 1
      /\ \A i \in 1 .. Len(l) : Append(l, e)[i] = l[i]
      /\ Append(l, e)[Len(l) + 1] = e
  BY <1>1
<1>. QED  BY <1>2, <1>3, <1>4 DEF l

\* The entries of the wallet.
LEMMA EnteredStep ==
  ASSUME DbType, NEW id, NEW w, NEW o, Fits(id, w, o), Posts(id, w, o), Entered(w)
  PROVE  Entered(w)'
<1>1. /\ id \in TxIds /\ ~Terminal(wager[id].status) /\ wager'[id] = o.row
      /\ o.row.cmd.wallet = w
      /\ \A t \in TxIds \ {id} : wager'[t] = wager[t]
  BY DEF Fits, Posts
<1>2. /\ \A t \in TxIds \ {id} : Moved(t)' <=> Moved(t)
      /\ ~Moved(id) /\ (Moved(id)' <=> o.dir # "NONE")
  BY <1>1 DEF Moved, Terminal, TerminalStates, Fits
<1>3. CASE o.dir = "NONE"
  <2>1. ledger'[w] = ledger[w]
    BY <1>3 DEF Posts
  <2>. QED  BY <1>1, <1>2, <1>3, <2>1 DEF Entered
<1>4. CASE o.dir # "NONE"
  <2>. DEFINE n == Len(ledger[w])
  <2>1. /\ n \in Nat /\ DOMAIN ledger[w] = 1 .. n /\ DOMAIN ledger'[w] = 1 .. n + 1
        /\ \A i \in 1 .. n : ledger'[w][i] = ledger[w][i]
        /\ ledger'[w][n + 1].tx = id /\ ledger'[w][n + 1].amount = o.row.cmd.amount
    BY <1>4, LedgerAfter
  <2>. HIDE DEF n
  <2>2. \A i \in 1 .. n : /\ ledger[w][i].tx \in TxIds \ {id} /\ Moved(ledger[w][i].tx)
                          /\ wager[ledger[w][i].tx].cmd.wallet = w
                          /\ ledger[w][i].amount = wager[ledger[w][i].tx].cmd.amount
    BY <1>2, <2>1 DEF Entered
  <2>3. \A i \in 1 .. n + 1 : i \in 1 .. n \/ i = n + 1
    BY <2>1
  <2>4. ASSUME NEW i \in 1 .. n + 1
        PROVE  LET t == ledger'[w][i].tx IN
               /\ t \in TxIds /\ wager'[t].status = "PROCESSED" /\ wager'[t].cmd.kind # "LOSS"
               /\ wager'[t].cmd.wallet = w /\ ledger'[w][i].amount = wager'[t].cmd.amount
    <3>1. CASE i = n + 1
      BY <1>1, <1>2, <1>4, <2>1, <3>1 DEF Moved
    <3>2. CASE i \in 1 .. n
      <4>. DEFINE t == ledger[w][i].tx
      <4>1. ledger'[w][i] = ledger[w][i]
        BY <2>1, <3>2
      <4>2. wager'[t] = wager[t] /\ t \in TxIds
        BY <1>1, <2>2, <3>2
      <4>3. /\ wager[t].status = "PROCESSED" /\ wager[t].cmd.kind # "LOSS"
            /\ wager[t].cmd.wallet = w /\ ledger[w][i].amount = wager[t].cmd.amount
        BY <2>2, <3>2 DEF Moved
      <4>. QED  BY <4>1, <4>2, <4>3
    <3>. QED  BY <2>3, <3>1, <3>2
  <2>5. ASSUME NEW i \in 1 .. n + 1, NEW j \in 1 .. n + 1,
               ledger'[w][i].tx = ledger'[w][j].tx
        PROVE  i = j
    <3>1. CASE i \in 1 .. n /\ j \in 1 .. n
      BY <2>1, <2>5, <3>1 DEF Entered
    <3>. QED  BY <2>1, <2>2, <2>3, <2>5, <3>1
  <2>6. ASSUME NEW t \in TxIds, Moved(t)', wager'[t].cmd.wallet = w
        PROVE  \E i \in 1 .. n + 1 : ledger'[w][i].tx = t
    <3>1. CASE t = id
      BY <2>1, <3>1
    <3>2. CASE t # id
      <4>1. PICK i \in 1 .. n : ledger[w][i].tx = t
        BY <1>1, <1>2, <2>1, <2>6, <3>2 DEF Entered
      <4>2. i \in 1 .. n + 1
        BY <2>1
      <4>. QED  BY <2>1, <4>1, <4>2
    <3>. QED  BY <3>1, <3>2
  <2>. QED  BY <2>1, <2>4, <2>5, <2>6 DEF Entered, Moved
<1>. QED  BY <1>3, <1>4

\* The frozen results of the wallet: a move makes a version that no result has yet.
LEMMA ResultsStep ==
  ASSUME DbType, NEW id, NEW w, NEW o, Fits(id, w, o), Posts(id, w, o), Frozen(w)
  PROVE  Frozen(w)'
<1>1. /\ id \in TxIds /\ w \in Wallets /\ ~Terminal(wager[id].status) /\ wager'[id] = o.row
      /\ o.row.cmd.wallet = w /\ wallet'[w] = o.wallet
      /\ \A t \in TxIds \ {id} : wager'[t] = wager[t]
  BY DEF Fits, Posts
<1>2. id \notin Done(w) /\ Done(w) \subseteq TxIds
  BY <1>1 DEF Done, Terminal, TerminalStates
<1>3. Done(w)' = IF o.row.status = "PROCESSED" THEN Done(w) \cup {id} ELSE Done(w)
  BY <1>1 DEF Done, Terminal, TerminalStates
<1>4. \A t \in Done(w) : wager'[t] = wager[t]
  BY <1>1, <1>2
<1>5. /\ \A t \in Done(w) : /\ wager[t].version <= wallet[w].version
                            /\ wager[t].version = wallet[w].version =>
                                 wager[t].balance = wallet[w].balance
      /\ Done(w) # {} => \E t \in Done(w) : wager[t].version = wallet[w].version
  BY DEF Frozen
<1>6. wallet[w].version \in Nat /\ \A t \in Done(w) : wager[t].version \in Nat
  BY <1>1, <1>2 DEF DbType, Balance, Row
<1>. DEFINE S == Done(w)
<1>. HIDE DEF S
<1>7. CASE o.row.status # "PROCESSED"
  <2>1. wallet'[w] = wallet[w] /\ Done(w)' = S
    BY <1>1, <1>3, <1>7 DEF Fits, S
  <2>. QED  BY <1>4, <1>5, <2>1 DEF Frozen, S
<1>8. CASE o.row.status = "PROCESSED"
  <2>1. /\ Done(w)' = S \cup {id} /\ wager'[id].version = wallet'[w].version
        /\ wager'[id].balance = wallet'[w].balance
    BY <1>1, <1>3, <1>8 DEF Fits, S
  <2>2. \/ wallet'[w] = wallet[w]
        \/ wallet'[w].version = wallet[w].version + 1
    BY <1>1 DEF Fits
  <2>3. \A t \in S : /\ wager'[t].version <= wallet'[w].version
                     /\ wager'[t].version = wallet'[w].version =>
                          wager'[t].balance = wallet'[w].balance
    <3>. SUFFICES ASSUME NEW t \in S
                  PROVE  /\ wager[t].version <= wallet'[w].version
                         /\ wager[t].version = wallet'[w].version =>
                              wager[t].balance = wallet'[w].balance
      BY <1>4 DEF S
    <3>1. /\ wager[t].version <= wallet[w].version /\ wager[t].version \in Nat
          /\ wager[t].version = wallet[w].version => wager[t].balance = wallet[w].balance
      BY <1>5, <1>6 DEF S
    <3>2. CASE wallet'[w] = wallet[w]
      BY <3>1, <3>2
    <3>3. CASE wallet'[w].version = wallet[w].version + 1
      BY <1>6, <3>1, <3>3
    <3>. QED  BY <2>2, <3>2, <3>3
  <2>4. wallet'[w].version \in Nat
    BY <1>6, <2>2
  <2>5. \A t \in S \cup {id} : /\ wager'[t].version <= wallet'[w].version
                               /\ wager'[t].version = wallet'[w].version =>
                                    wager'[t].balance = wallet'[w].balance
    BY <2>1, <2>3, <2>4
  <2>6. \E t \in S \cup {id} : wager'[t].version = wallet'[w].version
    BY <2>1
  <2>. QED  BY <2>1, <2>5, <2>6 DEF Frozen
<1>. QED  BY <1>7, <1>8

\* The events after the record: first the event of the wager, if there is one, then that of
\* the balance, if it moved.
Tells(id, w, o, e, f) ==
  LET m == Len(outbox[w]) IN
  /\ m \in Nat /\ DOMAIN outbox[w] = 1 .. m
  /\ \A i \in 1 .. m : outbox'[w][i] = outbox[w][i]
  /\ e.type = o.row.status /\ e.tx = id
  /\ e.balance = o.row.balance /\ e.version = o.row.version
  /\ f.type = "BALANCE" /\ f.tx = id
  /\ f.balance = o.wallet.balance /\ f.version = o.wallet.version
  /\ \/ DOMAIN outbox'[w] = 1 .. m /\ o.row.status = "PENDING_REFERENCE" /\ o.dir = "NONE"
     \/ DOMAIN outbox'[w] = 1 .. m + 1 /\ outbox'[w][m + 1] = e /\ o.dir = "NONE"
     \/ /\ DOMAIN outbox'[w] = 1 .. m + 2 /\ outbox'[w][m + 1] = e /\ outbox'[w][m + 2] = f
        /\ o.dir # "NONE"

\* A record tells the wager and, if money moved, the balance.
LEMMA OutboxAfter ==
  ASSUME DbType, NEW id, NEW w, NEW o, Fits(id, w, o), Posts(id, w, o)
  PROVE  \E e, f : Tells(id, w, o, e, f)
<1>. DEFINE s == outbox[w]
            m == Len(s)
            e == [type |-> o.row.status, tx |-> id, balance |-> o.row.balance,
                  version |-> o.row.version]
            f == [type |-> "BALANCE", tx |-> id, balance |-> o.wallet.balance,
                  version |-> o.wallet.version]
<1>1. s \in Seq(Event)
  BY DEF DbType, Fits
<1>2. outbox'[w] = s \o o.events
  BY DEF Posts
<1>3. /\ e.type = o.row.status /\ e.tx = id
      /\ e.balance = o.row.balance /\ e.version = o.row.version
      /\ f.type = "BALANCE" /\ f.tx = id
      /\ f.balance = o.wallet.balance /\ f.version = o.wallet.version
  OBVIOUS
<1>4. \/ o.events = <<>> /\ o.row.status = "PENDING_REFERENCE" /\ o.dir = "NONE"
      \/ o.events = <<e>> /\ o.dir = "NONE"
      \/ o.events = <<e, f>> /\ o.dir # "NONE"
  <2>1. CASE o.events = <<>> /\ o.row.status = "PENDING_REFERENCE"
    BY <2>1 DEF Fits
  <2>2. CASE o.events = WriteEvents(id, o.row, o.wallet, o.dir)
    <3>1. WriteEvents(id, o.row, o.wallet, o.dir) =
            IF o.dir = "NONE" THEN <<e>> ELSE <<e, f>>
      BY DEF WriteEvents
    <3>. QED  BY <2>2, <3>1
  <2>. QED  BY <2>1, <2>2 DEF Fits
<1>. HIDE DEF s, e, f
<1>5. m \in Nat /\ DOMAIN s = 1 .. m
  BY <1>1
<1>6. CASE o.events = <<>> /\ o.row.status = "PENDING_REFERENCE" /\ o.dir = "NONE"
  <2>1. s \o <<>> = s
    BY <1>1
  <2>2. outbox'[w] = s
    BY <1>2, <1>6, <2>1
  <2>3. Tells(id, w, o, e, f)
    BY <1>3, <1>5, <1>6, <2>2 DEF Tells, s
  <2>. QED  BY <2>3
<1>7. CASE o.events = <<e>> /\ o.dir = "NONE"
  <2>1. /\ DOMAIN (s \o <<e>>) = 1 .. m + 1 /\ (s \o <<e>>)[m + 1] = e
        /\ \A i \in 1 .. m : (s \o <<e>>)[i] = s[i]
    BY <1>1, <1>5
  <2>2. outbox'[w] = s \o <<e>>
    BY <1>2, <1>7
  <2>3. Tells(id, w, o, e, f)
    BY <1>3, <1>5, <1>7, <2>1, <2>2 DEF Tells, s
  <2>. QED  BY <2>3
<1>8. CASE o.events = <<e, f>> /\ o.dir # "NONE"
  <2>1. /\ DOMAIN (s \o <<e, f>>) = 1 .. m + 2 /\ (s \o <<e, f>>)[m + 1] = e
        /\ (s \o <<e, f>>)[m + 2] = f
        /\ \A i \in 1 .. m : (s \o <<e, f>>)[i] = s[i]
    BY <1>1, <1>5
  <2>2. outbox'[w] = s \o <<e, f>>
    BY <1>2, <1>8
  <2>3. Tells(id, w, o, e, f)
    BY <1>3, <1>5, <1>8, <2>1, <2>2 DEF Tells, s
  <2>. QED  BY <2>3
<1>. QED  BY <1>4, <1>6, <1>7, <1>8

\* The places of the outbox: old ones, one for the wager, one for the balance.
LEMMA OutboxPlaces ==
  ASSUME NEW id, NEW w, NEW o, NEW e, NEW f, Tells(id, w, o, e, f)
  PROVE  LET m == Len(outbox[w])
             D == DOMAIN outbox'[w]
         IN /\ 1 .. m \subseteq D
            /\ \A i \in D : \/ i \in 1 .. m /\ outbox'[w][i] = outbox[w][i]
                            \/ i = m + 1 /\ outbox'[w][i] = e
                            \/ i = m + 2 /\ outbox'[w][i] = f /\ o.dir # "NONE"
            /\ o.row.status # "PENDING_REFERENCE" => m + 1 \in D /\ outbox'[w][m + 1] = e
            /\ o.dir # "NONE" => m + 2 \in D /\ outbox'[w][m + 2] = f
<1>. DEFINE m == Len(outbox[w])
            D == DOMAIN outbox'[w]
<1>1. m \in Nat /\ \A i \in 1 .. m : outbox'[w][i] = outbox[w][i]
  BY DEF Tells
<1>2. CASE D = 1 .. m /\ o.row.status = "PENDING_REFERENCE" /\ o.dir = "NONE"
  BY <1>1, <1>2
<1>3. CASE D = 1 .. m + 1 /\ outbox'[w][m + 1] = e /\ o.dir = "NONE"
  <2>1. \A i \in 1 .. m + 1 : i \in 1 .. m \/ i = m + 1
    BY <1>1
  <2>2. 1 .. m \subseteq 1 .. m + 1 /\ m + 1 \in 1 .. m + 1
    BY <1>1
  <2>. QED  BY <1>1, <1>3, <2>1, <2>2
<1>4. CASE /\ D = 1 .. m + 2 /\ outbox'[w][m + 1] = e /\ outbox'[w][m + 2] = f
           /\ o.dir # "NONE"
  <2>1. \A i \in 1 .. m + 2 : i \in 1 .. m \/ i = m + 1 \/ i = m + 2
    BY <1>1
  <2>2. 1 .. m \subseteq 1 .. m + 2 /\ m + 1 \in 1 .. m + 2 /\ m + 2 \in 1 .. m + 2
    BY <1>1
  <2>. QED  BY <1>1, <1>4, <2>1, <2>2
<1>. QED  BY <1>2, <1>3, <1>4 DEF Tells

\* The terminal events of the wallet.
LEMMA ToldStep ==
  ASSUME DbType, NEW id, NEW w, NEW o, Fits(id, w, o), Posts(id, w, o), Told(w)
  PROVE  Told(w)'
<1>. DEFINE m == Len(outbox[w])
            D == DOMAIN outbox'[w]
            x(i) == outbox'[w][i]
<1>1. /\ id \in TxIds /\ ~Terminal(wager[id].status) /\ wager'[id] = o.row
      /\ o.row.cmd.wallet = w /\ o.row.status \in TerminalStates \cup {"PENDING_REFERENCE"}
      /\ Exists(id) => wager[id].cmd = o.row.cmd
      /\ \A t \in TxIds \ {id} : wager'[t] = wager[t]
  BY DEF Fits, Posts
<1>2. PICK e, f : Tells(id, w, o, e, f)
  BY OutboxAfter
<1>3. /\ m \in Nat /\ DOMAIN outbox[w] = 1 .. m
      /\ e.type = o.row.status /\ e.tx = id
      /\ e.balance = o.row.balance /\ e.version = o.row.version
      /\ f.type = "BALANCE" /\ f.tx = id
  BY <1>2 DEF Tells
<1>4. /\ 1 .. m \subseteq D
      /\ \A i \in D : \/ i \in 1 .. m /\ x(i) = outbox[w][i]
                      \/ i = m + 1 /\ x(i) = e
                      \/ i = m + 2 /\ x(i) = f
      /\ o.row.status # "PENDING_REFERENCE" => m + 1 \in D /\ x(m + 1) = e
  BY <1>2, OutboxPlaces
<1>5. ~Terminal(f.type) /\ ~Terminal("PENDING_REFERENCE") /\ o.row.status # "NONE"
  BY <1>1, <1>3 DEF Terminal, TerminalStates
<1>6. ASSUME NEW i \in 1 .. m
      PROVE  LET y == outbox[w][i] IN
             /\ y.tx \in TxIds /\ wager[y.tx].status # "NONE" /\ wager[y.tx].cmd.wallet = w
             /\ Terminal(y.type) =>
                  /\ y.type = wager[y.tx].status /\ y.balance = wager[y.tx].balance
                  /\ y.version = wager[y.tx].version /\ y.tx # id
  BY <1>1, <1>3 DEF Told, Exists, Present
<1>. HIDE DEF m
<1>7. ASSUME NEW i \in D
      PROVE  /\ x(i).tx \in TxIds /\ wager'[x(i).tx].status # "NONE"
             /\ wager'[x(i).tx].cmd.wallet = w
             /\ Terminal(x(i).type) =>
                  /\ x(i).type = wager'[x(i).tx].status /\ x(i).balance = wager'[x(i).tx].balance
                  /\ x(i).version = wager'[x(i).tx].version
  <2>1. CASE i \in 1 .. m /\ x(i) = outbox[w][i]
    BY <1>1, <1>5, <1>6, <2>1
  <2>2. CASE x(i) = e
    BY <1>1, <1>3, <1>5, <2>2
  <2>3. CASE x(i) = f
    BY <1>1, <1>3, <1>5, <2>3
  <2>. QED  BY <1>4, <2>1, <2>2, <2>3
<1>8. ASSUME NEW i \in D, Terminal(x(i).type)
      PROVE  \/ i \in 1 .. m /\ x(i) = outbox[w][i] /\ x(i).tx # id
             \/ i = m + 1 /\ x(i).tx = id
  BY <1>3, <1>4, <1>5, <1>6, <1>8
<1>9. ASSUME NEW i \in D, NEW j \in D, Terminal(x(i).type), Terminal(x(j).type),
             x(i).tx = x(j).tx
      PROVE  i = j
  <2>1. CASE x(i).tx = id
    BY <1>8, <1>9, <2>1
  <2>2. CASE x(i).tx # id
    <3>1. /\ i \in 1 .. m /\ x(i) = outbox[w][i] /\ j \in 1 .. m /\ x(j) = outbox[w][j]
      BY <1>8, <1>9, <2>2
    <3>. QED  BY <1>3, <1>9, <3>1 DEF Told
  <2>. QED  BY <2>1, <2>2
<1>10. ASSUME NEW t \in TxIds, Terminal(wager'[t].status), wager'[t].cmd.wallet = w
       PROVE  \E i \in D : x(i).tx = t /\ Terminal(x(i).type)
  <2>1. CASE t = id
    BY <1>1, <1>3, <1>4, <1>5, <1>10, <2>1
  <2>2. CASE t # id
    <3>1. PICK i \in 1 .. m : outbox[w][i].tx = t /\ Terminal(outbox[w][i].type)
      BY <1>1, <1>3, <1>10, <2>2 DEF Told
    <3>2. i \in D /\ x(i) = outbox[w][i]
      BY <1>2, <1>4 DEF Tells, m
    <3>. QED  BY <3>1, <3>2
  <2>. QED  BY <2>1, <2>2
<1>11. \A t \in TxIds : Exists(t)' <=> wager'[t].status # "NONE"
  BY DEF Exists, Present
<1>. QED  BY <1>7, <1>9, <1>10, <1>11 DEF Told, Exists, Present, Terminal

\* The balance events of the wallet.
LEMMA PairedStep ==
  ASSUME DbType, NEW id, NEW w, NEW o, Fits(id, w, o), Posts(id, w, o), Paired(w)
  PROVE  Paired(w)'
<1>. DEFINE m == Len(outbox[w])
            n == Len(ledger[w])
            u == Unmoved(w)
            D == DOMAIN outbox'[w]
            x(i) == outbox'[w][i]
            moves == {i \in 1 .. m : outbox[w][i].type = "BALANCE"}
            moves2 == {i \in D : x(i).type = "BALANCE"}
<1>1. u \in Nat
  BY DEF Unmoved
<1>2. PICK e, f : Tells(id, w, o, e, f)
  BY OutboxAfter
<1>3. /\ m \in Nat /\ DOMAIN outbox[w] = 1 .. m /\ e.type = o.row.status
      /\ f.type = "BALANCE" /\ f.tx = id /\ f.balance = o.wallet.balance
      /\ f.version = o.wallet.version
      /\ \A i \in 1 .. m : x(i) = outbox[w][i]
  BY <1>2 DEF Tells
<1>4. /\ 1 .. m \subseteq D
      /\ \A i \in D : \/ i \in 1 .. m
                      \/ i = m + 1 /\ x(i) = e
                      \/ i = m + 2 /\ x(i) = f /\ o.dir # "NONE"
      /\ o.dir # "NONE" => m + 2 \in D /\ x(m + 2) = f
  BY <1>2, OutboxPlaces
<1>5. e.type # "BALANCE"
  BY <1>3 DEF Fits, TerminalStates
<1>6. moves2 = IF o.dir = "NONE" THEN moves ELSE moves \cup {m + 2}
  BY <1>3, <1>4, <1>5
<1>7. /\ \A i \in moves : /\ x(i).version - u \in DOMAIN ledger[w]
                          /\ x(i).tx = ledger[w][x(i).version - u].tx
                          /\ x(i).balance = ledger[w][x(i).version - u].after
      /\ \A k \in DOMAIN ledger[w] : \E i \in moves : x(i).version = k + u
      /\ \A i, j \in moves : i < j => x(i).version < x(j).version
  BY <1>3 DEF Paired
<1>8. outbox[w] \in Seq(Event) /\ n \in Nat /\ DOMAIN ledger[w] = 1 .. n
  BY DEF DbType, Fits
<1>9. \A i \in moves : x(i).version \in Nat
  <2>1. ASSUME NEW i \in 1 .. m  PROVE  outbox[w][i] \in Event
    BY <1>3, <1>8, <2>1
  <2>2. \A y \in Event : y.version \in Nat
    BY DEF Event
  <2>. QED  BY <1>3, <2>1, <2>2
<1>10. \A i \in moves : i \in 1 .. m
  OBVIOUS
<1>. HIDE DEF m, n, u, D, moves
<1>11. CASE o.dir = "NONE"
  <2>1. ledger'[w] = ledger[w] /\ moves2 = moves
    BY <1>6, <1>11 DEF Posts
  <2>. HIDE DEF moves2
  <2>. QED  BY <1>7, <2>1 DEF Paired, moves2, u, D, Unmoved
<1>12. CASE o.dir # "NONE"
  <2>1. /\ DOMAIN ledger'[w] = 1 .. n + 1
        /\ \A i \in 1 .. n : ledger'[w][i] = ledger[w][i]
        /\ ledger'[w][n + 1].tx = id /\ ledger'[w][n + 1].after = o.wallet.balance
    BY <1>12, LedgerAfter DEF n
  <2>2. x(m + 2) = f /\ f.version = n + u + 1 /\ moves2 = moves \cup {m + 2}
    BY <1>3, <1>4, <1>6, <1>12 DEF Fits, n, u
  <2>. HIDE DEF moves2
  <2>3. \A i \in moves2 : i \in moves \/ i = m + 2
    BY <2>2
  <2>4. ASSUME NEW i \in moves2
        PROVE  /\ x(i).version - u \in 1 .. n + 1
               /\ x(i).tx = ledger'[w][x(i).version - u].tx
               /\ x(i).balance = ledger'[w][x(i).version - u].after
    <3>1. CASE i \in moves
      <4>1. x(i).version - u \in 1 .. n
        BY <1>7, <1>8, <3>1
      <4>2. x(i).version - u \in 1 .. n + 1
        BY <1>8, <4>1
      <4>. QED  BY <1>7, <2>1, <3>1, <4>1, <4>2
    <3>2. CASE i = m + 2
      <4>1. x(i).version - u = n + 1
        BY <1>1, <1>8, <2>2, <3>2
      <4>2. n + 1 \in 1 .. n + 1
        BY <1>8
      <4>. QED  BY <1>3, <2>1, <2>2, <3>2, <4>1, <4>2
    <3>. QED  BY <2>3, <3>1, <3>2
  <2>5. ASSUME NEW k \in 1 .. n + 1  PROVE  \E i \in moves2 : x(i).version = k + u
    <3>1. CASE k \in 1 .. n
      BY <1>7, <1>8, <2>2, <3>1
    <3>2. CASE k = n + 1
      <4>1. x(m + 2).version = k + u
        BY <1>1, <1>8, <2>2, <3>2
      <4>. QED  BY <2>2, <4>1
    <3>. QED  BY <1>8, <3>1, <3>2
  <2>6. ASSUME NEW i \in moves2, NEW j \in moves2, i < j  PROVE  x(i).version < x(j).version
    <3>1. CASE i \in moves /\ j \in moves
      BY <1>7, <2>6, <3>1
    <3>2. CASE i \in moves /\ j = m + 2
      <4>1. x(i).version - u \in 1 .. n /\ x(i).version \in Nat
        BY <1>7, <1>8, <1>9, <3>2
      <4>2. x(j).version = n + u + 1
        BY <2>2, <3>2
      <4>. QED  BY <1>1, <1>8, <4>1, <4>2
    <3>3. CASE i = m + 2
      BY <1>3, <1>10, <2>3, <2>6, <3>3
    <3>. QED  BY <2>3, <3>1, <3>2, <3>3
  <2>. QED  BY <2>1, <2>4, <2>5, <2>6 DEF Paired, moves2, u, D, Unmoved
<1>. QED  BY <1>11, <1>12

(***************************************************************************)
(* Reversals.  A reversal moves the amount of what it reverses, in the     *)
(* other direction; with OneReversal, a bet or a win, its reversal and the *)
(* reversal of that one add up to the bet or the win, or to nothing.       *)
(***************************************************************************)
\* A processed reversal is of the amount of what it reverses.
Repaid ==
  \A u \in TxIds : wager[u].status = "PROCESSED" /\ wager[u].cmd.kind \in Reversals =>
    wager[wager[u].refId].cmd.amount = wager[u].cmd.amount

\* Every entry goes in the direction that its wager's kind, and that of its reference, say.
Heading(kind, refKind) == IF kind = "OPENING" THEN "CREDIT" ELSE DirectionOf(kind, refKind)
HeadingIn(rows, t) ==
  Heading(rows[t].cmd.kind,
          IF rows[t].refId = 0 THEN "OPENING" ELSE rows[rows[t].refId].cmd.kind)
Directed(w) ==
  \A i \in DOMAIN ledger[w] : ledger[w][i].dir = HeadingIn(wager, ledger[w][i].tx)

NetInv == Repaid /\ \A w \in Wallets : Directed(w)

\* What an outcome must be like for that.
Repays(id, o) ==
  /\ o.row.refId \in (TxIds \ {id}) \cup {0}
  /\ o.row.status = "PROCESSED" /\ o.row.cmd.kind \in Reversals =>
       o.row.refId # 0 /\ wager[o.row.refId].cmd.amount = o.row.cmd.amount
  /\ o.dir # "NONE" => o.dir = Heading(o.row.cmd.kind, RefKind(o.row))

\* The reference of a processed row is a processed row.
LEMMA ReferenceFixed ==
  ASSUME DbType, RowsSound, NEW t \in TxIds, wager[t].status = "PROCESSED"
  PROVE  /\ wager[t].refId # 0 =>
              wager[t].refId \in TxIds /\ wager[wager[t].refId].status = "PROCESSED"
         /\ wager[t].refId # 0 =>
              MayRefer(wager[t].cmd.kind, wager[wager[t].refId].cmd.kind)
         /\ wager[t].cmd.kind \in Reversals => wager[t].refId # 0
<1>1. Readable(wager[t])
  BY DEF RowsSound, Exists, Present
<1>2. Backed(wager[t]) /\ ValidWager(wager[t])
  BY <1>1 DEF Readable
<1>3. wager[t].refId \in TxIds \cup {0}
  BY DEF DbType, Row
<1>4. wager[t].cmd.kind \in Reversals => wager[t].refId # 0
  <2>. SUFFICES ASSUME wager[t].cmd.kind \in Reversals  PROVE  wager[t].refId # 0
    OBVIOUS
  <2>1. wager[t].cmd.kind # "OPENING"
    BY DEF Reversals
  <2>2. NormalizeCommand(wager[t].cmd) = "" /\ (wager[t].cmd.ref # "" => wager[t].refId # 0)
    BY <1>2, <2>1 DEF ValidWager
  <2>3. wager[t].cmd.ref # ""
    BY <2>2, NormalFacts
  <2>. QED  BY <2>2, <2>3
<1>. QED  BY <1>2, <1>3, <1>4 DEF Backed

\* A record keeps it so.
LEMMA RecordNets ==
  ASSUME DbType, RowsSound, AuditInv, NetInv, NEW id, NEW w, NEW o, Fits(id, w, o),
         Repays(id, o), Serial!Record(id, w, o)
  PROVE  NetInv'
<1>1. /\ id \in TxIds /\ w \in Wallets /\ ~Terminal(wager[id].status)
  BY DEF Fits
<1>2. Posts(id, w, o)
  BY <1>1, RecordPosts
<1>3. wager'[id] = o.row /\ \A t \in TxIds \ {id} : wager'[t] = wager[t]
  BY <1>2 DEF Posts
<1>4. wager[id].status # "PROCESSED"
  BY <1>1 DEF Terminal, TerminalStates
<1>5. ASSUME NEW t \in TxIds, wager[t].status = "PROCESSED"
      PROVE  /\ wager'[t] = wager[t]
             /\ wager[t].refId # 0 => wager'[wager[t].refId] = wager[wager[t].refId]
  BY <1>3, <1>4, <1>5, ReferenceFixed
<1>6. Repaid'
  <2>. SUFFICES ASSUME NEW u \in TxIds, wager'[u].status = "PROCESSED",
                       wager'[u].cmd.kind \in Reversals
                PROVE  wager'[wager'[u].refId].cmd.amount = wager'[u].cmd.amount
    BY DEF Repaid
  <2>1. CASE u = id
    <3>1. /\ o.row.refId \in TxIds \ {id}
          /\ wager[o.row.refId].cmd.amount = o.row.cmd.amount
      BY <1>3, <2>1 DEF Repays
    <3>. QED  BY <1>3, <2>1, <3>1
  <2>2. CASE u # id
    <3>1. wager'[u] = wager[u] /\ wager[u].status = "PROCESSED"
      BY <1>3, <2>2
    <3>2. wager[u].refId # 0
      BY <3>1, ReferenceFixed
    <3>3. wager[wager[u].refId].cmd.amount = wager[u].cmd.amount
      BY <3>1 DEF NetInv, Repaid
    <3>. QED  BY <1>5, <3>1, <3>2, <3>3
  <2>. QED  BY <2>1, <2>2
<1>7. ASSUME NEW t \in TxIds, wager[t].status = "PROCESSED"
      PROVE  HeadingIn(wager', t) = HeadingIn(wager, t)
  BY <1>5, <1>7 DEF HeadingIn
<1>8. ASSUME NEW v \in Wallets, NEW i \in DOMAIN ledger[v]
      PROVE  ledger[v][i].dir = HeadingIn(wager', ledger[v][i].tx)
  <2>. DEFINE t == ledger[v][i].tx
  <2>1. t \in TxIds /\ wager[t].status = "PROCESSED"
    BY DEF AuditInv, Audited, Entered, Moved
  <2>2. ledger[v][i].dir = HeadingIn(wager, t)
    BY DEF NetInv, Directed
  <2>. QED  BY <1>7, <2>1, <2>2
<1>9. ASSUME NEW v \in Wallets, ledger'[v] = ledger[v]  PROVE  Directed(v)'
  BY <1>8, <1>9 DEF Directed
<1>10. Directed(w)'
  <2>1. CASE o.dir = "NONE"
    BY <1>1, <1>2, <1>9, <2>1 DEF Posts
  <2>2. CASE o.dir # "NONE"
    <3>. DEFINE n == Len(ledger[w])
    <3>1. /\ n \in Nat /\ DOMAIN ledger[w] = 1 .. n /\ DOMAIN ledger'[w] = 1 .. n + 1
          /\ \A i \in 1 .. n : ledger'[w][i] = ledger[w][i]
          /\ ledger'[w][n + 1].tx = id
      BY <1>2, <2>2, LedgerAfter
    <3>2. ledger'[w][n + 1].dir = o.dir
      <4>1. ledger'[w] = Append(ledger[w], LedgerEntry(id, o, wallet[w]))
        BY <1>2, <2>2 DEF Posts
      <4>2. ledger[w] \in Seq(Entry)
        BY <1>1 DEF DbType
      <4>3. ledger'[w][n + 1] = LedgerEntry(id, o, wallet[w])
        BY <4>1, <4>2
      <4>. QED  BY <4>3 DEF LedgerEntry
    <3>3. o.dir = HeadingIn(wager', id)
      <4>1. /\ o.row.refId = 0 \/ o.row.refId \in TxIds \ {id}
            /\ o.dir = Heading(o.row.cmd.kind, RefKind(o.row))
        BY <2>2 DEF Repays
      <4>2. o.row.refId # 0 => wager'[o.row.refId] = wager[o.row.refId]
        BY <1>3, <4>1
      <4>. QED  BY <1>3, <4>1, <4>2 DEF HeadingIn, RefKind
    <3>. HIDE DEF n
    <3>4. ASSUME NEW i \in 1 .. n + 1
          PROVE  ledger'[w][i].dir = HeadingIn(wager', ledger'[w][i].tx)
      <4>1. CASE i \in 1 .. n
        BY <1>1, <1>8, <3>1, <4>1
      <4>2. CASE i = n + 1
        BY <3>1, <3>2, <3>3, <4>2
      <4>. QED  BY <3>1, <4>1, <4>2
    <3>. QED  BY <3>1, <3>4 DEF Directed
  <2>. QED  BY <2>1, <2>2
<1>11. \A v \in Wallets : Directed(v)'
  BY <1>2, <1>9, <1>10 DEF Posts
<1>. QED  BY <1>6, <1>11 DEF NetInv

\* A record keeps the books.
LEMMA RecordAudits ==
  ASSUME DbType, AuditInv, NEW id, NEW w, NEW o, Fits(id, w, o), Serial!Record(id, w, o)
  PROVE  AuditInv'
<1>1. id \in TxIds /\ w \in Wallets
  BY DEF Fits
<1>2. Posts(id, w, o)
  BY <1>1, RecordPosts
<1>3. \A v \in Wallets : Audited(v)
  BY DEF AuditInv
<1>4. Audited(w)'
  <2>1. Entered(w) /\ Frozen(w) /\ Told(w) /\ Paired(w)
    BY <1>1, <1>3 DEF Audited
  <2>. QED  BY <1>2, <2>1, EnteredStep, ResultsStep, ToldStep, PairedStep DEF Audited
<1>5. \A v \in Wallets : v # w => Audited(v)'
  BY <1>2, <1>3, OthersAudited
<1>6. \A v \in Wallets : Audited(v)'
  BY <1>4, <1>5
<1>. QED  BY <1>6 DEF AuditInv

Books == AuditInv /\ NetInv

\* What may be recorded: it fits the books, and pays back what it reverses.
LEMMA RecordBooks ==
  ASSUME IndInv, CommandInv, Books, NEW id, NEW w, NEW o, Fits(id, w, o), Repays(id, o),
         Serial!Record(id, w, o)
  PROVE  Books'
<1>1. DbType /\ RowsSound
  BY TypeParts DEF IndInv, CommandInv
<1>. QED  BY <1>1, RecordAudits, RecordNets DEF Books

\* The version of a wallet that exists is what its entries have made of it.
LEMMA VersionCounts ==
  ASSUME LedgerChain, NEW w \in Wallets, wallet[w].version > 0
  PROVE  wallet[w].version = Len(ledger[w]) + Unmoved(w)
BY DEF LedgerChain, Unmoved

\* What Outcome writes can be recorded.
LEMMA OutcomeFits ==
  ASSUME IndInv, NEW id \in TxIds, ~Terminal(wager[id].status), NEW row \in Row,
         Undecided(row), Exists(id) => wager[id].cmd = row.cmd,
         NEW w \in Wallets, row.cmd.wallet = w, wallet[w].version > 0,
         NEW ref \in Seen, NEW reversed, NEW expired \in BOOLEAN
  PROVE  Fits(id, w, Outcome(id, row, wallet[w], ref, reversed, expired))
<1>. DEFINE o == Outcome(id, row, wallet[w], ref, reversed, expired)
<1>1. DbType /\ LedgerChain
  BY TypeParts DEF IndInv
<1>2. wallet[w] \in Balance
  BY <1>1 DEF DbType
<1>3. o \in Out /\ Moves(o, wallet[w])
  BY <1>2, OutcomeSound
<1>4. Ruling(o, id, row, ref, reversed)
  BY <1>2, OutcomeJudged
<1>5. \/ o.events = WriteEvents(id, o.row, o.wallet, o.dir)
      \/ o.events = <<>> /\ o.row.status = "PENDING_REFERENCE"
  BY DEF Outcome
<1>. HIDE DEF o
<1>6. row.cmd.kind \in ExternalKinds
  BY NormalFacts DEF Undecided
<1>7. DirectionOf(row.cmd.kind, ref.row.cmd.kind) = "NONE" <=> row.cmd.kind = "LOSS"
  BY <1>6 DEF DirectionOf, ExternalKinds
<1>8. /\ o.row.cmd = row.cmd /\ o.row.status \in TerminalStates \cup {"PENDING_REFERENCE"}
      /\ o.row.status # "PROCESSED" => o.dir = "NONE"
      /\ o.row.status = "PROCESSED" =>
           /\ o.row.balance = o.wallet.balance /\ o.row.version = o.wallet.version
           /\ o.dir = "NONE" <=> o.row.cmd.kind = "LOSS"
  BY <1>4, <1>7 DEF Ruling, TerminalStates
<1>9. /\ o.dir = "NONE" => o.wallet = wallet[w]
      /\ o.dir # "NONE" => o.wallet.version = wallet[w].version + 1
  BY <1>3 DEF Moves
<1>10. wallet[w].version = Len(ledger[w]) + Unmoved(w)
  BY <1>1, VersionCounts
<1>. QED  BY <1>5, <1>8, <1>9, <1>10 DEF Fits, o

\* It pays back what it reverses.
LEMMA OutcomeRepays ==
  ASSUME NEW id \in TxIds, NEW row \in Row, Undecided(row), NEW w \in Balance, w.version > 0,
         NEW ref \in Seen,
         \/ ref = NoSeen
         \/ row.cmd.ref # "" /\ ref.id \in TxIds /\ (ref.id # id => ref.row = wager[ref.id]),
         NEW reversed, NEW expired \in BOOLEAN
  PROVE  Repays(id, Outcome(id, row, w, ref, reversed, expired))
<1>. DEFINE o == Outcome(id, row, w, ref, reversed, expired)
<1>1. Ruling(o, id, row, ref, reversed)
  BY OutcomeJudged
<1>. HIDE DEF o
<1>2. row.cmd.kind # "OPENING" /\ (row.cmd.kind \in Reversals => row.cmd.ref # "")
  BY NormalFacts DEF Undecided
<1>3. CASE o.row.status # "PROCESSED"
  BY <1>1, <1>3 DEF Ruling, Repays, o
<1>4. CASE o.row.status = "PROCESSED"
  <2>1. /\ o.row.refId = ref.id /\ o.row.cmd = row.cmd
        /\ o.dir = DirectionOf(row.cmd.kind, ref.row.cmd.kind)
        /\ row.cmd.ref # "" => Backs(id, row.cmd, ref, reversed)
    BY <1>1, <1>4 DEF Ruling
  <2>2. CASE ref = NoSeen
    <3>1. ref.id = 0 /\ ref.row.cmd.kind = "OPENING"
      BY <2>2 DEF NoSeen, NoRow, NewRow, NoCommand
    <3>2. row.cmd.ref = ""
      BY <2>1, <3>1 DEF Backs
    <3>3. o.dir = Heading(o.row.cmd.kind, RefKind(o.row))
      BY <1>2, <2>1, <3>1 DEF Heading, RefKind
    <3>. QED  BY <1>2, <2>1, <3>1, <3>2, <3>3 DEF Repays, o
  <2>3. CASE /\ row.cmd.ref # "" /\ ref.id \in TxIds
             /\ ref.id # id => ref.row = wager[ref.id]
    <3>1. /\ ref.id # 0 /\ ref.id # id
          /\ row.cmd.kind \in Reversals => ref.row.cmd.amount = row.cmd.amount
      BY <2>1, <2>3 DEF Backs, SameBusiness
    <3>2. o.dir = Heading(o.row.cmd.kind, RefKind(o.row))
      BY <1>2, <2>1, <2>3, <3>1 DEF Heading, RefKind
    <3>. QED  BY <2>1, <2>3, <3>1, <3>2 DEF Repays, o
  <2>. QED  BY <2>2, <2>3
<1>. QED  BY <1>3, <1>4

\* What Failure writes can be recorded.
LEMMA FailureFits ==
  ASSUME IndInv, NEW id \in TxIds, ~Terminal(wager[id].status), NEW row \in Row,
         Undecided(row), Exists(id) => wager[id].cmd = row.cmd,
         NEW w \in Wallets, row.cmd.wallet = w, wallet[w].version > 0
  PROVE  Fits(id, w, Failure(id, row, wallet[w])) /\ Repays(id, Failure(id, row, wallet[w]))
<1>. DEFINE o == Failure(id, row, wallet[w])
<1>1. wallet[w] \in Balance
  BY TypeParts DEF IndInv, DbType
<1>2. o.row.cmd = row.cmd /\ o.row.status = "FAILED"
  BY <1>1, FailureSound
<1>3. o.dir = "NONE" /\ o.wallet = wallet[w]
  BY DEF Failure
<1>4. o.events = WriteEvents(id, o.row, o.wallet, o.dir)
  BY DEF Failure
<1>5. o.row.refId = 0
  BY <1>1, FailureJudged
<1>. HIDE DEF o
<1>6. Fits(id, w, o)
  BY <1>2, <1>3, <1>4 DEF Fits, TerminalStates
<1>7. Repays(id, o)
  BY <1>2, <1>3, <1>5 DEF Repays
<1>. QED  BY <1>6, <1>7 DEF o

\* The reference that a decision uses is a row or none.
LEMMA ReferencesType ==
  ASSUME NEW rows \in [TxIds -> Row], NEW c \in Command, NEW ref \in Serial!References(rows, c)
  PROVE  /\ ref \in Seen
         /\ \/ ref = NoSeen
            \/ c.ref # "" /\ ref.id \in TxIds /\ ref.row = rows[ref.id]
<1>. DEFINE hits == ByExt(rows, [c EXCEPT !.ext = c.ref])
            t == CHOOSE t \in hits : TRUE
<1>1. ref = ReferenceIn(rows, c) \/ ref = NoSeen
  BY SameQueries, SameValues DEF Serial!References
<1>2. ReferenceIn(rows, c) = IF c.ref = "" \/ hits = {} THEN NoSeen
                             ELSE [id |-> t, row |-> rows[t]]
  BY DEF ReferenceIn
<1>3. hits # {} => t \in TxIds
  BY DEF ByExt, Present
<1>. HIDE DEF t, hits
<1>4. CASE ref = NoSeen
  BY <1>4, InitialValues
<1>5. CASE c.ref # "" /\ hits # {} /\ ref = [id |-> t, row |-> rows[t]]
  <2>1. ref \in Seen
    BY <1>3, <1>5 DEF Seen
  <2>2. ref.id = t /\ ref.row = rows[t]
    BY <1>5
  <2>. QED  BY <1>3, <1>5, <2>1, <2>2
<1>. QED  BY <1>1, <1>2, <1>4, <1>5

\* A decision of the serial machine keeps the books.
LEMMA SettledBooks ==
  ASSUME IndInv, CommandInv, Books, NEW id \in TxIds, ~Terminal(wager[id].status),
         NEW rows \in [TxIds -> Row], Undecided(rows[id]),
         \A t \in TxIds \ {id} : rows[t] = wager[t],
         Exists(id) => wager[id].cmd = rows[id].cmd,
         NEW w \in Wallets, rows[id].cmd.wallet = w, wallet[w].version > 0,
         NEW expired \in BOOLEAN, NEW o \in Serial!Settled(rows, id, w, expired),
         Serial!Record(id, w, o)
  PROVE  Books'
<1>1. PICK ref \in Serial!References(rows, rows[id].cmd) :
        o = Serial!Outcome(id, rows[id], wallet[w], ref, Serial!ReversedIn(rows, ref.id),
                           expired)
  BY DEF Serial!Settled
<1>2. o = Outcome(id, rows[id], wallet[w], ref, Serial!ReversedIn(rows, ref.id), expired)
  BY <1>1, SameOutcome
<1>3. rows[id] \in Row /\ rows[id].cmd \in Command
  BY DEF Row
<1>4. /\ ref \in Seen
      /\ \/ ref = NoSeen
         \/ /\ rows[id].cmd.ref # "" /\ ref.id \in TxIds
            /\ ref.id # id => ref.row = wager[ref.id]
  BY <1>3, ReferencesType
<1>5. Fits(id, w, o)
  BY <1>2, <1>3, <1>4, OutcomeFits
<1>6. wallet[w] \in Balance
  BY TypeParts DEF IndInv, DbType
<1>7. Repays(id, o)
  BY <1>2, <1>3, <1>4, <1>6, OutcomeRepays
<1>. QED  BY <1>5, <1>7, RecordBooks

\* Decide.
LEMMA DecideBooks ==
  ASSUME IndInv, CommandInv, Books, NEW r \in Requests, NEW id \in TxIds, Serial!Decide(r, id)
  PROVE  Books'
<1>. DEFINE c == r.cmd
            rows == [wager EXCEPT ![id] = NewRow(c, "PENDING")]
<1>1. DbType
  BY TypeParts DEF IndInv
<1>2. c \in Command /\ c.wallet \in Wallets
  BY RequestsAssumption DEF Request, Command
<1>3. /\ NormalizeCommand(c) = "" /\ AcceptsReference(c)
      /\ wallet[c.wallet].version > 0 /\ wager[id].status = "NONE"
  BY SameChecks DEF Serial!Decide
<1>4. Serial!NewRow(c, "PENDING") = NewRow(c, "PENDING")
  BY DEF Serial!NewRow, NewRow
<1>5. PICK o \in Serial!Settled(rows, id, c.wallet, FALSE) : Serial!Record(id, c.wallet, o)
  BY <1>4 DEF Serial!Decide
<1>6. "PENDING" \in Statuses
  BY DEF Statuses
<1>7. NewRow(c, "PENDING") \in Row /\ NewRow(c, "PENDING").cmd = c
  BY <1>2, <1>6, NewRowType
<1>8. Undecided(NewRow(c, "PENDING"))
  <2>. HIDE DEF c
  <2>. QED  BY <1>3, <1>7 DEF Undecided, NewRow
<1>9. /\ rows \in [TxIds -> Row] /\ rows[id] = NewRow(c, "PENDING")
      /\ \A t \in TxIds \ {id} : rows[t] = wager[t]
  BY <1>1, <1>7 DEF DbType
<1>10. ~Terminal(wager[id].status) /\ ~Exists(id)
  BY <1>3 DEF Terminal, TerminalStates, Exists, Present
<1>. HIDE DEF rows, c
<1>11. Undecided(rows[id]) /\ rows[id].cmd.wallet = c.wallet
  BY <1>7, <1>8, <1>9
<1>. QED  BY <1>2, <1>3, <1>5, <1>9, <1>10, <1>11, SettledBooks

\* Resolve.
LEMMA ResolveBooks ==
  ASSUME IndInv, CommandInv, Books, NEW id \in TxIds, Serial!Resolve(id)
  PROVE  Books'
<1>. DEFINE w == wager[id].cmd.wallet
<1>1. DbType /\ Funded /\ RowsSound
  BY TypeParts DEF IndInv, CommandInv
<1>2. wager[id].status = "PENDING_REFERENCE" /\ wager[id] \in Row /\ w \in Wallets
  BY <1>1 DEF Serial!Resolve, DbType, Row, Command
<1>3. Undecided(wager[id])
  BY <1>1, <1>2, WaitingUndecided
<1>4. wallet[w].version > 0 /\ ~Terminal(wager[id].status)
  BY <1>1, <1>2 DEF Funded, Exists, Present, Terminal, TerminalStates
<1>5. wager \in [TxIds -> Row]
  BY <1>1 DEF DbType
<1>6. CASE Serial!Record(id, w, Serial!Failure(id, wager[id], wallet[w]))
  <2>1. Serial!Failure(id, wager[id], wallet[w]) = Failure(id, wager[id], wallet[w])
    BY SameOutcome
  <2>2. /\ Fits(id, w, Failure(id, wager[id], wallet[w]))
        /\ Repays(id, Failure(id, wager[id], wallet[w]))
    BY <1>2, <1>3, <1>4, FailureFits
  <2>. QED  BY <1>1, <1>6, <2>1, <2>2, RecordBooks
<1>7. ASSUME NEW expired \in BOOLEAN, NEW o \in Serial!Settled(wager, id, w, expired),
             Serial!Record(id, w, o)
      PROVE  Books'
  BY <1>2, <1>3, <1>4, <1>5, <1>7, SettledBooks
<1>. QED  BY <1>6, <1>7 DEF Serial!Resolve

\* Open.
LEMMA OpenBooks ==
  ASSUME IndInv, CommandInv, Books, NEW w \in Wallets, Serial!Open(w)
  PROVE  Books'
<1>1. DbType /\ LedgerChain /\ Funded
  BY TypeParts DEF IndInv
<1>2. wallet[w].version = 0 /\ ledger[w] = <<>>
  BY <1>1 DEF Serial!Open, LedgerChain
<1>3. CASE Accounts[w].initial > 0
  <2>1. PICK id \in TxIds : wager[id].status = "NONE" /\ Serial!Record(id, w, Serial!Opening(id, w))
    BY <1>3 DEF Serial!Open
  <2>. DEFINE o == Opening(id, w)
  <2>2. o = Serial!Opening(id, w)
    BY SameOutcome
  <2>3. /\ o.row.cmd.wallet = w /\ o.row.cmd.kind = "OPENING" /\ o.row.status = "PROCESSED"
        /\ o.row.balance = Accounts[w].initial /\ o.row.version = 1 /\ o.row.refId = 0
    BY <1>3, OpeningReadable
  <2>4. o.wallet.balance = Accounts[w].initial /\ o.wallet.version = 1 /\ o.dir = "CREDIT"
    <3>1. /\ o.wallet = [balance |-> Accounts[w].initial, version |-> 1]
          /\ o.dir = "CREDIT"
      BY OpeningSound
    <3>. HIDE DEF o
    <3>. QED  BY <3>1
  <2>5. o.events = WriteEvents(id, o.row, o.wallet, o.dir)
    BY DEF Opening
  <2>6. ~Terminal(wager[id].status) /\ ~Exists(id)
    BY <2>1 DEF Terminal, TerminalStates, Exists, Present
  <2>7. Len(ledger[w]) = 0 /\ Unmoved(w) = 0
    BY <1>2, <1>3 DEF Unmoved
  <2>. HIDE DEF o
  <2>8. Fits(id, w, o)
    BY <1>2, <2>3, <2>4, <2>5, <2>6, <2>7 DEF Fits, TerminalStates
  <2>9. Repays(id, o)
    BY <2>3, <2>4 DEF Repays, Heading, Reversals
  <2>. QED  BY <2>1, <2>2, <2>8, <2>9, RecordBooks
<1>4. CASE ~(Accounts[w].initial > 0)
  <2>1. /\ wager' = wager /\ ledger' = ledger /\ outbox' = outbox
        /\ \A v \in Wallets \ {w} : wallet'[v] = wallet[v]
    BY <1>1, <1>4 DEF Serial!Open, DbType
  <2>2. Done(w) = {}
    BY <1>1, <1>2 DEF Done, Funded, Exists, Present
  <2>3. \A v \in Wallets : Done(v)' = Done(v)
    BY <2>1 DEF Done
  <2>4. ASSUME NEW v \in Wallets  PROVE  Audited(v)'
    <3>1. Entered(v) /\ Frozen(v) /\ Told(v) /\ Paired(v)
      BY DEF Books, AuditInv, Audited
    <3>2. Entered(v)' /\ Told(v)' /\ Paired(v)'
      BY <2>1, <3>1 DEF Entered, Moved, Told, Exists, Present, Paired
    <3>3. Frozen(v)'
      <4>1. CASE v = w
        BY <2>2, <2>3, <4>1 DEF Frozen
      <4>2. CASE v # w
        BY <2>1, <2>3, <3>1, <4>2 DEF Frozen
      <4>. QED  BY <4>1, <4>2
    <3>. QED  BY <3>2, <3>3 DEF Audited
  <2>5. NetInv'
    BY <2>1 DEF Books, NetInv, Repaid, Directed
  <2>. QED  BY <2>4, <2>5 DEF Books, AuditInv
<1>. QED  BY <1>3, <1>4

\* Every step of the store is one of the serial machine, and those keep the books.
LEMMA BooksStep == IndInv /\ CommandInv /\ SerialInv /\ Books /\ [Next]_vars => Books'
<1>. SUFFICES ASSUME IndInv, CommandInv, Books, [Serial!Next]_(Serial!vars)
              PROVE  Books'
  BY RefineStep
<1>1. CASE UNCHANGED <<wallet, ledger, wager, outbox>>
  <2>1. \A w \in Wallets : Done(w)' = Done(w)
    BY <1>1 DEF Done
  <2>. QED
    BY <1>1, <2>1 DEF Books, AuditInv, Audited, Entered, Moved, Frozen, Told, Exists, Present,
                      Paired, NetInv, Repaid, Directed
<1>2. CASE UNCHANGED Serial!vars
  BY <1>1, <1>2 DEF Serial!vars
<1>3. ASSUME NEW w \in Wallets, Serial!Open(w)  PROVE  Books'
  BY <1>3, OpenBooks
<1>4. ASSUME NEW r \in Requests, NEW id \in TxIds, Serial!Decide(r, id)  PROVE  Books'
  BY <1>4, DecideBooks
<1>5. ASSUME NEW r \in Requests, NEW id \in TxIds, Serial!Repeat(r, id)  PROVE  Books'
  BY <1>1, <1>5 DEF Serial!Repeat
<1>6. ASSUME NEW id \in TxIds, Serial!Resolve(id)  PROVE  Books'
  BY <1>6, ResolveBooks
<1>. QED  BY <1>2, <1>3, <1>4, <1>5, <1>6, SameValues DEF Serial!Next

\* Empty tables agree.
LEMMA BooksInit == Init => Books
<1>. SUFFICES ASSUME Init  PROVE  Books
  OBVIOUS
<1>1. \A w \in Wallets : DOMAIN ledger[w] = {} /\ DOMAIN outbox[w] = {}
  <2>1. \A w \in Wallets : ledger[w] = <<>> /\ outbox[w] = <<>>
    BY DEF Init
  <2>. QED  BY <2>1
<1>2. \A t \in TxIds : wager[t].status = "NONE"
  BY DEF Init, NoRow, NewRow
<1>3. \A t \in TxIds : ~Moved(t) /\ ~Terminal(wager[t].status)
  BY <1>2 DEF Moved, Terminal, TerminalStates
<1>4. \A w \in Wallets : Done(w) = {}
  BY <1>2 DEF Done
<1>5. \A w \in Wallets : Audited(w) /\ Directed(w)
  BY <1>1, <1>3, <1>4 DEF Audited, Entered, Frozen, Told, Paired, Directed
<1>6. Repaid
  BY <1>2 DEF Repaid
<1>. QED  BY <1>5, <1>6 DEF Books, AuditInv, NetInv

\* The wagers, the ledger, the wallets and the outbox agree at all times, wallet by wallet:
\* the entries are those of the wagers that moved money, the frozen results end in the wallet,
\* the events are those of the terminal wagers and of the entries, and a reversal is of the
\* amount of what it reverses.
THEOREM BooksCorrect == Spec => []Books
BY BooksInit, BooksStep, Inductive, CommandsCorrect, DecisionsStand, PTL DEF Spec

\* The books give each movement its entry.
LEMMA EntriesOnce ==
  ASSUME IndInv, Books
  PROVE  OneEntryPerMovement
<1>. SUFFICES ASSUME NEW t \in TxIds, wager[t].status # "NONE"
              PROVE  IF Moved(t)
                     THEN \E e \in Entries(t) :
                            /\ Entries(t) = {e} /\ e[1] = wager[t].cmd.wallet
                            /\ ledger[e[1]][e[2]].amount = wager[t].cmd.amount
                     ELSE Entries(t) = {}
  BY DEF OneEntryPerMovement, Present, Moved
<1>1. \A v \in Wallets : Entered(v)
  BY DEF Books, AuditInv, Audited
<1>2. \A e : e \in Entries(t) <=>
        \E v \in Wallets : \E i \in DOMAIN ledger[v] : e = <<v, i>> /\ ledger[v][i].tx = t
  BY DEF Entries
<1>3. ASSUME NEW v \in Wallets, NEW i \in DOMAIN ledger[v], ledger[v][i].tx = t
      PROVE  /\ Moved(t) /\ wager[t].cmd.wallet = v
             /\ ledger[v][i].amount = wager[t].cmd.amount
  BY <1>1, <1>3 DEF Entered
<1>4. CASE ~Moved(t)
  BY <1>2, <1>3, <1>4
<1>5. CASE Moved(t)
  <2>. DEFINE w == wager[t].cmd.wallet
  <2>1. w \in Wallets
    BY TypeParts DEF IndInv, DbType, Row, Command
  <2>2. PICK i \in DOMAIN ledger[w] : ledger[w][i].tx = t
    BY <1>1, <1>5, <2>1 DEF Entered
  <2>3. \A j \in DOMAIN ledger[w] : ledger[w][j].tx = t => j = i
    BY <1>1, <2>1, <2>2 DEF Entered
  <2>4. ledger[w][i].amount = wager[t].cmd.amount
    BY <1>3, <2>1, <2>2
  <2>. HIDE DEF w
  <2>5. <<w, i>> \in Entries(t)
    BY <1>2, <2>1, <2>2
  <2>6. ASSUME NEW e \in Entries(t)  PROVE  e = <<w, i>>
    <3>1. PICK v \in Wallets : \E j \in DOMAIN ledger[v] : e = <<v, j>> /\ ledger[v][j].tx = t
      BY <1>2
    <3>2. PICK j \in DOMAIN ledger[v] : e = <<v, j>> /\ ledger[v][j].tx = t
      BY <3>1
    <3>3. v = w
      BY <1>3, <3>2 DEF w
    <3>. QED  BY <2>3, <3>2, <3>3
  <2>7. Entries(t) = {<<w, i>>}
    BY <2>5, <2>6
  <2>8. <<w, i>>[1] = w /\ <<w, i>>[2] = i
    OBVIOUS
  <2>. QED  BY <1>5, <2>4, <2>5, <2>7, <2>8 DEF w
<1>. QED  BY <1>4, <1>5

\* A processed wager that moves money has exactly one ledger entry, in its own wallet and for
\* its own amount, and no other wager has any, however often its command was delivered or its
\* claim was lost.
THEOREM EntriesCorrect == Spec => []OneEntryPerMovement
<1>1. IndInv /\ Books => OneEntryPerMovement
  BY EntriesOnce
<1>. QED  BY <1>1, Inductive, BooksCorrect, PTL

\* The newest processed wager of a wallet froze the balance and the version that the wallet
\* has: no committed movement is missing from the results.
THEOREM LatestCorrect == Spec => []LatestResultIsWallet
<1>1. ASSUME IndInv, Books  PROVE  LatestResultIsWallet
  <2>. SUFFICES ASSUME NEW w \in Wallets, NEW t \in Done(w),
                       \A u \in Done(w) : wager[u].version <= wager[t].version
                PROVE  /\ wager[t].balance = wallet[w].balance
                       /\ wager[t].version = wallet[w].version
    <3>1. \A w \in Wallets :
            {t \in Present(wager) : wager[t].cmd.wallet = w /\ wager[t].status = "PROCESSED"}
              = Done(w)
      BY DEF Done, Present
    <3>. QED  BY <3>1 DEF LatestResultIsWallet
  <2>1. Frozen(w)
    BY <1>1 DEF Books, AuditInv, Audited
  <2>2. /\ \A u \in Done(w) : wager[u].version <= wallet[w].version
        /\ wager[t].version = wallet[w].version => wager[t].balance = wallet[w].balance
    BY <2>1 DEF Frozen
  <2>3. PICK u \in Done(w) : wager[u].version = wallet[w].version
    BY <2>1 DEF Frozen
  <2>4. wallet[w].version \in Nat /\ wager[t].version \in Nat
    BY <1>1, TypeParts DEF IndInv, DbType, Balance, Row, Done
  <2>5. wager[t].version = wallet[w].version
    BY <2>2, <2>3, <2>4
  <2>. QED  BY <2>2, <2>5
<1>. QED  BY <1>1, Inductive, BooksCorrect, PTL

\* The outbox tells the whole story once: one event per terminal wager, with its frozen
\* result, and one balance event per ledger entry, in ledger order.
THEOREM OutboxCorrect == Spec => []OutboxMatches
<1>1. ASSUME Books  PROVE  OutboxMatches
  <2>1. ASSUME NEW w \in Wallets, NEW t \in TxIds, Exists(t), wager[t].cmd.wallet = w
        PROVE  LET told == {i \in DOMAIN outbox[w] : /\ outbox[w][i].tx = t
                                                     /\ Terminal(outbox[w][i].type)}
               IN IF Terminal(wager[t].status)
                  THEN \E i \in told : /\ told = {i}
                                       /\ outbox[w][i].type = wager[t].status
                                       /\ outbox[w][i].balance = wager[t].balance
                                       /\ outbox[w][i].version = wager[t].version
                  ELSE told = {}
    <3>. DEFINE told == {i \in DOMAIN outbox[w] : /\ outbox[w][i].tx = t
                                                  /\ Terminal(outbox[w][i].type)}
    <3>1. Told(w)
      BY <1>1 DEF Books, AuditInv, Audited
    <3>2. \A i \in told : /\ outbox[w][i].type = wager[t].status
                          /\ outbox[w][i].balance = wager[t].balance
                          /\ outbox[w][i].version = wager[t].version
                          /\ Terminal(wager[t].status)
      BY <3>1 DEF Told
    <3>3. \A i, j \in told : i = j
      BY <3>1 DEF Told
    <3>4. Terminal(wager[t].status) => told # {}
      BY <2>1, <3>1 DEF Told
    <3>. HIDE DEF told
    <3>5. CASE Terminal(wager[t].status)
      <4>1. PICK i : i \in told
        BY <3>4, <3>5
      <4>2. told = {i}
        BY <3>3, <4>1
      <4>. QED  BY <3>2, <3>5, <4>1, <4>2 DEF told
    <3>6. CASE ~Terminal(wager[t].status)
      BY <3>2, <3>6 DEF told
    <3>. QED  BY <3>5, <3>6
  <2>2. \A w \in Wallets : Paired(w)
    BY <1>1 DEF Books, AuditInv, Audited
  <2>. QED  BY <2>1, <2>2 DEF OutboxMatches, Paired
<1>. QED  BY <1>1, BooksCorrect, PTL

\* The fold behind MapThenSumSet: g gives every subset of S its sum, taken one element after
\* the other.
Sums(g, S) ==
  g = [s \in SUBSET S |->
         IF s = {} THEN 0
         ELSE Effect(CHOOSE x \in s : TRUE) + g[s \ {CHOOSE x \in s : TRUE}]]

\* MapThenSumSet is such a fold, if there is one.
LEMMA FoldSums ==
  ASSUME NEW S, \E g : Sums(g, S)
  PROVE  \E g : Sums(g, S) /\ MapThenSumSet(Effect, S) = g[S]
<1>. DEFINE h == CHOOSE g : Sums(g, S)
<1>1. Sums(h, S)
  OBVIOUS
<1>2. MapThenSumSet(Effect, S) = h[S]
  BY DEF MapThenSumSet, MapThenFoldSet, Sums
<1>. QED  BY <1>1, <1>2

Share(t, s) == IF t \in s THEN Effect(t) ELSE 0

\* The sum of the effects of a set of wagers.
Net(S) == MapThenSumSet(Effect, S)

\* The effects of at most three wagers add up, in whichever order the fold takes them.
LEMMA SumOfThree ==
  ASSUME NEW a, NEW b, NEW c, a # b, a # c, b # c,
         NEW S, S \subseteq {a, b, c}, \A x \in S : Effect(x) \in Int
  PROVE  Net(S) = Share(a, S) + Share(b, S) + Share(c, S)
<1>. DEFINE total(s) == Share(a, s) + Share(b, s) + Share(c, s)
            pick(s) == CHOOSE x \in s : TRUE
            g0 == [s \in SUBSET S |-> total(s)]
<1>1. ASSUME NEW s \in SUBSET S
      PROVE  Share(a, s) \in Int /\ Share(b, s) \in Int /\ Share(c, s) \in Int
  BY DEF Share
<1>2. ASSUME NEW s \in SUBSET S, s # {}
      PROVE  /\ pick(s) \in s /\ s \ {pick(s)} \in SUBSET S
             /\ total(s) = Effect(pick(s)) + total(s \ {pick(s)})
  <2>1. pick(s) \in s
    BY <1>2
  <2>2. PICK x : x = pick(s)
    OBVIOUS
  <2>. HIDE DEF pick
  <2>3. x \in s /\ x \in {a, b, c}
    BY <2>1, <2>2
  <2>4. CASE x = a
    <3>1. /\ Share(a, s) = Effect(x) /\ Share(a, s \ {x}) = 0
          /\ Share(b, s \ {x}) = Share(b, s) /\ Share(c, s \ {x}) = Share(c, s)
      BY <2>3, <2>4 DEF Share
    <3>. QED  BY <1>1, <2>1, <2>2, <3>1
  <2>5. CASE x = b
    <3>1. /\ Share(b, s) = Effect(x) /\ Share(b, s \ {x}) = 0
          /\ Share(a, s \ {x}) = Share(a, s) /\ Share(c, s \ {x}) = Share(c, s)
      BY <2>3, <2>5 DEF Share
    <3>. QED  BY <1>1, <2>1, <2>2, <3>1
  <2>6. CASE x = c
    <3>1. /\ Share(c, s) = Effect(x) /\ Share(c, s \ {x}) = 0
          /\ Share(a, s \ {x}) = Share(a, s) /\ Share(b, s \ {x}) = Share(b, s)
      BY <2>3, <2>6 DEF Share
    <3>. QED  BY <1>1, <2>1, <2>2, <3>1
  <2>. QED  BY <2>3, <2>4, <2>5, <2>6
<1>3. total({}) = 0
  BY DEF Share
<1>4. Sums(g0, S)
  <2>1. \A s \in SUBSET S : g0[s] = total(s)
    OBVIOUS
  <2>2. ASSUME NEW s \in SUBSET S
        PROVE  total(s) = IF s = {} THEN 0 ELSE Effect(pick(s)) + g0[s \ {pick(s)}]
    <3>1. CASE s = {}
      BY <1>3, <3>1
    <3>2. CASE s # {}
      <4>. HIDE DEF g0, pick, total
      <4>. QED  BY <1>2, <2>1, <3>2
    <3>. QED  BY <3>1, <3>2
  <2>. HIDE DEF total
  <2>. QED  BY <2>2 DEF Sums
<1>5. PICK g : Sums(g, S) /\ MapThenSumSet(Effect, S) = g[S]
  <2>. HIDE DEF g0
  <2>. QED  BY <1>4, FoldSums
<1>6. ASSUME NEW s \in SUBSET S
      PROVE  g[s] = IF s = {} THEN 0 ELSE Effect(pick(s)) + g[s \ {pick(s)}]
  BY <1>5 DEF Sums
<1>. DEFINE Good(s) == g[s] = total(s)
<1>. HIDE DEF pick, total
<1>7. ASSUME NEW s \in SUBSET S, s = {} \/ Good(s \ {pick(s)})  PROVE  Good(s)
  BY <1>2, <1>3, <1>6, <1>7
<1>8. ASSUME NEW s \in SUBSET S, s # {}  PROVE  pick(s) \in s /\ s \ {pick(s)} \in SUBSET S
  BY <1>2, <1>8
<1>. HIDE DEF Good
<1>9. ASSUME NEW x, NEW s \in SUBSET S, s \subseteq {x}  PROVE  Good(s)
  <2>1. s # {} => s \ {pick(s)} = {}
    BY <1>8, <1>9
  <2>2. {} \in SUBSET S
    OBVIOUS
  <2>. QED  BY <1>7, <2>1, <2>2
<1>10. ASSUME NEW x, NEW y, NEW s \in SUBSET S, s \subseteq {x, y}  PROVE  Good(s)
  <2>1. s # {} => /\ s \ {pick(s)} \in SUBSET S
                  /\ s \ {pick(s)} \subseteq {x} \/ s \ {pick(s)} \subseteq {y}
    BY <1>8, <1>10
  <2>. QED  BY <1>7, <1>9, <2>1
<1>11. S # {} => /\ S \ {pick(S)} \in SUBSET S
                 /\ \E x, y \in {a, b, c} : S \ {pick(S)} \subseteq {x, y}
  BY <1>8
<1>12. Good(S)
  BY <1>7, <1>10, <1>11
<1>. QED  BY <1>5, <1>12 DEF Good, total, Net

\* What a wager moved.
LEMMA EffectOf ==
  ASSUME IndInv, Books, NEW t \in TxIds, Moved(t)
  PROVE  /\ wager[t].cmd.amount \in Int
         /\ Effect(t) = IF HeadingIn(wager, t) = "CREDIT" THEN wager[t].cmd.amount
                        ELSE -wager[t].cmd.amount
<1>1. t \in Present(wager)
  BY DEF Moved, Present
<1>2. PICK e \in Entries(t) : /\ Entries(t) = {e} /\ e[1] = wager[t].cmd.wallet
                              /\ ledger[e[1]][e[2]].amount = wager[t].cmd.amount
  BY <1>1, EntriesOnce DEF OneEntryPerMovement, Moved
<1>3. PICK w \in Wallets : \E i \in DOMAIN ledger[w] : e = <<w, i>> /\ ledger[w][i].tx = t
  BY <1>2 DEF Entries
<1>4. PICK i \in DOMAIN ledger[w] : e = <<w, i>> /\ ledger[w][i].tx = t
  BY <1>3
<1>5. ledger[w][i].dir = HeadingIn(wager, t) /\ ledger[w][i].amount = wager[t].cmd.amount
  BY <1>2, <1>4 DEF Books, NetInv, Directed
<1>6. (CHOOSE f \in Entries(t) : TRUE) = e
  BY <1>2
<1>7. Effect(t) = Signed(ledger[w][i])
  <2>1. Effect(t) = Signed(ledger[e[1]][e[2]])
    BY <1>6 DEF Effect
  <2>2. e[1] = w /\ e[2] = i
    BY <1>4
  <2>. QED  BY <2>1, <2>2
<1>8. wager[t].cmd.amount \in Int
  BY TypeParts, MaxIntAssumption DEF IndInv, DbType, Row, Command, Minor
<1>. QED  BY <1>5, <1>7, <1>8 DEF Signed

\* A reversal moves what it reverses back.
LEMMA ReversalOpposes ==
  ASSUME IndInv, CommandInv, Books, NEW t \in TxIds, NEW u \in ReversalsOf(t)
  PROVE  /\ u \in TxIds /\ Moved(t) /\ Moved(u) /\ Effect(t) \in Int
         /\ Effect(u) = -Effect(t)
         /\ wager[u].cmd.kind \in Reversals
         /\ MayRefer(wager[u].cmd.kind, wager[t].cmd.kind)
<1>1. /\ u \in TxIds /\ wager[u].status = "PROCESSED" /\ wager[u].cmd.kind \in Reversals
      /\ wager[u].refId = t
  BY DEF ReversalsOf, Present, ProcessedReversal
<1>2. DbType /\ RowsSound
  BY TypeParts DEF IndInv, CommandInv
<1>3. wager[t].status = "PROCESSED" /\ MayRefer(wager[u].cmd.kind, wager[t].cmd.kind)
  BY <1>1, <1>2, ReferenceFixed
<1>4. wager[t].cmd.kind \in {"BET", "WIN", "REFUND"} /\ t # 0
  BY <1>1, <1>3, TxIdsAssumption DEF MayRefer, Reversals
<1>5. Moved(t) /\ Moved(u)
  BY <1>1, <1>3, <1>4 DEF Moved, Reversals
<1>6. wager[t].cmd.amount = wager[u].cmd.amount
  BY <1>1 DEF Books, NetInv, Repaid
<1>7. HeadingIn(wager, u) = DirectionOf(wager[u].cmd.kind, wager[t].cmd.kind)
  BY <1>1, <1>4 DEF HeadingIn, Heading, Reversals
<1>8. \E k : HeadingIn(wager, t) = DirectionOf(wager[t].cmd.kind, k)
  BY <1>4 DEF HeadingIn, Heading
<1>9. HeadingIn(wager, u) = "CREDIT" <=> HeadingIn(wager, t) # "CREDIT"
  BY <1>1, <1>3, <1>4, <1>7, <1>8 DEF DirectionOf, MayRefer, Reversals
<1>. QED  BY <1>1, <1>3, <1>5, <1>6, <1>9, EffectOf

\* At most one of them.
LEMMA ReversedAlone ==
  ASSUME CommandInv, NEW t \in TxIds, NEW u \in ReversalsOf(t)
  PROVE  ReversalsOf(t) = {u}
<1>1. \A v \in ReversalsOf(t) : v \in TxIds /\ ProcessedReversal(wager[v], t)
  BY DEF ReversalsOf, Present
<1>2. \A v \in ReversalsOf(t) : v = u
  BY <1>1 DEF CommandInv, OneReversal
<1>. QED  BY <1>2

\* A bet or a win counts once or, once it is reversed, not at all: with its reversal, and the
\* reversal of that one, it moves its own amount or nothing, whichever commands arrive, in
\* whichever order and however often.
THEOREM NetCorrect == Spec => []NetOfReversals
<1>1. ASSUME IndInv, CommandInv, Books  PROVE  NetOfReversals
  <2>. SUFFICES ASSUME NEW t \in TxIds, wager[t].status = "PROCESSED",
                       wager[t].cmd.kind \in {"BET", "WIN"}
                PROVE  LET family == {t} \cup ReversalsOf(t)
                                       \cup UNION {ReversalsOf(u) : u \in ReversalsOf(t)}
                       IN Net(family) \in {0, Effect(t)}
    BY DEF NetOfReversals, Present, Net
  <2>. DEFINE family == {t} \cup ReversalsOf(t) \cup UNION {ReversalsOf(u) : u \in ReversalsOf(t)}
  <2>1. /\ t \in Int /\ t > 0 /\ Effect(t) \in Int
    BY <1>1, EffectOf, TxIdsAssumption DEF Moved
  <2>2. CASE ReversalsOf(t) = {}
    <3>1. family = {t}
      BY <2>2
    <3>2. t # 0 /\ t # -1 /\ 0 # -1
      BY <2>1
    <3>. HIDE DEF family
    <3>3. Net(family) = Share(t, family) + Share(0, family) + Share(-1, family)
      BY <2>1, <3>1, <3>2, SumOfThree
    <3>4. Share(t, family) = Effect(t) /\ Share(0, family) = 0 /\ Share(-1, family) = 0
      BY <3>1, <3>2 DEF Share
    <3>. QED  BY <2>1, <3>3, <3>4 DEF family
  <2>3. ASSUME NEW u \in ReversalsOf(t)
        PROVE  Net(family) \in {0, Effect(t)}
    <3>1. /\ ReversalsOf(t) = {u} /\ u \in TxIds /\ u \in Int /\ u > 0
          /\ Effect(u) = -Effect(t) /\ wager[u].cmd.kind \in Reversals
      <4>1. ReversalsOf(t) = {u}
        BY <1>1, ReversedAlone
      <4>2. u \in TxIds /\ Effect(u) = -Effect(t) /\ wager[u].cmd.kind \in Reversals
        BY <1>1, ReversalOpposes
      <4>. QED  BY <4>1, <4>2, TxIdsAssumption
    <3>2. t # u
      BY <3>1 DEF Reversals
    <3>3. CASE ReversalsOf(u) = {}
      <4>1. family = {t, u}
        BY <3>1, <3>3
      <4>2. t # 0 /\ u # 0
        BY <2>1, <3>1
      <4>3. Effect(u) \in Int
        BY <2>1, <3>1
      <4>. HIDE DEF family
      <4>4. Net(family) = Share(t, family) + Share(u, family) + Share(0, family)
        BY <2>1, <3>2, <4>1, <4>2, <4>3, SumOfThree
      <4>5. Share(t, family) = Effect(t) /\ Share(u, family) = Effect(u) /\ Share(0, family) = 0
        BY <4>1, <4>2 DEF Share
      <4>. QED  BY <2>1, <3>1, <4>4, <4>5
    <3>4. ASSUME NEW v \in ReversalsOf(u)
          PROVE  Net(family) \in {0, Effect(t)}
      <4>1. /\ ReversalsOf(u) = {v} /\ v \in TxIds /\ Effect(v) = -Effect(u)
            /\ wager[v].cmd.kind \in Reversals
        BY <1>1, <3>1, ReversedAlone, ReversalOpposes
      <4>2. family = {t, u, v}
        BY <3>1, <4>1
      <4>3. v # t
        BY <4>1 DEF Reversals
      <4>4. v # u
        <5>1. wager[v].refId = u /\ wager[u].refId = t
          BY DEF ReversalsOf, ProcessedReversal
        <5>. QED  BY <3>2, <5>1
      <4>5. Effect(u) \in Int /\ Effect(v) \in Int
        BY <2>1, <3>1, <4>1
      <4>. HIDE DEF family
      <4>6. Net(family) = Share(t, family) + Share(u, family) + Share(v, family)
        BY <2>1, <3>2, <4>2, <4>3, <4>4, <4>5, SumOfThree
      <4>7. /\ Share(t, family) = Effect(t) /\ Share(u, family) = Effect(u)
            /\ Share(v, family) = Effect(v)
        BY <4>2 DEF Share
      <4>. QED  BY <2>1, <3>1, <4>1, <4>5, <4>6, <4>7
    <3>. QED  BY <3>3, <3>4
  <2>. QED  BY <2>2, <2>3
<1>. QED  BY <1>1, Inductive, CommandsCorrect, BooksCorrect, PTL
=============================================================================

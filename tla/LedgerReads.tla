---------------------------- MODULE LedgerReads -----------------------------
(***************************************************************************)
(* The read side of the store (src/internal/adapters/postgres/read.go and  *)
(* the Get methods of store.go) over the serial machine WagerLedger, which *)
(* WagerStore implements: a read sees the committed state of one statement.*)
(*                                                                         *)
(* Pages are ordered by (created_at, id).  Every ledger entry therefore    *)
(* has a stamp here: the clock of PostgreSQL when it was inserted, and an  *)
(* id whose order means nothing.  The clock may be set back.               *)
(***************************************************************************)
EXTENDS WagerLedger, SequencesExt
INSTANCE Money

CONSTANT EntryIds     \* ledger entry ids

ASSUME EntryIdsAssumption == EntryIds \subseteq Nat \ {0}

VARIABLES
  stamp,    \* created_at and id of each entry of each ledger
  clock,    \* the clock of PostgreSQL
  steps     \* how often it may still be set back

reads == <<stamp, clock, steps>>

Stamps == [at : Nat, id : EntryIds]

ReadsInit(maxSteps) ==
  /\ stamp = [w \in Wallets |-> <<>>]
  /\ clock = 0
  /\ steps = maxSteps

UsedIds == UNION {{stamp[w][i].id : i \in DOMAIN stamp[w]} : w \in Wallets}

\* insertLedger: clock_timestamp(), read while the wallet is locked.
StampBy(id) == {[at |-> clock + 1, id |-> id]}

\* The entries that this step appends to the ledgers get their stamps.
InsertLedger ==
  LET grown == {w \in Wallets : Len(ledger'[w]) > Len(ledger[w])} IN
  IF grown = {} THEN UNCHANGED <<stamp, clock>>
  ELSE \E id \in EntryIds \ UsedIds : \E s \in StampBy(id) :
         /\ stamp' = [w \in Wallets |-> IF w \in grown THEN Append(stamp[w], s) ELSE stamp[w]]
         /\ clock' = clock + 1

\* The clock of the database server is set back.
StepBack ==
  /\ steps > 0 /\ steps' = steps - 1
  /\ clock' \in 0 .. clock - 1
  /\ UNCHANGED <<stamp, vars>>

(***************************************************************************)
(* Ledger: a page and the cursor of the next one.                          *)
(***************************************************************************)
NoCursor == [at |-> 0, id |-> 0]

\* Mutant: the page starts at its cursor, and not behind it.
EarlierOrSame(s, t) == s.at < t.at \/ (s.at = t.at /\ s.id <= t.id)

\* (created_at, id) < (created_at, id)
Earlier(s, t) == s.at < t.at \/ (s.at = t.at /\ s.id < t.id)

\* Entries are named by their place in the ledger.  One more row than the limit is
\* asked for, to know whether there is a next page.
LedgerPage(w, cursor, limit) ==
  LET rows == {i \in DOMAIN ledger[w] : cursor = NoCursor \/ Earlier(stamp[w][i], cursor)}
      newer(i, j) == Earlier(stamp[w][j], stamp[w][i])
      sorted == CHOOSE s \in SetToSeqs(rows) :
                  \A i, j \in DOMAIN s : i < j => newer(s[i], s[j])
  IN [entries |-> SubSeq(sorted, 1, IF limit < Len(sorted) THEN limit ELSE Len(sorted)),
      next    |-> IF Len(sorted) > limit THEN stamp[w][sorted[limit]] ELSE NoCursor]

(***************************************************************************)
(* Reconcile: the stored balance and the sum of the ledger, both of one    *)
(* statement.                                                              *)
(***************************************************************************)
Signed(e) == IF e.dir = "CREDIT" THEN e.amount ELSE 0 - e.amount

\* Mutant: the entry of an opening balance has no external wager and is not summed.
TotalOfWagers(w) ==
  MapThenSumSet(LAMBDA i : IF wager[ledger[w][i].tx].cmd.kind = "OPENING" THEN 0
                           ELSE Signed(ledger[w][i]), DOMAIN ledger[w])

LedgerTotal(w) == MapThenSumSet(LAMBDA i : Signed(ledger[w][i]), DOMAIN ledger[w])

Reconciliation(w) ==
  LET total == LedgerTotal(w)
      diff  == Subtract(wallet[w].balance, total)
  IN IF wallet[w].version = 0 THEN [code |-> "NOT_FOUND"]
     ELSE IF total \notin -MaxInt - 1 .. MaxInt THEN [code |-> "RECONCILIATION_OVERFLOW"]
     ELSE IF diff.code # "" THEN [code |-> diff.code]
     ELSE [code |-> "", difference |-> String(diff.minor), consistent |-> diff.minor = 0,
           checkedEntries |-> Len(ledger[w])]

(***************************************************************************)
(* Views of a wallet and of a wager.                                       *)
(***************************************************************************)
WalletView(w) == [wallet |-> w, version |-> wallet[w].version,
                  balance |-> String(wallet[w].balance)]

\* Mutant: the version of the wallet, beside a balance that may be frozen.
ResultWithVersionOf(row, w) ==
  [wallet |-> row.cmd.wallet, version |-> w.version,
   balance |-> String(IF Terminal(row.status) THEN row.balance ELSE w.balance)]

\* resultOf: row as it was read, and the wallet w as read after it.
ResultView(row, w) ==
  LET of == IF Terminal(row.status) THEN row ELSE w IN
  [wallet |-> row.cmd.wallet, version |-> of.version, balance |-> String(of.balance)]
=============================================================================

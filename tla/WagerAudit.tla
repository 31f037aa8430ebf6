----------------------------- MODULE WagerAudit -----------------------------
(***************************************************************************)
(* What the auditor of the repository, src/scripts/audit.sql, expects of   *)
(* every committed state, and two statements about money that it does not  *)
(* make, as properties of WagerStore; and the refinement of WagerLedger.   *)
(***************************************************************************)
EXTENDS WagerStore, FiniteSetsExt

\* Every run of the store is a run of the serial machine: each commit has the
\* effect of deciding one command, alone, on the committed state.
Serial == INSTANCE WagerLedger WITH
            wallet <- wallet, ledger <- ledger, wager <- wager, inbox <- inbox,
            outbox <- outbox
IsSerial == Serial!Spec

\* ledger_cardinality and ledger_arithmetic: a processed wager that moves money
\* has exactly one entry, for its own amount and in its own wallet, and no other
\* wager has any; a claim or a message used twice would leave a second one.
Entries(t) ==
  UNION {{w} \X {i \in DOMAIN ledger[w] : ledger[w][i].tx = t} : w \in Wallets}

OneEntryPerMovement ==
  \A t \in Present(wager) :
    IF wager[t].status = "PROCESSED" /\ wager[t].cmd.kind # "LOSS"
    THEN \E e \in Entries(t) : /\ Entries(t) = {e}
                               /\ e[1] = wager[t].cmd.wallet
                               /\ ledger[e[1]][e[2]].amount = wager[t].cmd.amount
    ELSE Entries(t) = {}

\* result_snapshot: the newest processed wager of a wallet describes the wallet
\* as it is, so no committed movement is missing from the frozen results.
LatestResultIsWallet ==
  \A w \in Wallets :
    LET done == {t \in Present(wager) : /\ wager[t].cmd.wallet = w
                                        /\ wager[t].status = "PROCESSED"}
    IN \A t \in done :
         (\A u \in done : wager[u].version <= wager[t].version) =>
            wager[t].balance = wallet[w].balance /\ wager[t].version = wallet[w].version

\* A bet or a win counts once or, once reversed, not at all: together with its
\* reversals, and the reversals of those, it moves its own amount or nothing.
\* In particular the rollback of a refund does not let the bet be refunded again.
ReversalsOf(t) == {u \in Present(wager) : ProcessedReversal(wager[u], t)}
Effect(t) == LET e == CHOOSE e \in Entries(t) : TRUE IN Signed(ledger[e[1]][e[2]])

NetOfReversals ==
  \A t \in Present(wager) :
    wager[t].status = "PROCESSED" /\ wager[t].cmd.kind \in {"BET", "WIN"} =>
      LET family == {t} \cup ReversalsOf(t) \cup UNION {ReversalsOf(u) : u \in ReversalsOf(t)}
      IN MapThenSumSet(Effect, family) \in {0, Effect(t)}

\* result_currency: the frozen result of a terminal wager is in the currency of
\* the wager.  The code does not keep this: see the finding in the README.
ResultInWagerCurrency ==
  \A t \in Present(wager) :
    Terminal(wager[t].status) => wager[t].currency = wager[t].cmd.currency
=============================================================================

---------------------------- MODULE MCWagerStore ----------------------------
(***************************************************************************)
(* Instances of WagerStore for TLC: the wallets and the commands of each   *)
(* scenario.  Amounts are small minor units; players, providers and rounds *)
(* are single names unless the scenario needs two.                         *)
(***************************************************************************)
EXTENDS WagerAudit, TLC

\* Any string is a name.
Strings == STRING

\* Sessions of a kind are interchangeable (used where no liveness is checked).
Sessions == Permutations(Handlers) \cup Permutations(Resolvers)

Http(c)    == [cmd |-> c, msg |-> "", at |-> 0]
Sqs(m, c)  == [cmd |-> c, msg |-> m, at |-> 1]

Cmd(w, kind, ext, amount, ref) ==
  [provider |-> "prov", ext |-> ext, key |-> "k-" \o ext, player |-> "ana", wallet |-> w,
   round |-> "r1", kind |-> kind, amount |-> amount, currency |-> "BRL", ref |-> ref]

OneWallet == [w1 |-> [player |-> "ana", currency |-> "BRL", initial |-> 2]]

\* A bet delivered over both transports and redelivered, its key reused for a
\* loss, its external id reused under another key, its message id reused for a win
\* that overflows unless the bet came first, and the refund of the bet, which waits if
\* it comes first.
Bet1 == Cmd("w1", "BET", "b1", 2, "")
Bet2 == Cmd("w1", "BET", "b2", 1, "")
Refund1 == Cmd("w1", "REFUND", "f1", 2, "b1")
ContentionRequests ==
  {Http(Bet1), Sqs("m1", Bet1), Sqs("m1", Cmd("w1", "WIN", "n1", 2, "")),
   Sqs("m2", [Bet1 EXCEPT !.kind = "LOSS", !.amount = 0]),
   Http([Bet1 EXCEPT !.key = "other"]), Http(Refund1)}

\* A bet, its refund, the rollback of the refund and a rollback of the bet, in
\* any order of arrival: the later ones may have to wait for their reference, and
\* another bet may have spent the money in between; and commands that never become
\* rows.
ReversalRequests ==
  {Http(Bet1), Http(Bet2), Http(Refund1),
   Http(Cmd("w1", "ROLLBACK", "x1", 2, "f1")), Http(Cmd("w1", "ROLLBACK", "y1", 2, "b1")),
   Http(Cmd("w1", "BET", "b3", 1, "b1")),      \* a bet takes no reference
   Http(Cmd("w1", "REFUND", "f2", 1, "")),     \* a refund needs one
   Http([Cmd("w1", "BET", "b4", 1, "") EXCEPT !.player = "bob"])}

\* Two wallets of one player in two currencies: identities and references that
\* cross wallets.
TwoWallets == [w1 |-> [player |-> "ana", currency |-> "BRL", initial |-> 2],
               w2 |-> [player |-> "ana", currency |-> "USD", initial |-> 0]]
InDollars(c) == [c EXCEPT !.currency = "USD"]
CrossRequests ==
  {Http(Bet1),
   Http(InDollars(Cmd("w2", "BET", "b1", 1, ""))),
   Http(InDollars(Cmd("w2", "WIN", "n1", 3, ""))),
   Http(InDollars(Cmd("w2", "WIN", "n2", 1, "b1")))}

\* A bet in a currency that is not the wallet's.
CurrencyRequests == {Http(InDollars(Cmd("w1", "BET", "b2", 1, "")))}

\* A refund that may come before its bet, and nothing else.
PairRequests == {Http(Bet1), Sqs("m1", Refund1)}

\* Commands that wait for each other in all three places: the inbox row of m1, the
\* wallet row of w1, which a resolver of the refund locks too, and the index entry of b1,
\* which two wallets share.
WaitingRequests ==
  {Sqs("m1", Bet1), Http(InDollars(Cmd("w2", "BET", "b1", 1, ""))), Http(Refund1)}
=============================================================================

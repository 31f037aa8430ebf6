----------------------------- MODULE MCHttpApi ------------------------------
(***************************************************************************)
(* An instance of HttpApi for TLC: two wallets, a bet that also comes in a *)
(* message, its refund and a win, with the amounts in different spellings. *)
(***************************************************************************)
EXTENDS HttpApi, TLC

Strings == STRING

TwoWallets == [w1 |-> [player |-> "ana", currency |-> "BRL", initial |-> 100],
               w2 |-> [player |-> "ana", currency |-> "USD", initial |-> 0]]

\* "1", "1.0", "1.00" and the like.
One == <<1>>
OnePoint == <<1, Point, 0>>
OneExact == <<1, Point, 0, 0>>
More == <<1, Point, 5>>
Zero == <<0>>
TooFine == <<1, Point, 0, 0, 0>>

AllTexts == UNION {[1 .. n -> {0, 1, 5, Point, Minus}] : n \in 0 .. 4} \cup {TooFine}

Cmd(w, kind, ext, ref) ==
  [provider |-> "prov", ext |-> ext, key |-> "k-" \o ext, player |-> "ana", wallet |-> w,
   round |-> "r1", kind |-> kind, amount |-> 0, currency |-> Accounts[w].currency, ref |-> ref]

Call(route, text, cmd) ==
  [route |-> route, flaws |-> {}, text |-> text, cmd |-> cmd, limit |-> 1, tx |-> 0]

Bet == Cmd("w1", "BET", "b1", "")
On(w) == Cmd(w, "BET", "", "")

\* The bet as a message of the input queue.
Messages1 == {[cmd |-> [Bet EXCEPT !.amount = 100], msg |-> "m1", at |-> 1]}

Writes ==
  {Call("createWallet", OnePoint, On("w1")), Call("createWallet", Zero, On("w2")),
   Call("createWallet", TooFine, On("w1")),
   Call("processWager", One, Bet), Call("processWager", OneExact, Bet),
   Call("processWager", More, Bet),
   Call("processWager", One, [Bet EXCEPT !.key = "other"]),
   Call("processWager", OneExact, Cmd("w1", "REFUND", "f1", "b1"))}

Reads ==
  {Call("getWallet", Zero, On("w2")),
   Call("ledger", Zero, On("w1")),
   Call("reconcile", Zero, On("w1")),
   [Call("getTransaction", Zero, On("w1")) EXCEPT !.tx = 2],
   Call("getExternal", Zero, Cmd("w1", "BET", "f1", ""))}

Flawed ==
  {[Call("processWager", One, Bet) EXCEPT !.flaws = {"OTHER_PROVIDER", "INVALID_ID"}],
   [Call("ledger", One, On("w1")) EXCEPT !.flaws = {"INVALID_CURSOR"}]}

AllCalls == Writes \cup Reads \cup Flawed
=============================================================================

------------------------------ MODULE HttpApi -------------------------------
(***************************************************************************)
(* The HTTP adapter (src/internal/adapters/httpapi/http.go) over the       *)
(* committed state of the ledger: what each route checks and in which      *)
(* order, what its use case does, and the status and the body the client   *)
(* gets.  A use case that is one transaction or one statement is one step; *)
(* getTransaction reads the wager and the wallet in two.  Clients repeat   *)
(* calls at will, and an answer may be lost.                               *)
(*                                                                         *)
(* A call is a route, the set of things that are wrong with it, and its    *)
(* arguments.  Headers, paths and JSON are abstracted to these.  The steps *)
(* of the other transports and of the reference worker go on beside it.    *)
(***************************************************************************)
EXTENDS LedgerReads

CONSTANTS
  Calls,       \* the calls that clients make
  Texts,       \* texts that a client may give as an amount
  MaxSteps,    \* how often the clock of the database is set back
  MaxFaults    \* bounds panics, late clocks and failures of the database

VARIABLES
  answer,      \* the answer of the last call, until the next step begins
  refused,     \* wager commands a client was told to be in conflict
  walk,        \* a client that walks through the pages of a ledger
  reading,     \* a getTransaction between its two statements
  faults

allvars == <<vars, reads, answer, refused, walk, reading, faults>>

Routes == {"createWallet", "getWallet", "ledger", "reconcile", "processWager",
           "getTransaction", "getExternal"}
NoAnswer == [route |-> "", status |-> 0, code |-> "", cmd |-> NoCommand, body |-> {}]
NoWalk == [wallet |-> NoCommand.wallet, at |-> "none", old |-> {}, got |-> <<>>,
           cursor |-> NoCursor]
NoReading == [route |-> "", row |-> NoRow]

HttpInit ==
  /\ Init /\ ReadsInit(MaxSteps)
  /\ answer = NoAnswer /\ refused = {} /\ walk = NoWalk /\ reading = NoReading
  /\ faults = MaxFaults

(***************************************************************************)
(* What is checked before a use case runs, in order.                       *)
(***************************************************************************)
\* requestContext and authorize.
Entry == <<"INVALID_CORRELATION_ID", "UNAUTHENTICATED", "FORBIDDEN">>
\* decode.
Body == <<"INVALID_CONTENT_TYPE", "BODY_TOO_LARGE", "INVALID_JSON">>

Checks == [
  createWallet   |-> Entry \o Body \o <<"INVALID_ID">>,
  processWager   |-> Entry \o Body \o <<"OTHER_PROVIDER", "INVALID_IDEMPOTENCY_KEY", "INVALID_ID">>,
  getWallet      |-> Entry \o <<"INVALID_ID">>,
  ledger         |-> Entry \o <<"INVALID_ID", "INVALID_LIMIT">>,
  reconcile      |-> Entry \o <<"INVALID_ID">>,
  getTransaction |-> Entry \o <<"INVALID_ID">>,
  getExternal    |-> Entry \o <<"OTHER_PROVIDER">> ]

\* The first check that call q fails, "" when it passes them all.
Screen(q) ==
  LET failed == {i \in DOMAIN Checks[q.route] : Checks[q.route][i] \in q.flaws} IN
  IF failed = {} THEN ""
  ELSE Checks[q.route][CHOOSE i \in failed : \A j \in failed : i <= j]

\* What reaches the routes; authorize lets nobody bet without a provider.
ASSUME CallsAssumption ==
  \A q \in Calls :
    /\ q.route \in Routes /\ q.cmd \in Command
    /\ q.text \in Seq(0 .. Minus) /\ q.limit \in Nat \ {0}
    /\ q.route = "processWager" /\ Screen(q) = "" => q.cmd.provider # ""
ASSUME MessagesAssumption == \A r \in Requests : r.cmd \in Command
ASSUME TextsAssumption == Texts \subseteq Seq(0 .. Minus)
ASSUME StepsAssumption == MaxSteps \in Nat

\* Rejections are results of ProcessWager and not errors; applicationError has a
\* status for them all the same.
BusinessRules == {"INSUFFICIENT_FUNDS", "INSUFFICIENT_FUNDS_FOR_REVERSAL", "CURRENCY_MISMATCH",
  "REFERENCE_NOT_FOUND", "REFERENCE_NOT_PROCESSED", "REFERENCE_MISMATCH",
  "REFERENCE_ALREADY_REVERSED", "INVALID_AMOUNT_FOR_KIND"}

\* Codes that name what is wrong with a request.
InvalidCodes == {"INVALID_CORRELATION_ID", "INVALID_JSON", "INVALID_ID", "INVALID_LIMIT",
  "INVALID_CURSOR", "INVALID_IDEMPOTENCY_KEY", "INVALID_INPUT", "INVALID_KIND",
  "INVALID_AMOUNT", "INVALID_SCALE", "INVALID_CURRENCY", "INVALID_MONEY", "INVALID_WALLET",
  "INVALID_WAGER", "INVALID_LEDGER", "INVALID_EVENT", "INVALID_STATE", "OVERFLOW",
  "REFERENCE_REQUIRED", "PLAYER_MISMATCH"}

\* failure of the checks and applicationError; a code it does not know is no fault of the
\* client.
ErrorStatus(code) ==
  CASE code = "UNAUTHENTICATED" -> 401
    [] code \in {"FORBIDDEN", "OTHER_PROVIDER"} -> 403
    [] code = "INVALID_CONTENT_TYPE" -> 415
    [] code = "BODY_TOO_LARGE" -> 413
    [] code = "NOT_FOUND" -> 404
    [] code \in {"WALLET_ALREADY_EXISTS", "IDEMPOTENCY_KEY_REUSED",
                 "EXTERNAL_TRANSACTION_ID_REUSED"} -> 409
    [] code \in BusinessRules -> 422
    [] code \in InvalidCodes -> 400
    [] OTHER -> 503

\* The code the client sees: what is not known outside is called unavailable.
Shown(code) ==
  CASE code = "OTHER_PROVIDER" -> "FORBIDDEN"
    [] ErrorStatus(code) = 503 -> "UNAVAILABLE"
    [] OTHER -> code

Answer(q, status, code, cmd, body) ==
  answer' = [route |-> q.route, status |-> status, code |-> code, cmd |-> cmd, body |-> body]
Fail(q, code, cmd) == Answer(q, ErrorStatus(code), Shown(code), cmd, {})
NoEffect == UNCHANGED <<vars, reads>>
Idle == answer = NoAnswer
\* AllocateID; the order of ids means nothing here.
NewId(id) == /\ wager[id].status = "NONE"
             /\ \A t \in TxIds : wager[t].status = "NONE" => id <= t
Quiet == UNCHANGED <<refused, walk, reading>>

\* A check stops the call.
Refuse(q) ==
  /\ Idle /\ Screen(q) # ""
  /\ Fail(q, Screen(q), NoCommand)
  /\ NoEffect /\ Quiet /\ UNCHANGED faults

\* A use case that fails or panics without effect, whatever the reason: the pool,
\* the database, the deadline of the request.
Break(q) ==
  /\ Idle /\ Screen(q) = "" /\ faults > 0 /\ faults' = faults - 1
  /\ \/ Fail(NoAnswer, "UNAVAILABLE", NoCommand)
     \/ Answer(NoAnswer, 500, "INTERNAL_ERROR", NoCommand, {})
  /\ NoEffect /\ Quiet

(***************************************************************************)
(* createWallet.                                                           *)
(***************************************************************************)
Money(q) == ParseMoney(q.text, q.cmd.currency)

\* The wallets that have the player and the currency of the call.
Owned(q) == {w \in Wallets : /\ Accounts[w].player = q.cmd.player
                             /\ Accounts[w].currency = q.cmd.currency}

CreateWallet(q) ==
  /\ Idle /\ q.route = "createWallet" /\ Screen(q) = "" /\ Quiet
  /\ \/ /\ Money(q).code # ""
        /\ Fail(q, Money(q).code, NoCommand) /\ NoEffect /\ UNCHANGED faults
     \/ /\ Money(q).code = ""
        /\ \E w \in Owned(q) : wallet[w].version > 0
        /\ Fail(q, "WALLET_ALREADY_EXISTS", NoCommand) /\ NoEffect /\ UNCHANGED faults
     \/ \E w \in Owned(q) :
          /\ Money(q).code = "" /\ Accounts[w].initial = Money(q).minor
          /\ Open(w) /\ \A id \in TxIds : wager'[id] # wager[id] => NewId(id)
          /\ InsertLedger /\ UNCHANGED steps
          /\ \/ Answer(q, 201, "", NoCommand,
                   {[wallet |-> w, version |-> wallet'[w].version,
                     balance |-> String(wallet'[w].balance)]}) /\ UNCHANGED faults
             \/ Fail(q, "UNAVAILABLE", NoCommand) /\ faults > 0 /\ faults' = faults - 1

(***************************************************************************)
(* processWager.                                                           *)
(***************************************************************************)
\* findIdentity prefers the row with the key to the row with the external id.
Found(c) == IF ByKey(wager, c) # {} THEN ByKey(wager, c) ELSE ByExt(wager, c)

\* Mutant: a command that still waits for its reference counts as a conflict.
ConflictWhileWaiting(c) ==
  LET d == wager[CHOOSE t \in Found(c) : TRUE] IN
  IF Found(c) = {} THEN ""
  ELSE IF d.cmd.key # c.key THEN "EXTERNAL_TRANSACTION_ID_REUSED"
  ELSE IF d.cmd # c \/ ~Terminal(d.status) THEN "IDEMPOTENCY_KEY_REUSED" ELSE ""

Conflict(c) ==
  LET d == wager[CHOOSE t \in Found(c) : TRUE] IN
  IF Found(c) = {} THEN ""
  ELSE IF d.cmd.key # c.key THEN "EXTERNAL_TRANSACTION_ID_REUSED"
  ELSE IF PayloadHash(d.cmd) # PayloadHash(c) THEN "IDEMPOTENCY_KEY_REUSED" ELSE ""

\* The error of ProcessWager, "" when the command is a replay or new and accepted.
WagerError(c) ==
  IF NormalizeCommand(c) # "" THEN NormalizeCommand(c)
  ELSE IF Conflict(c) # "" THEN Conflict(c)
  ELSE IF Found(c) # {} THEN ""
  ELSE IF wallet[c.wallet].version = 0 THEN "NOT_FOUND"
  ELSE IF Accounts[c.wallet].player # c.player THEN "PLAYER_MISMATCH"
  ELSE IF ~AcceptsReference(c) THEN "INVALID_WAGER" ELSE ""

NewStatus(status) ==
  CASE status \in {"PENDING", "PENDING_REFERENCE"} -> 202
    [] status = "REJECTED" -> 422
    [] status = "FAILED" -> 503
    [] OTHER -> 201

\* A new command is decided and recorded; the answer may be lost after the commit.
\* A process whose clock is behind the wallet refuses to move it.
Commit(q, c, id) ==
  LET rows == [wager EXCEPT ![id] = NewRow(c, "PENDING")] IN
  \/ /\ Decide([cmd |-> c, msg |-> "", at |-> 0], id)
     /\ InsertLedger /\ UNCHANGED steps
     /\ \/ Answer(q, NewStatus(wager'[id].status), "", c,
                  {ResultView(wager'[id], wallet'[c.wallet])}) /\ UNCHANGED faults
        \/ Fail(q, "UNAVAILABLE", NoCommand) /\ faults > 0 /\ faults' = faults - 1
  \/ /\ \E o \in Settled(rows, id, c.wallet, FALSE) : o.dir # "NONE"
     /\ Fail(q, "INVALID_WALLET", c) /\ NoEffect
     /\ faults > 0 /\ faults' = faults - 1

ProcessWager(q) ==
  LET m == Money(q)
      c == [q.cmd EXCEPT !.amount = m.minor]
      error == IF m.code # "" THEN m.code ELSE WagerError(c)
  IN
  /\ Idle /\ q.route = "processWager" /\ Screen(q) = ""
  /\ UNCHANGED <<walk, reading>>
  /\ refused' = IF ErrorStatus(error) = 409 THEN refused \cup {c} ELSE refused
  /\ \/ /\ error # ""
        /\ Fail(q, error, IF m.code # "" THEN NoCommand ELSE c)
        /\ NoEffect /\ UNCHANGED faults
     \/ /\ error = "" /\ \E t \in Found(c) :
             Answer(q, 200, "", c, {ResultView(wager[t], wallet[wager[t].cmd.wallet])})
        /\ NoEffect /\ UNCHANGED faults
     \/ error = "" /\ Found(c) = {} /\ \E id \in TxIds : NewId(id) /\ Commit(q, c, id)

(***************************************************************************)
(* Reads.                                                                  *)
(***************************************************************************)
GetWallet(q) ==
  /\ Idle /\ q.route = "getWallet" /\ Screen(q) = ""
  /\ IF wallet[q.cmd.wallet].version = 0 THEN Fail(q, "NOT_FOUND", NoCommand)
     ELSE Answer(q, 200, "", NoCommand, {WalletView(q.cmd.wallet)})
  /\ NoEffect /\ Quiet /\ UNCHANGED faults

\* One page.  The client starts a walk with it, or goes on with the one it is at.  A
\* page that is lost is asked for again, with the same cursor.  (A cursor too long to
\* be one is refused before the wallet is looked for, with the same code.)
Ledger(q) ==
  LET w    == q.cmd.wallet
      from == IF walk.at = "open" THEN walk
              ELSE [NoWalk EXCEPT !.wallet = w, !.old = DOMAIN ledger[w]]
      page == LedgerPage(w, from.cursor, q.limit)
      code == IF wallet[w].version = 0 THEN "NOT_FOUND"
              ELSE IF "INVALID_CURSOR" \in q.flaws THEN "INVALID_CURSOR" ELSE ""
  IN
  /\ Idle /\ q.route = "ledger" /\ Screen(q) = "" /\ reading.route = ""
  /\ walk.at = "open" => walk.wallet = w
  /\ IF code # "" THEN Fail(q, code, NoCommand) /\ UNCHANGED walk
     ELSE /\ Answer(q, 200, "", NoCommand, {})
          /\ walk' = [from EXCEPT !.at = IF page.next = NoCursor THEN "done" ELSE "open",
                                  !.got = @ \o page.entries, !.cursor = page.next]
  /\ NoEffect /\ UNCHANGED <<refused, reading, faults>>

Reconcile(q) ==
  LET r == Reconciliation(q.cmd.wallet) IN
  /\ Idle /\ q.route = "reconcile" /\ Screen(q) = ""
  /\ IF r.code # "" THEN Fail(q, r.code, NoCommand) ELSE Answer(q, 200, "", NoCommand, {r})
  /\ NoEffect /\ Quiet /\ UNCHANGED faults

\* The first statement of getTransaction, by id or by external id: only rows of the
\* provider are seen.
GetTransaction(q) ==
  LET rows == IF q.route = "getTransaction" THEN {q.tx} ELSE ByExt(wager, q.cmd)
      mine == {t \in rows \cap TxIds : /\ wager[t].status # "NONE"
                                       /\ wager[t].cmd.provider = q.cmd.provider}
  IN
  /\ Idle /\ q.route \in {"getTransaction", "getExternal"} /\ Screen(q) = ""
  /\ reading.route = "" /\ walk.at = "none"
  /\ IF mine = {} THEN Fail(q, "NOT_FOUND", NoCommand) /\ UNCHANGED reading
     ELSE /\ \E t \in mine : reading' = [route |-> q.route, row |-> wager[t]]
          /\ UNCHANGED answer
  /\ NoEffect /\ UNCHANGED <<refused, walk, faults>>

\* The second one: the wallet of the wager, perhaps after other commits.
GetTransactionWallet ==
  /\ Idle /\ reading.route # ""
  /\ Answer(reading, 200, "", NoCommand,
            {ResultView(reading.row, wallet[reading.row.cmd.wallet])})
  /\ reading' = NoReading
  /\ NoEffect /\ UNCHANGED <<refused, walk, faults>>

(***************************************************************************)
(* The rest of the system, by its commits.                                 *)
(***************************************************************************)
Elsewhere ==
  /\ Idle
  /\ \E id \in TxIds :
       Resolve(id) \/ \E r \in Requests : Repeat(r, id) \/ (NewId(id) /\ Decide(r, id))
  /\ InsertLedger /\ UNCHANGED <<steps, faults>> /\ Quiet /\ UNCHANGED answer

SetClock == Idle /\ StepBack /\ UNCHANGED faults /\ Quiet /\ UNCHANGED answer

\* An answer is looked at before anything else happens: it stays true or not, but
\* nothing that follows depends on it.
Deliver ==
  /\ ~Idle /\ answer' = NoAnswer
  /\ walk' = IF walk.at = "done" THEN NoWalk ELSE walk
  /\ NoEffect /\ UNCHANGED <<refused, reading, faults>>

HttpNext ==
  \/ \E q \in Calls : \/ Refuse(q) \/ Break(q) \/ CreateWallet(q) \/ ProcessWager(q)
                      \/ GetWallet(q) \/ Ledger(q) \/ Reconcile(q) \/ GetTransaction(q)
  \/ GetTransactionWallet \/ Elsewhere \/ SetClock \/ Deliver

HttpSpec == HttpInit /\ [][HttpNext]_allvars

(***************************************************************************)
(* Properties.                                                             *)
(***************************************************************************)
\* A client that walks through the pages of a ledger gets every entry that was there
\* when it started, and none twice: also while entries are appended, and when the
\* clock was set back so that times repeat or run against the order of the commits.
\* If it never was, the pages show the newest entry first, in the order of the commits.
WalkComplete ==
  /\ \A i, j \in DOMAIN walk.got : walk.got[i] = walk.got[j] => i = j
  /\ walk.at = "done" => walk.old \subseteq {walk.got[i] : i \in DOMAIN walk.got}
  /\ steps = MaxSteps => \A i, j \in DOMAIN walk.got : i < j => walk.got[i] > walk.got[j]

\* A reconciliation of a running system never reports a difference: it compares a
\* balance and a ledger of one moment.
ReconcilesAlways ==
  answer.route = "reconcile" /\ answer.status = 200 =>
    \A r \in answer.body : r.consistent /\ r.difference = String(0)

\* The balance of wallet w at version v, by its ledger; -1 when there is none.
BalanceAt(w, v) ==
  LET n == v - IF Accounts[w].initial > 0 THEN 0 ELSE 1 IN
  IF wallet[w].version = 0 \/ v < 1 \/ n > Len(ledger[w]) THEN -1
  ELSE IF n = 0 THEN 0 ELSE ledger[w][n].after

\* Whatever balance and version a client is shown, by a new wager, a replay or a
\* read in two statements, the wallet once had that balance at that version.
AnswersOnChain ==
  answer.status \in {200, 201, 202, 422} /\ answer.route \notin {"ledger", "reconcile"} =>
    \A b \in answer.body :
      BalanceAt(b.wallet, b.version) = ParseMoney(b.balance, Accounts[b.wallet].currency).minor

Recorded(c) == \E t \in Present(wager) : wager[t].cmd = c

\* A wager that is refused by its use case with 400, 404 or 409 has not been recorded
\* by an earlier call whose answer was lost, nor by the other transport; and one that
\* was called a conflict never will be.
RefusalIsTrue ==
  /\ answer.status \in {400, 404, 409} /\ answer.cmd # NoCommand => ~Recorded(answer.cmd)
  /\ \A c \in refused : ~Recorded(c)

Tens[n \in Nat] == IF n = 0 THEN 1 ELSE 10 * Tens[n - 1]

\* The cents that a decimal text stands for, by the weight of each digit.
Cents(text) ==
  LET p == IF Points(text) = {} THEN Len(text) + 1 ELSE CHOOSE p \in Points(text) : TRUE
      weight(i) == IF i < p THEN 100 * Tens[p - 1 - i] ELSE Tens[2 - (i - p)]
  IN MapThenSumSet(LAMBDA i : weight(i) * text[i], DOMAIN text \ {p})

WellFormed(text) ==
  /\ Cardinality(Points(text)) <= 1
  /\ text # <<>> /\ {text[1], text[Len(text)]} \subseteq 0 .. 9
  /\ \A i \in DOMAIN text : text[i] \in 0 .. 9 \cup {Point}
  /\ \A p \in Points(text) : Len(text) - p <= 2

\* An amount is accepted exactly when it is a decimal number of cents that an int64
\* holds, and then as that number: nothing is rounded, cut off or wrapped around.  What
\* String prints is read back as the same amount.  (This is about texts, not about
\* states: it is looked at while there is no wallet yet.)
MoneyExact ==
  (\A w \in Wallets : wallet[w].version = 0) =>
  /\ \A text \in Texts :
       LET m == ParseMoney(text, "BRL") IN
       IF WellFormed(text) /\ Cents(text) <= MaxInt THEN m = Parsed(Cents(text))
       ELSE m.code # ""
  /\ \A n \in 0 .. MaxInt : ParseMoney(String(n), "BRL") = Parsed(n)
=============================================================================

------------------------------- MODULE HttpApi -------------------------------
(***************************************************************************)
(* The HTTP boundary: the protected routes with their authentication,      *)
(* validation and error mapping, clients that follow the documented        *)
(* conduct (docs/http-error-contract.md), and WagerLedger behind them.     *)
(*                                                                         *)
(* One use case is one transaction of WagerLedger, except the replay of a  *)
(* transaction that still waits: its row is read first and the balance is  *)
(* read later, under the wallet lock (replayResult).  A request may fail   *)
(* before or after its commit and an answer may be lost; the client cannot *)
(* tell which.  The identity provider is ready before the server listens   *)
(* (module Lifecycle), so IDENTITY_UNAVAILABLE is never answered here.     *)
(***************************************************************************)
EXTENDS WagerDomain, Money

CONSTANTS
    Clients,
    Asks(_),     \* the requests a client may choose from: its one operation
    MaxFaults    \* bound on failed commits, lost answers and outages

Operations == {"wager", "open", "query", "transaction", "wallet", "reconcile"}

(* One request.  token, body and id say how far it is well formed; claim is the provider
   of the token and internal its wallet-service role. *)
Request ==
    [op: Operations, token: {"absent", "invalid", "unreadable", "valid"},
     claim: {"own", "other", "none"}, internal: BOOLEAN,
     body: {"broken", "incomplete", "complete"}, keyed: BOOLEAN,
     amount: Text \cup {Malformed}, currency: Currencies \cup {NoCurrency}, cmd: Command]

Requests == UNION {Asks(c) : c \in Clients}

ASSUME HttpAssumption ==
    /\ Requests \subseteq Request
    /\ MaxFaults \in Nat
    /\ MaxInt = MaxMinor
    /\ Currencies # {}
    /\ None \notin [status: Terminal, failure: FailureCodes \cup {None}, balance: Text]

Parsed(r) == ParseMoney(r.amount, r.currency)

(* ProcessWagerCommand and CreateWalletCommand, filled from the request. *)
CommandOf(r) == [r.cmd EXCEPT !.money = Parsed(r).money.minor]
WellPriced(op) == {r \in Requests : r.op = op /\ Parsed(r).error = ""}
HttpCommands == {CommandOf(r) : r \in WellPriced("wager")}
HttpOpenings ==
    UNION {[wallet: WalletIds, account: {r.cmd.account}, money: {Parsed(r).money.minor}] :
              r \in WellPriced("open")}

VARIABLES
    call,     \* each client's one operation, from its first request to its end
    faults,   \* failures so far
    wallets, rows, ledger, walletEvents, wagerEvents, inbox   \* WagerLedger

database == <<wallets, rows, ledger, walletEvents, wagerEvents, inbox>>
hvars == <<call, faults, database>>

L == INSTANCE WagerLedger WITH Messages <- {}, Commands <- HttpCommands, Openings <- HttpOpenings

-----------------------------------------------------------------------------
(* writeError: what an error of a use case is called outside. *)
WriteError(err) ==
    CASE err = "ErrNotFound" -> "NOT_FOUND"
      [] err = "ErrIdempotencyPayloadConflict" -> "IDEMPOTENCY_PAYLOAD_CONFLICT"
      [] err = "ErrExternalTransactionConflict" -> "EXTERNAL_TRANSACTION_CONFLICT"
      [] err = "ErrConflict" -> "CONFLICT"
      [] err \in {"INVALID_MONEY", "ErrInvalidTransaction"} -> "INVALID_REQUEST"
      [] OTHER -> "TEMPORARY_UNAVAILABLE"

HttpStatus ==
    [INVALID_JSON |-> 400, INVALID_REQUEST |-> 400, INVALID_ID |-> 400,
     IDEMPOTENCY_KEY_REQUIRED |-> 400, AUTHENTICATION_REQUIRED |-> 401, INVALID_TOKEN |-> 401,
     INVALID_TOKEN_CLAIMS |-> 401, INTERNAL_ROLE_REQUIRED |-> 403, PROVIDER_FORBIDDEN |-> 403,
     NOT_FOUND |-> 404, CONFLICT |-> 409, IDEMPOTENCY_PAYLOAD_CONFLICT |-> 409,
     EXTERNAL_TRANSACTION_CONFLICT |-> 409, TEMPORARY_UNAVAILABLE |-> 503]

Problem(err, code) == [http |-> HttpStatus[code], code |-> code, err |-> err, body |-> None]
Refusal(err) == Problem(err, WriteError(err))
NoAnswer == [http |-> 0, code |-> None, err |-> "lost", body |-> None]
Success(http, body) == [http |-> http, code |-> None, err |-> "", body |-> body]

(* ViewMoney, resultFrom and transactionView: balances leave as decimal text. *)
View(status, failure, minor) ==
    [status |-> status, failure |-> failure,
     balance |-> IF minor = NoResult THEN None
                 ELSE Amount([minor |-> minor, currency |-> NoCurrency])]

(* processWager answers 202 for a durable wait, 422 and 500 for a bad outcome. *)
ResultStatus(status) ==
    CASE status \in {"PENDING_REFERENCE", "PENDING"} -> 202
      [] status = "REJECTED" -> 422
      [] status = "FAILED" -> 500
      [] OTHER -> 200

Result(t, balance) == Success(ResultStatus(t.status), View(t.status, t.failure, balance))

-----------------------------------------------------------------------------
(* What a handler checks before the use case, in the order it does: the error of a check
   that fails, and nothing otherwise. *)
Error(fails, code) == IF fails THEN code ELSE ""
First(error, next) == IF error # "" THEN error ELSE next

Authentication(r) ==   \* Authenticator.Middleware
    CASE r.token = "absent" -> "AUTHENTICATION_REQUIRED"
      [] r.token = "invalid" -> "INVALID_TOKEN"
      [] r.token = "unreadable" -> "INVALID_TOKEN_CLAIMS"
      [] OTHER -> ""

Provider(r) == Error(r.claim # "own", "PROVIDER_FORBIDDEN")
InternalRole(r) == Error(~ r.internal, "INTERNAL_ROLE_REQUIRED")
Body(r) ==
    First(Error(r.body = "broken", "INVALID_JSON"), Error(r.body = "incomplete", "INVALID_REQUEST"))
Identifier(r) == Error(r.body # "complete", "INVALID_ID")
IdempotencyKey(r) == Error(~ r.keyed, "IDEMPOTENCY_KEY_REQUIRED")
Price(r) == Parsed(r).error

Checks(r) ==
    First(Authentication(r),
    CASE r.op = "wager" -> First(Body(r), First(Provider(r), First(IdempotencyKey(r), Price(r))))
      [] r.op = "open" -> First(InternalRole(r), First(Body(r), Price(r)))
      [] r.op = "query" -> First(Identifier(r), Provider(r))
      [] OTHER -> First(InternalRole(r), Identifier(r)))

Passes(r) == Checks(r) = ""

(* writeProblem of the check that failed; the error of a price goes through writeError. *)
Rejection(r) ==
    IF Checks(r) \in MoneyErrors THEN Refusal(Checks(r)) ELSE Problem(Checks(r), Checks(r))

(* The errors Process returns for a new or conflicting command, in its order.  ErrConflict
   is the unique index on the external id, when the row appeared after the lookup. *)
ExternalFirst(c, taken) ==   \* faulty: the external id is looked up before the key
    IF ~ L!ExternalIdIsFree(c) THEN {"ErrExternalTransactionConflict"} ELSE {}

ProcessErrors(c, taken) ==
    IF ~ L!KeyIsFree(c)
    THEN IF \E id \in TxIds : L!SamePayload(id, c) THEN {} ELSE {"ErrIdempotencyPayloadConflict"}
    ELSE IF ~ L!ExternalIdIsFree(c)
    THEN {"ErrExternalTransactionConflict"} \cup (IF taken THEN {} ELSE {"ErrConflict"})
    ELSE IF ~ L!Exists(c.wallet) THEN {"ErrNotFound"}
    ELSE IF ~ ValidCommand(c) THEN {"ErrInvalidTransaction"}
    ELSE IF \E ref \in L!ReferenceViews(c) :
               DecideNew(NewWagerTransaction(c), wallets[c.wallet].account, ref,
                         L!SuccessfulReversalExists(c.ref), wallets[c.wallet].balance).status
               = "PENDING"
    THEN {"MONEY_OVERFLOW"} ELSE {}

AccountTaken(account) == \E w \in WalletIds : wallets[w].account = account

-----------------------------------------------------------------------------
(* A client: its request, the last answer, and what it would have found when it sent:
   taken, the external id has a row; settled, its own transaction has its outcome. *)
Idle == [stage |-> "idle", request |-> None, answer |-> NoAnswer, found |-> NoRow,
         taken |-> FALSE, settled |-> FALSE]

HInit ==
    /\ L!Init
    /\ call = [c \in Clients |-> Idle]
    /\ faults = 0

At(cl, stage) == call[cl].stage = stage

(* An answer of the server on its way to the client, and what can become of it: the
   commit fails although it took effect, or the answer is lost. *)
Answer(cl, answer) ==
    \/ /\ call' = [call EXCEPT ![cl].stage = "told", ![cl].answer = answer, ![cl].found = NoRow]
       /\ UNCHANGED faults
    \/ /\ faults < MaxFaults
       /\ faults' = faults + 1
       /\ \E a \in {Refusal("unavailable"), NoAnswer} :
             call' = [call EXCEPT ![cl].stage = "told", ![cl].answer = a, ![cl].found = NoRow]

(* The client sends its request, for the first time or once more. *)
SendRequest(cl, r) ==
    LET own == r.cmd.ext
    IN  /\ call' = [call EXCEPT ![cl] =
              [@ EXCEPT !.stage = "sent", !.request = r,
                        !.taken = ~ L!ExternalIdIsFree(r.cmd),
                        !.settled = /\ rows[own].status \in Terminal
                                    /\ rows[own].cmd = CommandOf(r)]]
        /\ UNCHANGED <<faults, database>>

Start(cl) == At(cl, "idle") /\ \E r \in Asks(cl) : SendRequest(cl, r)

(* The documented conduct: repeat after 503 or silence, query after 202, correct what is
   refused and otherwise stop.  A query that finds the transaction waiting is repeated. *)
Waits(cl) == call[cl].answer.body # None /\ call[cl].answer.body.status = "PENDING_REFERENCE"

Repeat(cl) ==
    /\ At(cl, "told")
    /\ call[cl].answer.http \in {0, 503} \/ Waits(cl)
    /\ SendRequest(cl, IF Waits(cl) THEN [call[cl].request EXCEPT !.op = "query"]
                                    ELSE call[cl].request)

Finish(cl) ==
    /\ At(cl, "told")
    /\ call[cl].answer.http \notin {0, 503} /\ ~ Waits(cl)
    /\ call' = [call EXCEPT ![cl] = IF @.answer.http \in 400 .. 499 /\ @.answer.body = None
                                    THEN Idle ELSE [@ EXCEPT !.stage = "done"]]
    /\ UNCHANGED <<faults, database>>

(* A check of the handler fails. *)
RejectRequest(cl) ==
    /\ At(cl, "sent") /\ ~ Passes(call[cl].request)
    /\ Answer(cl, Rejection(call[cl].request))
    /\ UNCHANGED database

Serves(cl, ops) == At(cl, "sent") /\ call[cl].request.op \in ops /\ Passes(call[cl].request)

(* A dependency fails before anything is committed. *)
Unavailable(cl) ==
    /\ Serves(cl, Operations)
    /\ faults < MaxFaults /\ faults' = faults + 1
    /\ call' = [call EXCEPT ![cl].stage = "told", ![cl].answer = Refusal("unavailable")]
    /\ UNCHANGED database

(* processWager of a new command. *)
ProcessWager(cl) ==
    LET c == CommandOf(call[cl].request)
    IN  /\ Serves(cl, {"wager"})
        /\ L!Accept(c, None)
        /\ Answer(cl, Result(rows'[c.ext], wallets'[c.wallet].balance))

RefuseWager(cl) ==
    /\ Serves(cl, {"wager"})
    /\ \E err \in ProcessErrors(CommandOf(call[cl].request), call[cl].taken) :
          Answer(cl, Refusal(err))
    /\ UNCHANGED database

(* The replay: an outcome is answered as it was stored; a row that waits has no balance,
   so the wallet lock is taken first.  The key of a command names its row. *)
AnswersNow(t) == FALSE   \* faulty: a replay answers the current balance
HasResult(t) == t.result # NoResult

FirstAnswer(t) ==   \* faulty: a replay repeats the first answer
    IF t.attempts = 0 THEN Result(t, t.result)
    ELSE Success(202, View("PENDING_REFERENCE", None, t.result))
StoredAnswer(t) == Result(t, t.result)

ReplayStored(cl) ==
    LET c == CommandOf(call[cl].request)
    IN  /\ Serves(cl, {"wager"})
        /\ L!SamePayload(c.ext, c)
        /\ IF HasResult(rows[c.ext]) THEN Answer(cl, StoredAnswer(rows[c.ext]))
           ELSE /\ call' = [call EXCEPT ![cl].stage = "locking", ![cl].found = rows[c.ext]]
                /\ UNCHANGED faults
        /\ UNCHANGED database

LockWallet(cl) ==
    LET t == call[cl].found
    IN  /\ At(cl, "locking")
        /\ Answer(cl, Result(t, wallets[t.cmd.wallet].balance))
        /\ UNCHANGED database

(* createWallet. *)
OpenOrReset(cl) ==   \* faulty: an existing wallet is overwritten
    LET r == call[cl].request
        balance == Parsed(r).money.minor
    IN  /\ Serves(cl, {"open"})
        /\ \E w \in WalletIds :
              \/ L!CreateWallet(w, r.cmd.account, balance)
              \/ /\ wallets[w].account = r.cmd.account
                 /\ wallets' = [wallets EXCEPT ![w].balance = balance]
                 /\ UNCHANGED <<rows, ledger, walletEvents, wagerEvents, inbox>>
        /\ Answer(cl, Success(201, View("BALANCE", None, balance)))

CreateWallet(cl) ==
    LET r == call[cl].request
    IN  /\ Serves(cl, {"open"})
        /\ \E w \in WalletIds : L!CreateWallet(w, r.cmd.account, Parsed(r).money.minor)
        /\ Answer(cl, Success(201, View("BALANCE", None, Parsed(r).money.minor)))

RefuseWallet(cl) ==
    /\ Serves(cl, {"open"})
    /\ AccountTaken(call[cl].request.cmd.account)
    /\ Answer(cl, Refusal("ErrConflict"))
    /\ UNCHANGED database

(* getProviderTransaction and getTransaction. *)
QueryTransaction(cl) ==
    LET t == rows[call[cl].request.cmd.ext]
    IN  /\ Serves(cl, {"query", "transaction"})
        /\ Answer(cl, IF t.status = "NONE" THEN Refusal("ErrNotFound")
                      ELSE Success(200, View(t.status, t.failure, t.result)))
        /\ UNCHANGED database

(* getWallet answers the balance, reconcile its difference from the sum of the ledger. *)
Difference(w) ==
    wallets[w].balance - (L!Total(ledger[w], "CREDIT") - L!Total(ledger[w], "DEBIT"))

QueryWallet(cl) ==
    LET r == call[cl].request
        w == r.cmd.wallet
        found == IF r.op = "wallet" THEN View("BALANCE", None, wallets[w].balance)
                                    ELSE View("DIFFERENCE", None, Difference(w))
    IN  /\ Serves(cl, {"wallet", "reconcile"})
        /\ Answer(cl, IF L!Exists(w) THEN Success(200, found) ELSE Refusal("ErrNotFound"))
        /\ UNCHANGED database

(* The reference worker, beside the requests. *)
Elapse(id) == L!BackoffElapses(id) /\ UNCHANGED <<call, faults>>
Attempt(id) == L!WorkerAttempt(id) /\ UNCHANGED <<call, faults>>

Serve(cl) ==
    \/ RejectRequest(cl) \/ Unavailable(cl)
    \/ ProcessWager(cl) \/ RefuseWager(cl) \/ ReplayStored(cl) \/ LockWallet(cl)
    \/ CreateWallet(cl) \/ RefuseWallet(cl)
    \/ QueryTransaction(cl) \/ QueryWallet(cl)

HNext ==
    \/ \E cl \in Clients : Start(cl) \/ Repeat(cl) \/ Finish(cl) \/ Serve(cl)
    \/ \E id \in ExternalIds : Elapse(id) \/ Attempt(id)

HSpec == HInit /\ [][HNext]_hvars

(* The server answers what it received, the clients follow the documented conduct, and
   the reference worker keeps polling. *)
HFairSpec ==
    /\ HSpec
    /\ \A cl \in Clients : WF_hvars(Serve(cl) \/ Repeat(cl) \/ Finish(cl))
    /\ \A id \in ExternalIds : WF_hvars(Elapse(id) \/ Attempt(id))

-----------------------------------------------------------------------------
Told(cl) == call[cl].answer.body # None
BodyOf(cl) == call[cl].answer.body

(* What a client was told stays true: an outcome, its failure code and the exact balance,
   read back from its decimal text, are those of the stored transaction for ever after,
   by whichever request they were learnt; what was told to wait is stored and has used
   an attempt (docs/http-error-contract.md:94 "devolve o resultado histórico").  A
   reconciliation never tells of a difference. *)
ToldIsRecorded ==
    \A cl \in Clients : Told(cl) =>
        LET body == BodyOf(cl)
            t == rows[call[cl].request.cmd.ext]
        IN  CASE body.status \in Terminal ->
                     /\ t.status = body.status /\ t.failure = body.failure
                     /\ \E c \in Currencies :
                           ParseMoney(body.balance, c) = Ok(t.result, c)
              [] body.status = "PENDING_REFERENCE" -> t.attempts > 0
              [] body.status = "DIFFERENCE" -> body.balance.major = 0 /\ body.balance.cents = 0
              [] OTHER -> TRUE

(* A request sent after its transaction got its outcome is answered with that outcome or
   not at all: it is never told to wait again, and never refused. *)
NoStepBack ==
    \A cl \in Clients :
        /\ call[cl].stage \in {"told", "done"} /\ call[cl].settled
        /\ call[cl].request.op = "wager" /\ Passes(call[cl].request)
        => \/ call[cl].answer.http \in {0, 503}
           \/ Told(cl) /\ BodyOf(cl).status \in Terminal

(* A client told that its operation is refused can rely on it: no earlier attempt of its
   own or of anyone with the same command has taken effect (only the conduct after 503,
   "a mesma chave idempotente", makes this so). *)
RefusedHasNoEffect ==
    [][\A cl \in Clients :
          LET a == call'[cl].answer
          IN  /\ At(cl, "sent") /\ call'[cl].stage = "told"
              /\ call[cl].request.op = "wager" /\ Passes(call[cl].request)
              /\ a.http \in 400 .. 499 /\ a.body = None
              => \A id \in TxIds : rows'[id].cmd # CommandOf(call[cl].request)]_hvars

(* A wallet is opened by one request: a repeated or concurrent POST /wallets for the
   same player and currency is told CONFLICT, and then there is a wallet to be found. *)
OpenedOnce ==
    /\ \A a, b \in Clients :
          /\ call[a].answer.http = 201 /\ call[b].answer.http = 201
          /\ call[a].request.cmd.account = call[b].request.cmd.account
          => a = b
    /\ \A a \in Clients :
          call[a].answer.http \in {201, 409} /\ call[a].request.op = "open"
          => AccountTaken(call[a].request.cmd.account)

(* A client that follows the documented conduct learns what became of its operation,
   through failures, lost answers and a reference that never comes; only an amount
   beyond int64 keeps it repeating (see UnavailableIsTransient). *)
EveryCallEnds ==
    \A cl \in Clients :
        At(cl, "sent") ~> At(cl, "done") \/ At(cl, "idle") \/ call[cl].answer.err = "MONEY_OVERFLOW"

(* TEMPORARY_UNAVAILABLE is answered when a dependency failed and at no other time
   (docs/http-error-contract.md:48 "Dependência técnica indisponível ou timeout de
   infraestrutura"); a value that does not fit is INVALID_REQUEST (line 35). *)
UnavailableIsTransient ==
    \A cl \in Clients :
        call[cl].answer.code = "TEMPORARY_UNAVAILABLE" => call[cl].answer.err = "unavailable"
=============================================================================

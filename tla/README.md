# A TLA+ development of the wallet SDK

The repository is a wallet SDK in Go. It derives accounts, builds and signs
transactions for sixteen families of chains (`signing/`), talks to their nodes
(`rpc/`), quotes and builds swaps through several trading channels (`dex/`),
and offers all of this to phones through a flat facade (`mobile/`).

This directory holds TLA+ modules that model the parts of it where order,
failure, rounding and reuse decide whether the wallet is right; TLC
configurations that check them on small instances; and proofs, checked by
TLAPS, of some of their properties for every instance.

    tlc -config MCPayment.cfg MCPayment.tla            # one run
    tlapm SharedClientsProofs.tla                      # one module of proofs

`PROJECT.json` lists the runs, what each definition models line by line, the
hazards the properties are for, and, for every property, a mutant of a
definition that the property refutes.

## 1. Inventory

### mobile/trade: the trade facade
*State*: package variables, one client per trading channel (two maps of
Uniswap clients by chain name and by chain id, a Bridgers client, a Jupiter
client, a Bungee client and a server proxy that are made on first use), keys,
affiliates, the server URL; two locks. *Operations*: `Init` replaces
everything; `AutoQuote`, `CheckTx`, `BuildTx`, `SubmitIntent` and the permit
calls look a client up and use it. *Hard*: Init replaces and closes clients
while calls use them, keeps the clients whose configuration did not change,
and may fail half way; the lazy makers give a read lock back before they take
the write lock. *Right when*: no call uses a closed client; no connection
leaks; the registry is always that of the last successful Init, whole; every
Init returns.

### dex: the quote engine
*State*: the answers of one request. *Operations*: `Quote` asks all channels at
once under one deadline and ranks the answers; `Recommend`, reasons. *Hard*:
answers in any order and around the deadline, thin pools and price impact,
one reason for many failures. *Right when*: nothing is lost, the ranking does
not depend on the order of arrival, no route with a warning is recommended,
the reason is the true one, a deadline that passed included.

### dex/univ3: Uniswap V3
*State*: `deployChecked` under `deployMu`; the pool cache, the flights and the
semaphore of slots under `poolMu`. *Operations*: `Quote` (verification,
candidate routes, pools, quoter calls, minimum, fee, calldata), `Status`,
`AttachPermit`, `BuildUniv3PermitTypedData`, the decoder of swap calldata.
*Hard*: goroutines per candidate, single flights, a cache with a time to live,
two kinds of slots, a context that may end anywhere, two roundings on two
sides of a router, a nonce and a clock between signature and execution.

### dex/univ2, bridgers, bungee, jupiter, lifi, okx, oneinch, pancakeswap
Clients of other channels: Quote, approval, build, order status. `univ2` keeps
two flags like Uniswap V3 but without a single verification: any number of callers
ask the router at once, each flag is set when an answer is right; Bridgers caches
token lists; Jupiter retries. The others keep nothing. *Hard*: a route is put
together from two or three answers; the order of a swap is generated after its
transaction is broadcast, and that answer may be lost; the wallet polls before
the provider has seen the transaction, and each provider has words of its own
for "not yet", "refunding" and "given up". *Right when*: what the user signs is
within what was asked, a final status is the fate of the money, and the wallet
that keeps asking gets one.

### rpc: the chain handlers
One handler per family: `CheckTx`, `GetTransfersByHash`, `SendTx`,
`GetHeight`, `InquireChain`. *State*: none but HTTP clients (a rate limiter for
one UTXO service, a header set by the Algorand and Stellar handlers). *Hard*:
one operation reads a node several times while the chain grows, reorganises,
and the endpoints behind one URL lag behind each other; a polled answer is
acted on once. *Right when*: a verdict is never taken back, a final
transaction is told in the end, reported transfers are those of one execution,
and a deposit is not rejected because one endpoint lags.

### signing: the transaction builders
One builder per family with one interface: `Build`, `Sign`, `ConcatSignature`,
`GetSigHash`, `GetUnsignedHex`, `GetTxHash`, `Set...`, and for some
`NewTxBuilderFromUnsignedHex`. *State*: the ingredient, the digests, the
unsigned transaction, the hash. *Hard*: the caller may build again while an
outside signer works, go on after a failed Build, or go on in another process.
*Right when*: what comes out of ConcatSignature is what was built, signed by
its owner, and the hash is its hash. The UTXO builders and Kaspa also decide
amounts: *right when* the fee pays for the size and little more.

### mobile/example
One program per family that does what a wallet does with these packages: read
what the transaction is built on (a nonce, coins, a recent block) and the fees,
build, sign, send, poll `CheckTx`. *State*: none; a second run starts from what
the node says. *Hard*: an answer of SendTx is lost after the node took the
transaction, patience ends before the verdict, and the next run reads from an
endpoint that lags. *Right when*: two runs do not both pay unless the second one
could know of the first, and what was built on an up-to-date answer is not
refused.

### mobile/tx, mobile/acc
Facades over `signing/`. `mobile/tx` wipes the caller's key after signing and
shows only the first digest; `mobile/acc` derives and returns strings.

### common, contracts
`common/httpc` and `common/jsonrpc`. *State*: of a client, the base URL, the
limits and the limiter; a counter of request ids. *Operations*: `Execute`, `Get`,
`Post`, `Call`, `SetBaseUrl`. *Hard*: one client serves several calls, and the
base URL may be set between one call's steps; a body may be longer than the limit;
a reply may be another request's. *Right when*: an answer is that of the document
asked for, whole, and an error says what happened. `common/bigdec` and
`common/dexmodel` are data; `contracts/` encodes calls.

### crypto
Phrases, secret sharing (`crypto/sss.go`, `internal/shamir`), keystores and sealed
texts (`keystore.go`, `cipher.go`), derivation of keys. *State*: none in the
package; shares and documents are kept by the user, for years. *Hard*: shares of
several splits of one phrase look alike, and every set of points interpolates to
something; a document is altered where it is kept. *Right when*: what is recovered
is what was backed up, or an error.

### How they interact
`mobile/trade` holds the `dex` clients and hands them to the quote engine as
channels; `dex/univ3` calls an EVM node, and the transaction it builds is
signed by a builder of `signing/evm` through `mobile/tx`, sent and polled by
`rpc/evm`; `mobile/example` shows the whole way for each family. `rpc/utxo` fills the coin list that `signing/utxo` spends. The
interfaces are Go calls, shared pointers (the coin list), package variables
(the registry) and a hex string that may travel to another process.

## 2. The modules

| Module | Component | Code |
|---|---|---|
| `TradeLifecycle` | client registry | `mobile/trade/trade.go`, `univ2.go`, `univ3.go`, `univ3_permit.go`, lazy makers of `auto_quote.go` |
| `PoolOracle` | what a pool lookup promises (abstract) | the contract of `poolExists` |
| `PoolCache` | pool lookup of Uniswap V3, implements `PoolOracle` | `dex/univ3/quote_client.go` 640-790 |
| `Deployment` | one-time verification | `dex/univ3/quote_client.go` 920-1047 |
| `Univ3Quote` | one quote | `dex/univ3/quote_client.go` 130-700 |
| `SwapTransaction` | calldata, permit, execution | `dex/univ3/quote_client.go`, `permit.go`, `mobile/trade/univ3_permit.go` |
| `SwapDecode` | decoder and encoder of swap calldata | `dex/univ3/client.go` |
| `SwapPreview` | what is decoded, with `SwapTransaction` | `dex/univ3/client.go`, `permit.go` |
| `QuoteEngine` | quote engine | `dex/engine.go` |
| `Ranking` | a stable sort, used by `QuoteEngine` and `UtxoBuild` | `sort.SliceStable` and `sort.Slice` as these call them |
| `SwapRoutes` | from a provider's answers to a route, for seven channels | `dex/bridgers`, `bungee`, `jupiter`, `lifi`, `okx`, `univ2`; dispatch of `mobile/trade/auto_quote.go` |
| `SwapStatus` | from a provider's words to a status | the same, `dex/univ3/status.go`, `mobile/trade/check_tx.go` |
| `Trade` | quote, build, send, submit, poll: composes the three | `mobile/trade/auto_quote.go`, `build_tx.go`, `submit.go`, `check_tx.go` |
| `EvmTransfers` | `GetTransfersByHash` of EVM | `rpc/evm/handler.go` |
| `NodeAnswers` | what `CheckTx` of sixteen handlers makes of an answer | `rpc/*/handler.go` |
| `ChainStatus` | polling `CheckTx` while the chain goes on | `rpc/*/handler.go` |
| `Transfers` | `GetTransfersByHash` of eight of them, on top of `ChainStatus` | `rpc/*/handler.go`, `rpc/confirmations.go` |
| `TonTrace` | both operations of TON, whose payments are traces; extends `Transfers` | `rpc/ton/handler.go` |
| `RouterCheck` | verification of the V2 chain and router, without a lock; extends `Deployment` | `dex/univ2/client.go` |
| `Transport` | requests over one HTTP or JSON-RPC client; extends `Deployment` | `common/httpc/*.go`, `common/jsonrpc/jsonrpc.go`, `getTokenInfo` of `rpc/ton/handler.go` |
| `SharedClients` | composes `Deployment`, `RouterCheck` and `Transport` | the three kinds of clients that goroutines share |
| `SecretSharing` | phrases, GF(256), split and recovery | `crypto/bip/bip39.go`, `crypto/internal/shamir/shamir.go`, `crypto/sss.go`, `mobile/util/mnSss.go` |
| `SeedBackup` | backup and recovery over time: shares or a sealed document | `crypto/keystore.go`, `crypto/cipher.go`, `crypto/aes.go`, and the above |
| `Wallet` | composes `SeedBackup` and `TxBuilder` | the recovered phrase signs |
| `TxBuilder` | builders of all chains, both facades | `signing/*/tx.go`, `mobile/tx/utxo.go` |
| `Payment` | build, send, poll and try again, for sixteen families | `mobile/example/*/main.go`, `SendTx`, nonces and coins of `rpc/*/handler.go` |
| `UtxoBuild` | amounts of the UTXO builders and Kaspa, the coin list | `signing/utxo/tx.go`, `signing/kaspa/tx.go`, `signing/utxolist.go` |

The modules meet where the code does. `PoolCache` implements `PoolOracle`, and
`Univ3Quote` uses of a pool lookup only what the oracle promises (an answer or
an error, in any order, and that it returns). `Deployment` is the step before
`Univ3Quote`. `SwapTransaction` starts from the route that `Univ3Quote`
returns. `QuoteEngine` sees a channel as a route, an empty answer or an error;
`Trade` puts the engine in front, takes one of its routes with the details of
`SwapRoutes`, and follows the swap with the operators of `SwapStatus`.
`ChainStatus` and `EvmTransfers` share the idea of a chain that forks, at two
levels of detail: in one the blocks and what they execute, in the other the phases
of one transaction. `Transfers` extends `ChainStatus`, calls its `CheckTx` first,
as the code does, and lets its chain and endpoints go on between the reads.
`TonTrace` extends it once more with the trace, for a chain that the other two leave
alone. `SwapPreview` puts the decoder next to `SwapTransaction`, whose transactions
are one kind of calldata that a wallet is shown. `Payment` polls with the same operators of `NodeAnswers` as `ChainStatus`.
`TxBuilder` takes the success of a Build as given, `UtxoBuild`
decides it. `RouterCheck` and `Transport` take their callers, contexts and answers
from `Deployment`, and `SharedClients` runs either of the three. In `Wallet` the
builders of `TxBuilder` exist once the phrase that `SeedBackup` recovered is the
account's own.

### State and actions against the code
- **TradeLifecycle.** `univ2Map`, `univ3Map` and the settings are one record of
  the registry; the RWMutex is the set of readers, the writer and who waits;
  `open` and `closed` are ghosts for connections. Init is a sequence of actions
  (take `tradeInitMu`, compare, dial candidate by candidate, Bridgers, swap under
  the write lock, close what was replaced), any of which may fail as in the code.
  A call is look-up, use, release.
- **PoolCache.** A goroutine of `resolveCandidatePools` is a program counter per
  quote and pool: read the clock, look into the cache, join or lead a flight,
  wait for a slot or the context, look again, call, store, land. The clock is
  discrete and stops where a deadline makes a local step urgent.
- **Deployment.** A caller reads the flag under RLock, locks, reads it again,
  asks for the chain id, asks for all contracts at once, decides. Every answer
  may be wrong or an error; a context may end at any time.
- **RouterCheck.** The callers of `Deployment` again: read a flag, ask the node with
  no lock held, set the flag. Nothing stops two of them from doing the same.
- **Transport.** A request is a record of the caller: what it asks for, the URL it
  built, its id, whether it left, what came. `base` and `tokens` belong to the client.
  A body is its size, of which the limit and one more are enough to tell; a reply of
  JSON-RPC carries the id of any request in flight, or an old one. Three users: a
  handler whose base never changes, TON's `getTokenInfo`, JSON-RPC.
- **SecretSharing.** A byte is the set of its bits, so that addition is symmetric
  difference and multiplication by x a shift; `Split`, `Combine`, `PerformSplit`,
  `PerformRecover` are the code's checks in its order. Random bytes and the shuffle
  of coordinates are inputs.
- **SeedBackup.** `splits` and `document` are what the user keeps; a recovery takes
  any three of the shares, one of them perhaps altered in any field, an opening any
  tampered document with any secret. Keys are what they are derived from.
- **Univ3Quote.** `candidateRoutes` in the order of the code; pools answered one
  by one; quoter goroutines under `MaxSlots`; the choice by amount and index;
  slippage, fee, minimum and the last look at the context.
- **SwapTransaction.** A transaction is a sequence of calls (`selfPermit`,
  `selfPermitIfNecessary`, `exactInput` to the user or to the router,
  `unwrapWETH9WithFee` or `sweepTokenWithFee`); the router executes them in order
  or not at all. External actions: the clock, other permits, other swaps, a
  front-runner that submits the permit.
- **QuoteEngine.** One action per answer and one for the response; values are
  integers in units of 1/Scale dollar, a price impact is any integer, as nothing
  keeps a provider's below 100 percent; the stable sort places each answer by the
  number of those that come before it, in the code's comparison with the index as
  the last key (`Ranking!InOrder`).
- **SwapRoutes.** An address is one of two contracts, nothing, or text that is no
  address; `<Channel>Routes(ask)` is the set of the routes that the client can
  return, over all that its provider can answer. A route has one field that the
  user does not see: the minimum that its transaction enforces.
- **SwapStatus.** The words of the providers are tables, external; one operator
  per client says what it makes of a reply.
- **Trade.** `AutoQuote` is the engine; `Take` and `Quoted` pick the details of
  the route; `BuildTx`, `Submit`, `Poll` are the operations of the facade; the
  source chain, the provider (`Becomes` is the course of a deal) and the user
  are external. A poll that is not final changes nothing.
- **EvmTransfers.** `pc` walks through the reads of `CheckTx` and of
  `GetTransfersByHash`; between any two the chain may add a block or replace
  blocks, and a node that is behind may have no block, no receipt, or no second
  receipt (`logged`). An execution is a tree of frames by trace address and the logs;
  `Effect` says what it does, creations and self-destructions included; `NativeChange`
  what the handler makes of its trace, and `ByCalls` the effect without the frames that
  it overlooks.
- **ChainStatus.** A view of the transaction is its phase, the number of forks
  that had undone its inclusion (its era), and its outcome; each endpoint has a
  view that is not newer than the chain's; the operators named after the handlers
  say what each makes of the answer it reads, those that read twice of both.
  `Returned` adds the status Unknown, which MultiversX' handler gives for a transaction
  that failed with the status `fail`.
- **Transfers.** `call` is what `GetTransfersByHash` reads next: the status (an
  action of `ChainStatus`), the height for `Confirmations`, the contents. `Enough`
  says for an endpoint of the same, an earlier or a later era whether it counts
  enough blocks; the operators `...Contents` say what each handler makes of the
  last read. The transaction is of a form: native, token or other.
- **TonTrace.** The trace is the sequence of transactions along the first message of
  each, chosen at the start with what each will do; `done` of them are executed and
  `synced` says how many each endpoint has. `Walk` is `getHashStatus`, by the
  transactions that it can reach; a call is one
  step that may see any mixture of the endpoints' prefixes, because every read asks
  for another transaction and a transaction that is there stays there.
- **SwapDecode, SwapPreview.** Calldata is a tree of multicalls; a swap is a number.
  `DecodeCall` is the body of `decodeSwapInfos`, given what its recursive calls
  answer; `DecodeAt[n]` is the whole when n calls may still be inside each other, so
  that `maxMulticallDepth` is where it starts. What a router executes of the same
  tree, and under which deadlines and hashes, is `Executed`, external; it also says
  which swaps execute that the decoder has no selector for (`Unread`). `Within` says
  how deep calldata is.
- **Payment.** `pc` and `step` walk through `main` of the chain's program: the
  reads in its order, SendTx, its answer, the polls. What a transaction claims (its
  nonce, the coins it spends) is its `anchor`; the operators named after the
  handlers' calls say what an endpoint's answer makes of it. Each endpoint has a
  view of every run's transaction; the pool, the execution in any order, eviction,
  a payment from outside and lost answers are external actions.
- **TxBuilder.** One record per chain says what its Build resets and when, how
  many digests it makes, what ConcatSignature checks and what it reads again,
  whether another process can import, and where the hash comes from; the actions
  are the same for all chains because the interface is.
- **UtxoBuild.** A coin is its value, a script its length; the constants of the
  code (68, 58, 148, 34, 11 bytes; dust 546, 100000, 2000000; least fee 5000000)
  are used as they are.

## 3. The runs

All runs are complete: TLC explores every state of the instance.

| Run | Instance | Shows |
|---|---|---|
| `lifecycle` | two calling threads, seven configurations, three Inits, six connections | `NoUseAfterClose`, `NoLeak`, `RegistryMatchesConfig`, `LazyMatchesConfig`, `CallsReturn` |
| `pool_cache` | two quotes with a pool in common, a second pool, one slot, TTL 2, timeout 1, clock to 2 | `SingleFlight`; `ImplementsOracle`: the cache implements `PoolOracle`; `LookupsReturn` |
| `deployment` | two callers without end: two checks and the chain id for V3 and V2; two documents, one token, bodies of up to one byte over the limit | `PassedMeansRight`, `OneVerification`, `RouterTrusted`, `OwnFailure`; `AnswerIsOwn`; `CallersReturn` |
| `univ3_quote` | six candidates over six pools, two amounts, two slots | `RouteIsBest` (and its minimum and fee are those asked for), `NoRouteExplained`, `QuoteReturns` |
| `swap_transaction` | quoted 1 and 20001, five market amounts around the two roundings, clock to 3; calldata of up to three multicalls in each other, decoded to depth 2, with calls that are no swap and swaps without a selector beside the others | `UserProtected`, `AttachedFailsForReason`; `DecodedIsExecuted` |
| `trade` | four requests of up to three candidates, fifteen kinds of answers, of a price impact of 100 and of 150 percent too; seven channels on the device or through the server | `RecommendedIsBest` (with `RankingFair`), `ReasonExplains`; `RouteBounded`; `FateTold`, `SwapEnds` |
| `evm_transfers` | about fifty executions of calls, delegatecalls, creations and self-destructions, five blocks, two reorganisations of depth two, nodes that are behind or cannot trace | `TransfersTrue`, `NativeOfOneExecution` |
| `chain_status` | seventeen chains, two endpoints, one fork, three forms, with and without confirmations; traces of up to four transactions | `VerdictHolds`, `TransfersSettled`, `RejectionHolds`, `TraceVerdictHolds`, `PollingEnds` |
| `payment` | the programs of sixteen families, two runs, two polls, two endpoints | `PaidOnce`, `AnchorFits` |
| `tx_builder` | two phrases and three texts that are none, two splits, four shapes, three shares, every field altered, four passwords, four keys; then sixteen builders, two facades, two Builds, four ingredients, one signature kept | `RecoveredIsBackedUp`; `BuiltCompletes`, `SignedIsBuilt` (and `GetTxHash` names it), `RefusedIsNotSigned` |
| `cosmos_rebuild` | the Cosmos builder alone | `RebuiltCompletes` is violated, see section 6 |
| `utxo_build` | six networks, three calls, coins and amounts on both sides of every limit | `FeeIsFair`, `RefusedOnlyWhenShort` |

`TypeOK` is checked in every module: as a conjunct of one of the
properties (`RegistryMatchesConfig`, `SingleFlight`, `RecommendedIsBest`, `NoRouteExplained`, `AttachedFailsForReason`,
`TransfersTrue`, `VerdictHolds`, `TraceVerdictHolds`, `PaidOnce`, `BuiltCompletes`, `FeeIsFair`); for
`Deployment` it is part of the inductive invariant that is proved.

### Why the bounds are enough
- `lifecycle`: two threads are one that holds the read lock and one that waits or
  makes a client lazily; three Inits are one that installs, one that keeps some
  and replaces some, and one that fails or drops. The configurations add, keep,
  change and remove a chain, list one twice, and fail after both families were
  built.
- `pool_cache`: two goroutines are a leader and one that waits, that comes when
  the flight has landed, or when the answer has expired; a third one does what the
  second does. TTL and timeout differ, and the clock reaches both. The second pool
  is there to take the slot away.
- `deployment`: one caller verifies, the other waits or comes later, or (V2)
  verifies too; they call without end, so the number of calls is not bounded. Two
  requests with one token let one of them wait for the limiter or set the base URL
  between two steps of the other.
- `univ3_quote`: two tiers and two base tokens give direct routes and routes of
  two hops that share pools; two slots for up to six candidates make goroutines
  wait.
- `swap_transaction`: 20001 at 1 % and 50 % has a remainder in every rounding; 1
  has a minimum of zero. The theorem `MinimumHolds` drops these bounds. The decoder
  goes one level less deep than the calldata does (8 in the code); two calls beside
  each other, on two levels, put each envelope inside, outside and beside each other.
- `trade`: an amount of 2 with a slippage of 50 % gives minimums that are shown,
  rounded to zero, and below what is enforced; the fee limits are on both sides of
  the SDK's and of the protocol's; an answer names another contract, another
  amount, no contract. Every stage of a deal is polled before and after the source
  transaction is mined, fails or never comes.
- `evm_transfers`: a call in a call and two calls cover a failure above, beside
  and below; two reorganisations fit between any three reads.
- `chain_status`: two endpoints give every lag of one read behind another; one
  fork gives two inclusions with different outcomes, of which the endpoints see
  either. The traces of TON end at each transaction of a payment of coins or jettons,
  in success, in failure, or by a message that comes back.
- `payment`: a run and the one that repeats it; a third sees two earlier payments
  where the second saw one. One poll before the last and the last one (forty in the
  programs). No forks here: they are in `chain_status`.
- `tx_builder`: shares of two splits, of the same phrase or not, with the same
  coordinates or not; the random bytes are chosen so that shares of two splits can
  pass the checksum, and fail by the fingerprint alone. The arithmetic is that of the
  code, in the whole field. Of the builders: the hazards are between one Build and the next; a third repeats
  the second. Two inputs tell one digest from one per input.
- `utxo_build`: the amounts are computed so that change is just dust, just below,
  and what is left is zero or one short, for one and for several coins.

`CHECK_DEADLOCK FALSE` is set where a system ends: a quote, a response, a bounded
clock or a bounded number of calls.

### Fairness
- `TradeLifecycle!FairSpec`: a call ends because its context has a deadline, a
  waiting thread is scheduled and Go's RWMutex lets a waiting writer in before
  new readers. Nobody has to call, and Init has to be called by nobody.
- `PoolCache!FairSpec`: the scheduler lets some goroutine go on, and the clock ticks
  unless a local step is due; a call to the node ends by the
  deadline of its context, an answer is never assumed.
- `SharedClients!SharedSpec`: calls to a node and exchanges with a server end for the
  same reason, or by the timeout of the HTTP client; the limiter serves who waits or
  fails it; strong fairness on the lock, since a `sync.RWMutex` starves nobody. Nobody
  has to call.
- `Univ3Quote!FairQuote`: pool lookups return (`LookupsReturn`) and quoter calls
  carry the context.
- `Trade!FairTrade`: channels return because their HTTP clients honour the
  deadline or have a timeout; a provider goes on with a swap that it knows of; the
  wallet asks again, for the number of the order until it has it, then for the
  status until it is final, and a reply that is not an error comes now and then.
  The user need not take a route, and a transaction need not be mined.
- `Transfers!TransfersFairness`: endpoints catch up, the caller keeps calling, and
  every kind of read is answered again and again. Nothing says which endpoint
  answers, and any call may fail. After a panic the application starts again.
- `TonTrace!TonFairness`: a trace that began goes on, since TON delivers every
  message; endpoints catch up and the caller keeps calling. The first message may
  never be accepted.

## 4. The proofs

Eight modules of proofs; every leaf is checked. `FiniteFacts` is the library of the
others: least elements and induction on the naturals stated for sets of numbers, sums
over finite sets (any element may be taken first, two parts add up, a renaming of the
places changes nothing), rounding, that the ranks of `Ranking!InOrder` name every
element once (`InOrderIs`), flattening (two lists of lists that agree pairwise agree when
they are flattened, `FlattenPairwise`, and nothing is lost, `FlattenHas`), and that a
function defined by what it is one step earlier exists (`IteratesForEver`), which lets a
proof use the equations of a recursive function.

**SharedClientsProofs.** The three shared clients and their composition, for any
callers and checks, documents and tokens. Of `Deployment`: `Sound`, `Once`, `FailsAlone`
(`PassedMeansRight`, `OneVerification`, `OwnFailure`), from an invariant of three
parts: types; the holder of the lock is the one caller that asks; and what a
caller was told is the truth or an error, a set flag means that all facts are
right. The last one relates the flag, which is never reset, to answers of calls
that ended long before, and is why `Sound` is inductive.

Of `RouterCheck`: `RouterSound` (`RouterTrusted`) and `RouterFailsAlone` (`OwnFailure`).
Without a lock the invariant cannot say who verifies; it says of every caller that what it
was answered is the truth or an error and that it is past a check only if the check is
true, which is why the races do not matter.

Of `Transport`: `OwnAnswer` (`AnswerIsOwn`) for `TransportSpec`, the part of `SharedSpec` in which the client is an HTTP
one. `Known` says what holds of a request at each step of its caller (the URL leads to
the document asked for or the caller was crossed; nothing has left before the exchange),
`IdsDiffer` that no two requests in flight carry one ID; a reply with the ID of the
request is therefore its own (`ReplyIsOwn`). That there always is an ID to give
(`FreshExists`) is the pigeonhole principle: who asks for one has none yet. Only
`SetBaseUrl` touches the requests of others, and each of these either has its URL or is
crossed.

`SharedSound` puts the three together: in `SharedSpec`, where the kind of the client is
one of the three, all five properties hold (`SharedInv`: of the kind that the client has,
its invariant; of the others nothing has happened).

**SwapTransactionProofs.** `MinimumHolds` (`UserProtected`) for every amount, fee
rate, slippage, price, nonce and clock. The argument: taking the fee is monotone
(`NetMonotone`: if the pools pay at least the gross minimum, then what is left
after the router's fee, rounded by the router, is at least the minimum after the
fee that the route promised, rounded by Quote), and every transaction that can be
submitted consists of the calls of its route with at most a permit in front.

`AttachedExplained` (`AttachedFailsForReason`) is proved on top of it. What the
transaction will meet in the router is not known when the permit is checked, so
`AttachInvs` keeps what was checked until it executes: the permit covers the amount and
outlives the route (`AttachedInv`), and a transaction that has failed did so for a
reason that can still be seen (`FateInv`: once a nonce is used or the time has passed it
stays so, and nothing restores the allowance after the end). `OutcomeAttached` runs the
three calls: behind a permit that was used, or was not needed, the swap has its
allowance, and behind a swap that paid at least its minimum the payment has the same one.

`DecodedExecutes` (`DecodedIsExecuted`) is for any set of calldata, of any shape, and any
limit on its depth. `Faithful` says what the decoder must answer about one call: an
error when it is nested too deep or needs two blocks, otherwise the swaps that execute
and that it has a selector for, pair by pair (`Matching`). `DecodesFaithfully` proves it by induction on the levels the
decoder may still go down; a multicall (`MulticallFaithful`) joins what its calls answer,
in one order here and in the router, so the joined lists match too (`FlattenPairwise`), an
error inside is an error outside, and a contradiction inside still is one outside
(`InnerContradicts`). What a multicall adds, a deadline or a block hash, keeps a match or
makes the contradiction that the decoder refuses (`StampShows`). For what the SDK encodes
itself, the invariant says that what is shown decodes to what was meant (`ShownInv`) and
that no route expires at 0 (`ExpiresInv`), a deadline that the decoder refuses. Assumed of
the calldata is that every call is a swap, with or without a selector of the decoder, a
multicall of calldata or something else
(`CalldataAssumption`), that some number limits its depth (`LevelsAssumption`: calldata is
finite), and that what the SDK encodes is calldata (`EncodedAssumption`).

**Univ3QuoteProofs.** Of the pool discovery, for any quotes, pools, slots and times: `OneFlight`
(`SingleFlight`) and `KeepsPromise` (`ImplementsOracle`), the step simulation of the
refinement: a goroutine that reads the clock is a call that begins, one that returns is
a call that returns, and everything else is a stutter or the clock or the chain. Both
follow from `PoolInv`. The refinement needs how old an answer may be wherever it is
kept: with the leader (`AnswerInv`: a pool said to be missing was created after the call
began, and not longer ago than Timeout, because the leader's context ends what it
waits for), in the cache (`CacheInv`: not longer than TTL before the entry expires) and
with those who wait (`HeardInv`: not longer than Timeout before their own call began,
though that is later than the leader's).

Of the quote, for any fee tiers and base tokens, amounts, slippage and fee:
`ReturnsBest` (`RouteIsBest`) and `ExplainsNoRoute` (`NoRouteExplained`), from `QuoteInv`:
the candidates that are quoted are complete and stay so, no call is in flight when the
choice is made, and the choice is the best of the answers (`ChoiceInv`); what was
returned had its reason (`ReturnInv`). The candidates are a sequence (`FlattenIs`), and of
finitely many amounts that are not all zero one is the best (`BestExists`): both by
induction. That the minimum after the
fee is not above the amount after the fee, though both round down, is `NetGrows`; that
the fee alone makes nothing zero, and only a gross minimum of zero refuses, `NetIs`.

**TxBuilderProofs, the protocol.** For every set of chains, facades and drafts and any number of
Builds and signatures: `BuiltSound` (`BuiltCompletes`), `SignedSound`
(`SignedIsBuilt`) and `RefusedSafe` (`RefusedIsNotSigned`), from the inductive
`ProtocolInv`. None of the three is inductive: an answer may come several Builds after
the question, so the invariant says what every question and every signature stands for
(`SignerInv`, by the number of the Build that made it; `StillNumbered` keeps an old one
apart from the next), that the builder's digests are those of its transaction or none
(`BuilderInv`), that what ConcatSignature reads of the ingredient again is as it was
(`IngredientInv`), which signature a result came from (`ResultInv`) and what the hash
names (`HashInv`). What is used of the chains is in two lemmas on the table of traits:
whoever resets the transaction resets the digests and the hash with it, and only three
chains take the hash from the digest.

**TxBuilderProofs, the amounts.** Of `UtxoBuild`, for all six networks, any coins,
amounts, rates, script lengths and memos, and any number of calls: `FeesFair`
(`FeeIsFair`) and `RefusalsFair` (`RefusedOnlyWhenShort`), from `UtxoInv`. The coins of a
list are a sum over its places. A sort only renames them (`SortedKeeps`), a selection is
the shortest prefix that reaches its target (`EnoughIs`), and what Kaspa may spend of a
sorted list is its end (`SpendableIs`, by counting), of which it takes as many as pay:
without the largest of them the others would not (`WithoutOne`, `KaspaInputsAre`). That
the fee is fair is arithmetic of each network's rules against what the network counts:
four times the estimate is never below the weight of the transaction and above it by at
most two units per input and twenty (`SizeIs`, `FeeIs`).
The Builds estimate twice, with change and without, and the two must agree on who is
refused: `SweepIs` and `PayIs` take the branches of the code one by one. The invariant
is needed because the list is shared: that nothing is missing after a selection that
failed is a statement on all the coins that were ever put there (`ListOK`).

**TransfersProofs.** What the caller of a handler is told of a transaction, for any set
of endpoints, over `AllSpec`, the composition of `ChainStatus`, `Transfers` and
`TonTrace`: `VerdictSound` (`VerdictHolds`), `TransfersSound` (`TransfersSettled`),
`RejectionSound` (`RejectionHolds`), `TraceVerdictSound` (`TraceVerdictHolds`). What an
endpoint shows was so once (`ViewInv`, by `Past`), whatever the chain has done since;
therefore a verdict is kept where nothing that was so is undone. A call that reads
several times may meet a fork between two reads: `Arrived` and `Confirmed` say what it
knows unless a fork took the era that it has seen, which is what `TransfersSettled` is
about and what makes it inductive. Of TON, a trace has an end (`Ended`), and the walk
speaks of that end or of a failure before it (`WalkSays`). Where `MultiversxStatus` is a
failure, the caller may be told Unknown instead, which is no verdict (`Returned`).

Of `EvmTransfers`, for any tree of call frames, any logs, heights and reorganisations:
`EvmTransfersSound` (`TransfersTrue`) and `NativeSound` (`NativeOfOneExecution`). The
handler adds up the calls of which no frame above failed; what an execution does is
defined by recursion, a frame that fails undoing all that it called. That the two agree,
but for the value of the creations and self-destructions that the handler overlooks
(`ByCalls`; `NativeIs`), is an induction over the depth of the tree: what runs in a frame is the
frame itself and, apart from each other, what runs in the calls it makes
(`UnderInside`), and a sum over such a family is the sum of the sums (`SumFamily`). Then
`EvmInv`: what the call has read of the transaction is still so while the transaction
keeps its block (`ReadsHold`: where it is, that it succeeded, its confirmations, its
logs), and a verdict is about a transaction that is in a block (`ReturnHolds`), without
which the next block could bring another one.

**PaymentProofs.** `PaysOnce` (`PaidOnce`) and `AnchorsFit` (`AnchorFits`), for any
number of runs, endpoints and polls and every chain that has a program (KRC-20, a token of
Kaspa, has none). What an endpoint shows as executed is what
was executed at some moment (`Snaps`), and of two such sets one contains the other
(`SnapInv`). A transaction built on one of them claims all that is free there (`FullInv`:
the one next nonce, all coins that are left), and what has been executed excludes each
other (`ExclInv`); two payments of one claim can both be executed only if the later run
was shown the earlier payment. `OutcomeInv` says that the verdict a run ends with is that
of its transaction, which several runs may have built alike (`SentInv`).

**TradeProofs, the registry.** For any threads, clients, keys, configurations and
number of Inits: `TypeCorrect`; `Connections`, the inductive invariant `ConnInv`:
every open connection is in exactly one of three places (installed, made by the
running Init, waiting to be closed by it), and those in the last are held by no
reader. It is needed because `NoUseAfterClose` alone does not say where a
connection comes from that Init will close in three steps. `Safety`
(`NoUseAfterClose`) follows from it, because the list of replaced clients is made
under the write lock. `LazyConfig` (`LazyMatchesConfig`): the write section
drops the lazily made clients whose settings changed, and a maker reads the
settings again under its write lock.

On top of `ConnInv`, for the same parameters: `NoneLeaked`
(`NoLeak`), from `LeakInv`: during an Init the open connections are the installed
ones and those it created, which are all in the maps that it builds (so a failure
that closes what was created closes exactly the difference, and the swap loses
none), and after the swap the installed ones and the retired ones. `RegistryKept`
(`RegistryMatchesConfig`), from `RegistryInv`: each map that Init builds matches the
entries it has been through, both keys of each, and no other (`MatchesOneMore`: an
entry that is no duplicate extends a match by one), so that the swap installs a match
of the whole configuration; and the settings a client was made from never change.

**TradeProofs, the trade.** The swap from the quote to the verdict, for every set of candidates and
of requests, every amount, slippage, fee limit and price, in `TradeSpec`; the invariant
is `EngineInv /\ TradeInv`.
`RecommendsBest` (`RecommendedIsBest`) and `ExplainsWhy` (`ReasonExplains`): the response
is a function of the answers, `Told(late)`, in whatever order these came. The ranking
places every route once because the engine's comparisons are strict total orders
(`Lexicographic`, `OrdersAreStrict`; the ranks are then an injection of a finite set
into as many places, hence onto). What it sorts by is within one unit of what a route
is worth (`KeyIsWorth`, on the rounding of two percentages), unless nothing is left of
it, so that the first of those without a warning is the best of them but for the
rounding and for such a route. `NO_ROUTE_AVAILABLE` is never said after the deadline of
the call, and a late call says that it was late.
`BoundsRoutes` (`RouteBounded`): every route a client can return for a request fits it,
one lemma per client (`BridgersFit`, `OkxFits`, `LifiFits`, `BungeeFits`, `JupiterFits`,
`RouterFits`), and a route that is quoted again, or built, replaces it only by one that
does.
`TellsFate` (`FateTold`): one lemma per client says of which states of the source
transaction and of the deal its words can be (`LifiTells`, ...); that a final one is for
good is `FateStays`, since neither the chain nor the provider goes on from there.

Assumptions: the `ASSUME`s on the constants in the component modules (finite types,
finitely many callers, the frames of an execution a finite tree, rates at most 100 basis
points, slippage below the whole, coins above zero, memos of at most 80 bytes, the
outputs of DOGE 23 to 25 bytes long, `Nil` none of the clients, `None` no transaction);
TLC evaluates them in each run.

Checked by TLC only: liveness (`CallsReturn`, `LookupsReturn`, `QuoteReturns`,
`CallersReturn`, `SwapEnds`, `PollingEnds`), which needs fairness and ENABLED;
`RecoveredIsBackedUp`: that three
shares give the secret is interpolation in GF(256), of products that are folds over
bits; and `Wallet`, which is composed with it. Every other property that a passing run
checks is stated by a theorem.

## 5. What the models leave out

- **Wording, encoding, cryptography.** Addresses, hashes and signatures are
  values; a signature is the pair of digest and key. Decoding of an address or a
  memo succeeds or not.
- **Cryptography** of backups. One byte stands for an entropy and one for the bytes of
  its hash, and no two entropies share a hash (`HashAssumption`): a recovery of shares
  that do not belong together passes with probability 2^-32 in the code. A ciphertext
  opens with its own key only. The limits on the size of a document are left out.
- **A keystore's initialization vector** is not covered by its MAC
  (`crypto/keystore.go:188`): with another one a phrase is refused, as it is no phrase
  any more, but a private key is read as other bytes. `RecoveredIsBackedUp` names this.
- **TON's `getTokenInfo`** sets the base URL of a client that all its calls share
  (`rpc/ton/handler.go:361`): of two at once, one may report the other's token.
  `AnswerIsOwn` names this as its one exception.
- **Settings of a client** other than the base URL (`SetTimeout`, `SetHeader`, limits)
  are set while it is made and are constants of `Transport`.
- **Floating point** of the engine: values are integers; `RecommendedIsBest`
  allows one unit of rounding.
- **A route of which nothing is left.** At a price impact of exactly 100 percent the
  expected fill is 0, which the sort takes for an unknown one: such a route is ranked
  by its gross value (`dex/engine.go:331`) and may be recommended. `RecommendedIsBest`
  excepts it (`NothingLeft`); above 100 percent the fill is negative, and the route
  comes behind those that carry the same warning.
- **What a provider is trusted with.** `RouteBounded` excludes LI.FI and Bungee,
  whose clients pass on the allowance and take the chain of the transaction from
  the answer; Uniswap V2 takes no fee, Jupiter none without an account for it. The
  approval of OKX across chains comes from a second call, which may name another
  contract than the transaction: `RouteBounded` says only how much it allows.
- **What a provider does not tell.** OKX has no status of swaps from or to TRON,
  and nothing that it says makes a swap across chains failed; Bridgers leaves some
  orders to its support (`error`), which stay pending; LI.FI never gives up on a
  transaction it has not seen. `Knowable` names these. Jupiter reports the error of
  a transaction that is only processed, which a fork may still undo. A provider
  that honours a deposit after it said `EXPIRED` is not modelled.
- **A route without a transaction.** `dispatch` of `BuildTx` tells the caller to
  read the transaction from the route, for all channels but OKX's price-only
  quote; OKX, LI.FI and Bungee may return a route that has none. Such a route can
  be taken and not sent.
- **64-bit overflow** in `UtxoBuild`: the sums are not checked by the code, and a
  Build with amounts near 2^63 can wrap. Coins in circulation are far below.
- **Panics.** `TxBuilder!Panics` names the states in which ConcatSignature of
  Algorand, NEAR, Stellar, and of an account activation on Solana takes the first
  digest of none: a builder restored with `SetUnsignedHex` alone, or used after a
  failed Build. A panic is not a step of the model.
- **Three exceptions of the caller's** in the properties of `TxBuilder`:
  `OneBuild` (Cosmos, section 6), `RawOfRaw` (a BTC Build with `IsPSBT` makes a raw
  transaction, which ConcatSignature then reads as a PSBT and refuses), `AtHome`
  (the activation of an imported Solana transaction has lost its second key).
- **Memos on LTC and SYS**: their Builds leave `Memo` out without an error;
  `UtxoBuild` models it so.
- **Kaspa transaction types** other than transfer, commit and reveal pass Build
  with an output of no value; `FeeIsFair` says nothing of what they pay.
- **Verdicts that are not kept.** `VerdictHolds` excludes chains that fork and the
  handlers (Starknet, Algorand) that take an error of one node for a failed
  transaction.
- **Rejections because of a node.** `RejectionHolds` excludes four handlers.
  Bitcoin's takes any error of the last read for a rejection; it sends the paths
  of BlockCypher and of Electrs to one URL (`rpc/utxo/handler.go:336`), so behind it
  must be a gateway for both, else every deposit is rejected. Cosmos' takes a code
  in the answer for a rejection that `CheckTx` takes for pending. Starknet and
  Algorand fail a transaction because of one node. Tron's last read takes the
  first contract of none when the node lags (`rpc/tron/handler.go:105`) and panics;
  `Transfers!Restart` goes on from there.
- **TON.** The coins of a message that does not bounce stay with an account whose
  contract fails; `CheckTx` calls that a failure, `TraceVerdictHolds` allows it
  (`KeptByContract`). An error in the body of an answer, other than "entity not
  found", is taken for a failure (`rpc/ton/handler.go:104`): `blamed`, allowed too. Only the first message of
  each transaction is walked, by the code and by the model: what the others do is not
  said. A bounce that cannot be paid for is not modelled.
- **Payments that may repeat.** `PaidOnce` excludes Solana, Tron and Algorand,
  whose transactions only refer to a recent block, so that nothing in them excludes
  a second one; and Kaspa with two coins, whose handler orders coins of equal value
  as a Go map gives them, so that the second run may spend the other coin. Its
  SendTx answers `SEND_RETRY_ONCE` when an input is spent in the pool; in the
  program that is an error like others.
- **Deposits that EVM's handler gives up.** Three, which `TransfersTrue` names, and no
  others; none of them needs a reorganisation. Its second read of the receipt may be
  answered by a node that has none (`rpc/evm/handler.go:186`): there are no logs, and a
  transaction that moved only tokens is rejected. The error of the trace is dropped
  (line 193): a contract that sent coins in a call inside is then taken for one that
  moved nothing. And a creation or a self-destruction has no type of call, so that the
  value it moves is not added up (line 795), even with a trace.
- **Swaps that the decoder does not see.** `dex/univ3/types.go:37` has six selectors.
  SwapRouter02's own `exactInput`, of four fields, and `exactOutput` of both routers are
  not among them. The decoder skips such a call inside a multicall, and the router
  executes it; alone, it is refused. `DecodedIsExecuted` is about the swaps with a
  selector and says of the others only that.
- **A failure that MultiversX's handler never tells.** It knows the status words
  pending, invalid and success (`rpc/multiversx/handler.go:114`). A transaction that was
  executed and failed with another one, `fail`, stays Unknown, and who polls for a
  verdict polls for ever. `PollingEnds` excludes failures on MultiversX. Which of the
  two words the node uses for a failure is chosen anew at every call of the model: more
  than a node does, and enough for the safety properties.
- **Stellar's account that is not active.** The program of the example goes on with
  sequence 0 for it (`mobile/example/stellar/main.go:43`). `Payment!StellarMain` leaves
  that branch out: its account is active.
- **Which transfers.** `Transfers` says whether transfers are reported, not which
  addresses and amounts they name. Of several senders of a Bitcoin transaction the
  code names one, whichever its map gives first (`rpc/utxo/handler.go:414`).

Not modelled, with the reason, in `PROJECT.json`: derivation of keys and addresses
(arithmetic of curves and hashes), contract encoders and data models (no state), the
signer of typed data among the examples, the clients that decode one answer (1inch
Fusion, PancakeSwap), the lists of chains, tokens and charts.

## 6. Findings

`cosmos_rebuild`: the repository's README says that every chain implements the
same contracts, so that callers integrate new chains with the same code shape.
The Build of every other chain starts from no digests or replaces them; that of
Cosmos (`signing/cosmos/tx.go:130`) appends its digest to those of earlier
Builds. A transaction that is built again, with another fee or sequence, cannot
be signed in place (Sign wants one digest), and an outside signer is shown the
digest of the first transaction, whose signature ConcatSignature puts on the
second.

## 7. Plan

What remains, most important first:

1. **Providers, the rest**: Bridgers' shared token list, Jupiter's gasless orders,
   raw quotes.
2. **Proofs**: of `SecretSharing`, that a field element has one inverse, which
   `RecoveredIsBackedUp` rests on.
3. **Transport**: redirections and headers, which carry the keys of providers.

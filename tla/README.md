# LendGuard in TLA+

A verification development of the LendGuard lending protocol: TLA+ models of its
Solana program, of the scripts that operate it and of the web application in
front of it; TLC runs that check them on small instances; and TLAPS proofs, for
every value of the constants, of the properties that matter most. Paths below are
relative to the repository root (`contracts/src/...`).

## 1. Inventory

### Parts and state

| Part | Code | State | Operations |
|---|---|---|---|
| Protocol | `initialize_protocol.rs`, `state/protocol_state.rs` | one `ProtocolStateAccount`: admin, global `frozen`, counters, `total_collateral_verified` | initialize, unfreeze |
| Custody vaults | `register_vault.rs`, `verify_custody_proof.rs`, `deposit_collateral.rs`, `close_vault.rs` | a `VaultAccount` per (owner, dWallet): asset, recorded deposit, proof status and time, `frozen`, lamports | register, verify, refresh, deposit, withdraw, reject, close |
| Risk and circuit breaker | `initialize_risk_state.rs`, `update_backing_state.rs`, `trigger_risk_check.rs`, `circuit_breaker.rs` | a `RiskStateAccount` per vault | create, set backing, trigger a check, freeze, unfreeze |
| Pool and prices | `lending.rs` | `LendingPool` (liquidity, scaled debt, borrow index, last slot), `AdminPriceFeed` per asset, LGUSD balances | create pool, create / close / update feed, SPL transfers |
| SOL-side lending | `lending.rs` | a `BorrowPosition` per vault (scaled principal) | borrow, repay, liquidate |
| Bitcoin lending | `btc_lending.rs`, `register_btc_vault.rs`, `attest_btc_balance.rs`, `verify_btc_custody_proof.rs` | `BtcVaultAccount`, balance attestation, position | register, attest, verify, refresh, borrow, repay, liquidate, finalize |
| Daemons | `contracts/scripts/btc-balance-keeper.mjs`, `btc-liquidation-broadcaster.mjs` | in memory only | poll and attest; broadcast, wait, finalize |
| Operator's scripts | `bootstrap-devnet.mjs`, `refresh-prices.mjs`, authority scripts | a record of the LGUSD mint | resumable creation sequence; post prices |
| Web client | `web/lib`, `web/app` | browser state, local event log | the demo, the lending page, `sendIx`, RPC retries, the lender gate |
| SDK | `packages/sdk/src` | none | encode instructions, decode accounts |

### How they interact

Every state change of the protocol is a Solana transaction that runs its
instructions atomically; an error undoes all of it. Concurrency on the chain is
the interleaving of transactions of different signers (owners, liquidators, the
protocol admin, price admins, the keeper) and the passing of slots between them.
Accounts are the shared state: borrowing reads the vault, the protocol flag, the
price and the pool; liquidating writes vault, position, pool and balances; custody
instructions write the vault under an open position without looking at it.

Off the chain, scripts and pages read accounts, decide, and submit later. Between
the two anything may happen: their process may stop, an answer may be lost, a
submitted transaction may land after its sender gave up, the chain may have moved.
The broadcaster stands between two chains: the first phase of a Bitcoin
liquidation commits a sighash on Solana, the transaction is published on Bitcoin,
and the second phase on Solana follows its confirmations.

### What is hard, and what makes each part correct

* **Two records of one fact** (program). `LendingPool.total_borrowed` against the
  positions, `total_collateral_verified` against the vaults: three instructions on
  each side update the first, four the second, each with `checked_sub`s that reject
  an honest transaction if the records have drifted the wrong way. Correct: the
  ledgers agree, and what an owner is entitled to (repay, exit) stays possible.
* **Truncating fixed-point arithmetic** between raw and scaled debt, in the limits
  of a loan and of a liquidation, and in interest. Correct: rounding costs the pool
  less than one index unit a transaction; a new loan is not liquidatable; calling
  often does not round interest away.
* **Time.** Proofs lapse after 10 minutes, prices after an hour, Bitcoin
  attestations after their own limit; interest is per slot, and many transactions
  may share a slot.
* **Accounts that outlive each other.** A vault may be closed and registered again
  under an open position and under an old risk state.
* **Two frozen flags** set by risk verdicts and the admin, cleared by different
  instructions, and consulted by different ones.
* **Two-phase Bitcoin liquidation.** Between the phases the vault is frozen and no
  admin instruction thaws it. Correct: it can always be finalized, and is, whatever
  crashes; no loan is granted on a balance that is long out of date.
* **An interrupted bootstrap.** Correct: no order of crashes and repeated runs mints
  tokens behind outstanding loans, and running it again sets the pool up.
* **A page with handlers under way.** Correct: it never shows a step the chain has
  not reached, and a lost answer costs at most one repetition.
* **Three hand-written clients** without the IDL. Correct: each asks for what the
  program declares and reads what it wrote.

`PROJECT.json` lists each hazard at its line with the properties aimed at it, or
why there is none.

## 2. Modules

| Module | Models | Role |
|---|---|---|
| `Protocol` | clock and `ProtocolStateAccount` | base of the other components |
| `Custody` | vaults, proofs, deposits, risk checks, circuit breaker | component with a specification of its own (`CustodySpec`) |
| `LendingMath` | the integer helpers of `lending.rs` | operators |
| `Pool` | pool, price feeds, LGUSD balances, interest accrual | component shared by both kinds of collateral |
| `SolLending` | borrow, repay, liquidate | composes `Custody` and `Pool`; `Spec` is the whole SOL side |
| `BtcLending` | Bitcoin vaults, attestations, approvals, loans, two-phase liquidation | composes `Protocol` and `Pool`; `BtcSpec` is the whole Bitcoin side |
| `LendGuard` | both sides under one protocol account, on one pool | composes `SolLending` and `BtcLending`; `LendGuardSpec` is the whole program |
| `LoanBook` | what lending promises | abstract specification, implemented by each side alone and by `LendGuard` |
| `BtcDaemons` | keeper, broadcaster, a Bitcoin chain, delivery of their transactions | composes the daemons with `BtcLending` |
| `Operations` | bootstrap and price refresher, the LGUSD mint | composes the scripts with `BtcLending` |
| `SendIx` | a page's transaction, await by await | base of the two pages, over `SolLending` |
| `DemoPage` | the demo's six steps, its panel and its Ika experiment | component of the web application |
| `LendPage`, `BtcPanel` | the two halves of the lending page | components of the web application, `BtcPanel` over `LendPage` |
| `LenderGate` | `checkLendGuardGate` | component of the web application |
| `WebClient` | a visitor, strangers, a lender | composes them with the program |
| `ClientMath` | debts and liquidation as the web client and the SDK compute them | operators |
| `Wire` | what a request, an account layout and a derived address are | operators |
| `ProgramWire`, `WebWire`, `SdkWire`, `ScriptWire` | accounts, arguments, layouts, seeds and error codes as the program declares them and as each client writes them out | data |
| `AccountSum` | the sum of a function over a finite set, as a cardinality | helper written to be provable without induction |
| `LendingMathCheck` | an input generator over `LendingMath` | checks the arithmetic against its contract |
| `MCSolLending`, `MCLendGuard`, `MCCustody`, `MCBtcDaemons`, `MCOperations`, `MCWebClient` | | instances for TLC |
| `DocClaims`, `CustodyDocClaims` | | promises of the documents that the code does not keep |
| `*_proofs`, `Arithmetic_lemmas` | | theorems and the lemmas they rest on |

**State.** Accounts are records with a `live` field for "this address holds an
account"; the address is the PDA, so a vault is an element of `Vaults` (or
`BtcVaults`) with a fixed owner `OwnerOf[v]`, and `positions` is the set of vault
addresses that have a `BorrowPosition`. Closing a vault puts the empty record back
and leaves the position and the risk state where they are, as the program does. A
principal is kept for every address and is zero where there is no position.

**Instructions.** One action per instruction, with its parameters: the signer, the
accounts and the arguments. Guards are the Anchor account constraints and the
`require!`s; `checked_sub`s that can fail are guards too. A guard is a conjunct, so
a rejected transaction is a disabled action. Interest accrual is not an action: it
is the operator `Accrued`, used by every instruction that calls `accrue_interest`.
Environment actions are `Tick` (the clock), `FundVault` (a plain SOL transfer to a
vault) and `WalletTransfer` (an SPL transfer). `deposit_collateral` records an
amount and moves no lamports, so deposits and lamports are separate in the model.

**Scripts and pages.** A process is a variable for where it is, and one action for
each stretch between two awaits; what it read before an await it carries in its
state. Failures are actions of their own, bounded by a budget.

* *Keeper.* A tick lists the registered vaults, then for each reads its balance and
  submits an attestation; one vault's failure leaves the others alone. A report is
  stamped with the time it was read; it lands within `TX_DELAY` or not at all, also
  after the keeper gave up on it.
* *Broadcaster.* Started with the raw transaction it publishes, waits and finalizes;
  started with a transaction id it waits and finalizes. It may stop at any await. A
  liquidation started while an old broadcaster still waits leaves that one `late`:
  it finalizes the new liquidation, since the program only logs the id it passes.
* *Bootstrap.* `step` is where the script is; each step looks for its account, or
  its record of the mint, and creates it. `BootstrapStops` ends a run anywhere. Reading a
  balance and sending what depends on it are one step, and a stopped run leaves nothing
  in flight: a `mintTo` that lands only after the next run has read the balance is not
  represented.
* *`sendIx`.* A call simulates, has the wallet sign, posts, waits for a confirmation.
  Its transaction is a separate thing that flies, lands, fails or is dropped.
  `confirmTransaction` reports a failed transaction in a value nobody looks at, so
  `Confirmed` does not tell the two apart.
* *Demo page.* A handler remembers the session it was started with, as the closures
  of the page do; `Reset` forgets the session and clears the flag that disables the
  buttons, not the handler.
  Beside the steps, `panel` is what the page shows of the vault, written by whichever
  handler returns. The experiment asks Ika for an approval through the program. A
  refusal whose text holds one of four phrases is taken for a gap in Ika's deployment
  (`isPreAlphaInfraGap`) and makes the same handler send a demo approval instead, any
  other is thrown; texts are not modelled, so either may follow a refusal. An id of a
  dWallet is random: `FreshDwalletId` draws one that was not drawn before, of as many as
  the instance has. Once Reset has left handlers of two sessions to run side by side
  (`overtaken`), only the first `LateIds` of them may still be drawn (a bound).
* *Lending page.* A refresh is two reads that any other read may come between; what
  the panel offers is computed from what was read. Positions are selected by the size of
  their account, so those of Bitcoin vaults are listed as well, and their vaults are
  decoded as a `VaultAccount`, whose deposit lies where a Bitcoin vault has bytes of its
  dWallet's key: `KeyAmount`, any number. The console offers both; a request to
  liquidate a Bitcoin vault as a SOL vault is made and sent, and the program refuses it
  by the account's discriminator (`LendingTask`). The Bitcoin half holds three things
  apart: the dWallet in the form, the vault that is loaded, and what was last read of a
  vault, into which a 15-second timer's read may still bring the previous one.

**Wire.** An instruction is the sequence of its accounts, named for the role of
their address and flagged, and the widths of its arguments; an account is the
sequence of its fields and widths; a derived address is the sequence of its seeds. `Fits`,
`ReadsBack`, `FieldAt` and `Derives` compare a client's request, decoder or address with the
program's. The pages' models read accounts
*through* their decoders, so a wrong offset changes what the modelled page sees.

**Abstractions.** Ciphertext keys are "set" or "default"; the SOL side's risk verdict
is any Boolean, because it is read from an account the caller passes, and so is
whether an approval is acceptable there. On the Bitcoin side an approval is demo (one
per payer and dWallet, expiring) or Ika's (never aging). Each user has one LGUSD
account. There is one pool, as the bootstrap creates, with constant parameters that
satisfy `validate_bps`. Position fields nobody reads, events and messages are left
out. Integers are unbounded: the program computes in checked `u128` and an overflow
rejects the transaction.

Operators marked *mutated form* are not part of any specification. Each is a
plausible bug in the definition after it and serves to show that a property
notices it.

## 3. Runs

| Run | Shows | Bounds |
|---|---|---|
| `sol_lending` | all SOL-side instructions on one vault: accounts, debt ledger, interest, rounding, freezing | 3 slots in which time moves 0 or 1 s, expiry and staleness of 1 s, prices 1 and 2, deposits of 2 up to 4 in total, loans of 1 and 2, repayments of 1 and "everything" |
| `lend_guard` | the whole program: the common ledger, the collateral ledger, repayment that stays open, a freeze on both sides, the refinement of `LoanBook` | a SOL vault and a Bitcoin vault of one owner, a liquidator who is also the admin, 2 slots, 4 tokens in the pool, a loan of 2 on each side, price 1 or 2, SOL repaid token by token and Bitcoin by "everything" |
| `custody` | custody and circuit breaker, two vaults | 3 slots, expiry 1 s, deposits of 1 up to 2 in total, 3 registrations |
| `lending_math` | rounding, and the clients' copies of the arithmetic | amounts to 12, indices 4..11 with RAY 4, collateral to 12, prices to 9 |
| `btc_daemons` | keeper and broadcaster against the Bitcoin side, liveness | one vault, seconds 1 to 3, attestations at most 0 s old, a delay of 1 s, balances 0 and 2, one move by the owner, one failure |
| `operations` | bootstrap, refresher, Bitcoin loans with interest and forgiveness; the requests of all clients | one vault, two feeds, one stop, 2 slots, prices 1 and 2, repayments of 1 and "everything" |
| `web_client` | demo, both halves of the lending page, strangers, the gate | three dWallets the visitor may draw (two once overtaken) and a stranger's vault, a Bitcoin vault of each, two calls under way, one mishap, 2 slots |
| `debt_is_collateralised`, `debt_can_be_paid_down`, `repay_all_closes`, `bonus_is_payable`, `lapsed_proof_renewable` | one documented promise each, refuted | as the passing runs |

**Why the bounds are enough.** *SOL side.* RAY is 4 and a year one slot, so a single
slot moves the index by a large non-integral factor: every kind of truncation (to
zero, below one, inexact) occurs within two slots. Expiry and staleness of 1 s
against a clock of 0 to 2 s makes every proof and price be fresh, at its limit and
stale. One price rise and fall makes a loan healthy, liquidatable and healthy
again; two registrations let a vault be closed and registered again under an open
position; one vault is enough for everything but sums, and sums take two.

*Whole program.* Two loans of different kinds are what can go wrong between the
sides: the pool's four tokens are gone when both are out, so that lending, repaying
and liquidating on one side changes what the other can do, and a price drop makes
both liquidatable. The owner's tokens are the two loans, so that interest leaves
"everything" on the Bitcoin side short of the debt and forgiveness takes place while
the SOL loan is open. A risk check needs no instance of its own here: any verdict
freezes with the same two flags as `circuit_breaker_freeze`, which the run has.

*Daemons.* A failure in the one place that matters, at any await, and one move of
coins are enough for a report that is out of date, a broadcaster stopped between
publishing and finalizing, and a liquidation that meets an old broadcaster: after a
finalization the vault may be verified, funded and borrowed on again in the seconds
that are left. A larger instance passes with 4 705 595 states and
is not kept because of its length. Prices never go stale there
(`PRICE_STALENESS_SECONDS` 9), since nothing in it is about prices.

*Operations.* The script is stopped once at any step and started without limit, so
each prefix of the sequence meets a complete run. `U64_MAX` is 9, more than any
balance. Two feeds are needed for the bootstrap to stop between them and for the
refresher to find one missing.

*Web.* Three dWallets are needed for `DemoFinishes`: an owner whose demo approval has
expired starts over with a second, and with the third that session may be abandoned too
and the demo must still finish, in a session that has an id to draw; the run has states
in which the third session finishes. Two calls let the handler
of a forgotten session meet one of the present session; one mishap is any one of a
refusal, a lost answer, a dropped transaction, a freeze by a stranger, a needless
Reset. The experiment may be tried at step 2 (`ExperimentSteps`): once a Reset
has let it run beside the steps of the next session, its transaction meets theirs, and
its end re-enables their buttons. After such a Reset two ids may still be drawn
(`LateIds`), so that the session beside it has one. `MaxDeposit` leaves room for one
unit beyond every multiple of the demo's deposit. `KeyAmount` is 0 for the Bitcoin vault
with the loan, which the console therefore offers at once, and 13, more than any debt is
worth, for the other. The starts are: unused; shared and frozen by an earlier
check; a running market whose stranger has borrowed, against Bitcoin or against another asset;
and for the Bitcoin half a market whose stranger has borrowed against a Bitcoin
vault, with the visitor's own registered and unverified or not registered. That last
start has interest due, its clock at the end and no mishaps: the failures of a
transaction are the same `sendIx` in either half. The instance has 793 833 states, to a
depth of 70.

Bounds that cut the state space are named: `MaxSlot`, `MaxDeposit` (a cap on the
protocol's collateral total), `MaxVaults` (registrations), `MaxRejected`,
`MaxLamports`, `MaxMoves`, `MaxFailures`, `MaxStops`, `CallIds`, `DwalletIds`,
`LateIds`, `MaxMishaps`.

Deadlock is not checked: at the last slot, with all allowances used up, a bounded
instance stops, and nothing obliges anybody to call the program.

**What the properties say.**

*Whole program.* `TotalLedger` and `CollateralLedger` tie the two aggregates to the
accounts: one total books SOL and Bitcoin loans, and deposits stay covered.
`RepayStaysOpen`: whoever owes a debt on either side and keeps the vault account can
pay with every token at hand, and on the Bitcoin side with the request to repay everything,
which needs the ledger to be right and no freeze to be in the way. `FreezeStopsBothSides`: while the protocol stays frozen, whichever side it
was frozen from, the pool pays nothing out, no loan is granted, and none shrinks
unless its owner's tokens do.

*Program, SOL side.* `DebtLedger` is the ledger with SOL loans alone,
`CollateralTotalExact` the collateral total without lending. `DebtHasAPosition` and
`VaultStaysFunded` say no debt and no deposit is orphaned and no liquidation eats a
vault's rent.
`ExitOpen` is availability: the owner can take out any part of a deposit unless the
protocol is frozen. The action properties: interest once per slot (`AccruedOncePerSlot`), no
transaction costs the pool a whole index unit by rounding (`RoundingLossBounded`), a
frozen protocol pays nothing out (`FrozenMeansStill`), a lapsed proof stays lapsed
(`LapseIsFinal`), a safe verdict never lifts a freeze (`FreezeOutlastsVerdicts`).

*Program, Bitcoin side.* `FrozenIsRecoverable`: a vault is
frozen exactly while a liquidation is under way, and then the finalization would be
accepted. `ForgivenessCostsAll`: "repay everything" with fewer tokens than are owed
writes off the rest; a transaction costs the pool more than rounding only in that
case, and then it takes the owner's last token.

*Refinement.* `LendsByTheBook` says that the program implements `LoanBook` over the
vaults of both kinds (`SolLendsByTheBook` and `BtcLendsByTheBook` say it of either
side alone, and are proved): a
borrower has at most one loan, booked when the cash leaves and at that moment's
index; a loan shrinks only against cash, by as much as the book does; nothing else
touches loans or book.

*Daemons.* `LoansOnRecentBalances`: when a loan is granted, the balance it is granted
on was read no longer ago than the attestation's age limit and a transaction's delay
together, in whatever order reports landed. `LiquidationsFinish`: a frozen vault
thaws, unless its address no longer holds what the committed transaction takes.
`AttestationsConverge`: once Bitcoin is quiet, attestations end up at the balances and
stay there, so no late report overwrites a newer one for good.

*Operations.* `NoMintBehindLoans`: once the pool lends, no key can mint, and the
supply is what it was created with. `BootstrapCompletes` and `FeedsReturn`: running
the script again sets the pool up, and brings a closed feed back unless the pool's
vault is short.

*Web.* `PageTrailsChain`: what the step shown takes for granted holds of the
session's vault, and what the panel shows of it, except in a session that moved on because of a failed transaction
taken for confirmed, or of a forgotten session's deposit (both are in the code, and
the history variable `misled` marks them), and in a panel that a handler of another
session wrote into. `DepositsCostFaults`: each deposit
beyond the first in a vault is the price of a mishap, as long as Reset was not clicked
under a handler (`overtaken`). After such a Reset the page's one `running` flag no
longer keeps handlers apart: the end of either re-enables the buttons under the other,
so that the deposit of step 3 can be clicked again while the first is under way and no
fault is needed. With the experiment at step 4 instead of step 2 TLC refutes the property
without the exception, and passes all properties with it, over 1 026 580 states; that
instance is not kept because of its length.
`DemoFinishes`: a visitor who
keeps clicking, and starts over when stuck, sees the last deposit fail, be it in a third
session. What may come in between is only the model's bound (`OutOfIds`): a session that
Reset has made run beside another, with every handler ended and no id left to draw.
`EarlyOnlyByMistake`: what the console offers for liquidation the program would
liquidate, while the vault and the BTC price are as last read, however old the index,
unless the page mistakes the vault for what it is not (`Mistaken`): a Bitcoin vault, or
one of another asset, taken for a `VaultAccount` that holds Bitcoin. There it is early,
and in the run a liquidator clicks on such a Bitcoin vault; what holds of every vault is
that no part of the page shows more debt than is owed. `ShownCatchesUp`: the timer's read may bring the vault
loaded before and overwrite what is shown, so that buttons act on one vault under the
figures of another; the page returns to showing the vault it acts on, as it is on the
chain, again and again. `GateBacksItsYes`: whatever is frozen, thawed, checked or lapses
between the gate's two reads, its yes means an approval of the vault's dWallet and no
failed risk check of the vault. That a yes is worth a deposit is not claimed, because it
is not so: the gate misses a freeze of the protocol between its reads, and its freshness
limit is not the program's (section 4). No admin lifts a vault's own freeze in this run. `RequestsServe`,
`BtcRequestsServe`: whatever a transaction changes, the requests of every client
name the accounts and arguments as the program declares them, at addresses derived from
the program's seeds, pass what it writes as
writable, and the accounts left behind are read back field by field; an error code the
demo page has a name for is the program's error of that name.

**Fairness.** The program's own properties assume none. `btc_daemons`: weak fairness
of the keeper's polling (an endless loop that survives every failure of one vault),
of the broadcaster (the admin runs it for each liquidation and again when it has
stopped), of blocks on Bitcoin, of Ika's signature, and of delivery (a submitted
transaction lands or expires). No fairness for liquidators, owners or failures.
`operations`: weak fairness of starting the bootstrap and of its next step, for an
operator who runs it until it has succeeded; a stop is always allowed while the
bound lasts. `web_client`: weak fairness of each call's next step
(the network answers or fails, a transaction lands or expires), strong fairness of
starting over when the step shown cannot succeed, since a stranger's freeze and thaw
can make that come and go; the click is strongly fair because an experiment under way
disables the buttons for a while. The timer of the Bitcoin half goes off every 15
seconds while a vault is loaded (`setInterval`, `page.tsx:337`) and its read returns:
weak fairness of both; loading a vault again is nobody's duty.

## 4. Where the documents and the code differ

Five promises have a counterexample (`findings` in `PROJECT.json` quotes them):
collateral can be withdrawn under a loan; a loan whose vault was closed cannot be
repaid; a dust loan cannot be closed; a liquidation bonus is never paid, and a
vault with lamports enough to pay it cannot be liquidated; a lapsed proof cannot
be renewed, not even by the "re-run verify" the client suggests.

Met while reading, with no run:

* the comment at `lending.rs:136` says only the protocol admin may create price
  feeds, and no instruction checks it;
* `lib.rs:122` calls `unfreeze_protocol_state` admin-only; its own comment says, and
  the model has it, permissionless;
* `total_verified` and `PROOF_STATUS_EXPIRED` are never written; a
  `RiskStateAccount` survives `close_vault` and cannot be created again;
* `docs/PRODUCTION_OPS.md:32` calls the bootstrap "fully idempotent"; once LGUSD is
  on loan it throws before the feeds (`FeedsReturn` states the exception);
* `lendguard-gate.ts:27` says of the gate's freshness limit "(matches contracts)"; it is
  24 hours, where the program's `PROOF_EXPIRY_SECONDS` (`constants.rs:10`) is ten
  minutes, so in between the gate accepts a vault whose deposit the program refuses.
  The gate also reads the protocol's flag before the vault, and misses a freeze of the
  protocol in between;
* the lending page's console heads its list "health < liquidation threshold ·
  permissionless" (`page.tsx:1650`), and values every listed vault as Bitcoin held by a
  `VaultAccount`: SOL vaults at the BTC feed, and Bitcoin vaults at bytes of their key
  (`EarlyOnlyByMistake` excepts both by name);
* `sendIx` takes a transaction that failed on the chain for confirmed;
* the SDK's `triggerRiskCheck` answers `isSafe: true` whatever the program decided;
* the "Refresh proof" button of the Bitcoin half creates a demo approval, which exists
  once per payer and dWallet: it cannot succeed for a vault this page has registered;
* the Bitcoin half's borrow button is not disabled while a position is open;
* the demo shows "Attack blocked" for any entry in the log of step 6, and its table
  names the first 20 of the program's 48 errors;
* `listAllBorrowPositions` selects by size and also returns Bitcoin positions, whose
  vaults the page decodes as `VaultAccount`s.

## 5. Proofs

All theorems hold for every number of vaults and users, all amounts, prices and pool
parameters, from the `ASSUME`s of the modules alone, which TLC evaluates in each run.
The bounds on counters are constants of any size.

| Module | Theorems (with the property each one states) |
|---|---|
| `SolLending_proofs` | custody alone: `CustodyTypeOK`, `CollateralTotalExact`, `LapseIsFinal`, `FreezeOutlastsVerdicts`, `ExitOpen`; with lending: `InductiveInvariant`; `TypeOK`, `DebtLedger`, `CollateralLedger`, `DebtHasAPosition`, `VaultStaysFunded`, `ClocksBehind`, `AccruedOncePerSlot`, `RoundingLossBounded`, `FrozenMeansStill`; `NoDebtUnderflow`; `SolLendsByTheBook` |
| `BtcLending_proofs` | `BtcTypeOK`, `BtcDebtLedger`, `BtcDebtHasAPosition`, `BtcClocksBehind`, `FrozenIsRecoverable`, `BtcLendsByTheBook`, `ForgivenessCostsAll` |
| `LendGuard_proofs` | `LendGuardInvariant`; `TotalLedger`, `CollateralLedger`, `FrozenIsRecoverable`, `FreezeStopsBothSides`, `RepayStaysOpen`, `LendsByTheBook` |
| `LendingMathCheck_proofs` | `RoundTripNeverGrows`, `PartialRepayLeavesDebt`, `FreshLoanHealthy`, `SplitAccrualHarmless` (the clients' copies included: `ClientsJudgeAlike`) |
| `Scripts_proofs` | bootstrap and refresher: `OpsTypeOK`, `NoMintBehindLoans`, `BtcDebtLedger`, `BtcLendsByTheBook`, `ForgivenessCostsAll`, `BtcRequestsServe`; daemons: `DaemonTypeOK`, `LoansOnRecentBalances`, `FrozenIsRecoverable`, `BtcDebtLedger`, `BtcLendsByTheBook` |
| `WebClient_proofs` | `PageTrailsChain`, `WebTypeOK`, `EarlyOnlyByMistake`, `DepositsCostFaults`, `GateBacksItsYes`, `RequestsServe` |
| `Pool_proofs`, `Arithmetic_lemmas` | lemmas on accrual and the value of the pool, on sums, on truncated division, on account layouts |

**The ledgers.** A side's ledger (`DebtLedger`, `BtcDebtLedger`) holds only while the
other side has no loans, so it is no part of that side's inductive invariant. What a
side keeps in any company is the *difference* between the pool's total and the sum of
its own principals: `LedgerKept` and `BtcLedgerKept` are proved of every step with
the invariant, and from them follow the ledger of a side alone and, below, the
common one.

**SOL side.** The inductive invariant `IInv` is `TypeOK`, `ClocksBehind`,
`UnbornPool` (a pool not yet created is the empty record), `DebtHasAPosition`,
`VaultStaysFunded` and `CollateralLedger`. None is inductive alone: the ledger's step
needs principals to be naturals and a new loan to overwrite none, which is
`DebtHasAPosition`; the accrued index stays at least `RAY` only because the slot
never falls behind `last_update_slot`; a withdrawal keeps the collateral total
because it covers the sum. Each action has a lemma that it preserves `IInv` and
`LedgerKept`, with one step per conjunct it can disturb; actions that touch one
component only use a framing lemma for the others.

**Bitcoin side.** `BtcIInv` is `BtcTypeOK`, `BtcClocksBehind`, `BtcDebtHasAPosition`,
`FrozenIsRecoverable` and `UnbornPool`. `FrozenIsRecoverable` is what makes the two phases fit: it
carries the fact that a liquidated position is empty from the first phase to the
second, over every instruction in between, so that closing the position leaves no
principal behind and the ledger stays exact. It is preserved given the types alone,
because the clock starts at 1 and "a liquidation is under way" is written as a time
greater than zero. The ledger needs `BtcDebtHasAPosition`, since a loan overwrites the
principal of a vault that has no position.

**Whole program.** `GInv` is `IInv`, `BtcIInv` and `TotalLedger`. A step of one side
preserves its own invariant by the lemmas above; what it does to the state the other
side reads (the clock only advances, the protocol account and the pool never disappear,
the collateral total and the prices are left alone by the Bitcoin side) is extracted
once, and a framing lemma in each direction concludes that the other invariant is
preserved. `TotalLedger` follows from the two differences. `ProgramImplementsLoanBook`
reuses each side's classification of its steps, over the union of the vaults.
`FreezeStopsBothSidesHolds` extends the argument of `FrozenMeansStill` (`FrozenStep`)
by the Bitcoin side, where a payment and the closing of a position by its owner, and
the finalization of what was liquidated before, are all that a frozen protocol leaves.

**What stays possible.** That a call *could* be made is said by the guard the action
itself begins with (`MayDeposit`, `MayWithdraw`, `MayCheck`, `MayRepay`, `MayRepayBtc`), which TLC
evaluates like `ENABLED` and the prover, to which `ENABLED` is opaque, can expand.
`ExitIsOpen` needs that the collateral total covers each deposit. `RepayIsOpen` needs
`GInv`: no principal exceeds the pool's total, whoever else borrows from it
(`EachLoanIsCovered`, from `TotalLedger`), the slice that a payment removes is within the principal
(`RepaidSliceFacts`), and the pool of a loan exists.

**What a transaction costs the pool.** `RoundingLossBounded` and
`ForgivenessCostsAll` are argued per transaction, with lemmas that both sides share
(`Pool_proofs`). `PoolValue` is the pool's cash and claims in units of `1/RAY`.
Accruing only raises it, so the loss is what the new scaled debt differs by, at the
accrued index, from the tokens that move: for a borrow the truncation of `to_scaled`
(less than one scaled unit, worth one index, `LoanValue`), for a full payment that of
`current_debt` (less than one raw unit, worth `RAY`, and the index is at least `RAY`,
`WholeDebtPaid`), for a partial one none, since `to_scaled` rounds in the pool's
favour (`SliceWorth`). The case that is left on the Bitcoin side is a request to
repay everything by an owner whose tokens fall short of the debt; what moves is then
the whole balance, and the position closes, which is the exception
`ForgivenessCostsAll` names. Creating the pool is free of loss because nothing is owed
before. `FrozenMeansStill` needs `VaultStaysFunded`: an address registered again,
frozen or not, records no earlier deposit.

**Scripts.** `OpsIInv` is `BtcIInv`, `OpsTypeOK`, `NoMintBehindLoans` and what ties the
script's `step` to the chain: `MintStages` (past the mint's step the mint is recorded, and
at the pool's step its authority is the pool) and `VaultStages` (until there is a pool
nobody's tokens have moved, and what the pool's token account holds at each step).
Each step of the scripts
is either a step of the Bitcoin side, whose lemmas then apply, or one of `SetUp` (the
feeds, the mint and the pool, with nothing on loan), which gets a lemma for each
property. The supply is a sum over accounts of varying owners (`PayKeepsSupply`).

**Daemons.** `DaemonIInv` is `BtcIInv`, `DaemonTypeOK`, `AdminKnown` (the daemons sign
as the protocol's admin, without which a transaction of theirs is no instruction the
program accepts), `PricePositive` (the division in the liquidation check) and
`ReadsTimely`: an attested balance was read at most `TX_DELAY` before its stamp. `LoansOnRecentBalances` adds the program's limit on
the age of the stamp to it. Every transaction of a daemon is a step of the Bitcoin side,
so that its ledger, its refinement and `FrozenIsRecoverable` hold in their company
with nothing more to prove.

**Demo page.** `PageTrailsChain` alone is not inductive: a transaction whose handler has
given up may still land, and it is a handler's confirmation that moves the page. The
inductive invariant `TrailIInv` adds what each handler in flight stands for
(`HandlersTrail`): a task of the demo was only started on what its step takes for
granted (`DemoTask`), and a transaction that succeeded has left what the page will then
show (`DemoDone`). It holds because no transaction of the demo, no
stranger and no clock takes back what a step has established (`VaultKept`, `RiskKept`,
one lemma per kind of step; unfreezing thaws the protocol, not a vault). Of a vault
on which the page took a failed transaction for a confirmed one (`misled`) the
invariant claims only what does not depend on that transaction. A fresh id is drawn by no handler before, so that a
registration in flight and the vault shown after Reset are never the same. TLC
checked `TrailIInv` on the instance of `web_client` before it was proved.

**Deposits.** `DepositsArePaidFor` charges a vault (`Paid`) not only what it holds but
one deposit for each deposit under way whose handler has ended (`Late`), and grants it
one deposit, and one more for each mishap spent (`Budget`). The invariant `CostIInv`
keeps charges within grants, and strictly so while the page still asks for the vault's
deposit (`Due`): a click then spends the one deposit that is free, a handler that loses
its transaction turns a mishap into a late deposit, and a late deposit that lands leaves
the charge where it was. For this no two handlers may be under way, and the one there
is must belong to the session shown (`InTurn`), which is what the flag is for and what
Reset under a handler breaks; the search for this proof is what showed that the
property needs the exception. The rest is that the demo's last deposit never lands and
that a vault is drawn with no
deposit due to it (`Unborn`, the clause on `register` in `OfSession`).

That last deposit is the trap of the demo, and it must meet a frozen vault even where
the page moved on in error (`misled`): otherwise the deposit that is meant to fail would be
a free one. `TrapIInv` says why it does. A node takes a risk check only if it can
succeed (`WouldLand`); no transaction of the demo, no stranger and no clock undoes what it
requires (`WebNextKeeps`), so that a check in flight is still possible when it lands and never
fails; hence a check that was confirmed has frozen its vault, step 6 is reached with
frozen vaults alone, and nobody on this page thaws one. For this `WouldLand` says of a risk
check what it requires, `MayCheck`, instead of `ENABLED`. TLC checked
`CostIInv` on the instance of `web_client`, and `TrapIInv` and `GateInformed` on a
smaller one, before they were proved.

**Lender.** The gate reads the protocol first and the vault later, with anything in
between. `GateBacksEveryYes` needs what stands behind the vault it then reads (`Backed`):
a verified vault has an approval, and a vault whose check failed is frozen for as long as
it exists. Every step either leaves vaults, risk states and approvals alone or puts
behind a vault what it says of it (`BacksNew`, one case per task that can land), and none
takes it back (`WebNextKeeps`). A gate under way is on the demo's deployment and has
seen a protocol account, which nobody closes (`GateInformed`). The rest is that the
vault's bytes mean what the gate takes them for (`GateReadsRight`, from the lemmas on
layouts below).

**Lending page.** What the panels show is computed from a cached index, price and
balances that several loads fetch at different times, so `PanelIsEarlyOnlyByMistake` needs that
the index a page holds is never ahead of the pool's (`ViewFits`): debts are monotone in
the index (`AgedDebt`), and accrual only raises it; that goes for loans of both kinds, whose
principals one decoder reads. What a Bitcoin vault's key is read as may be any number
(`KeyAmount`), and the request to liquidate one is made like any other
(`LiquidateClickProceeds`) and never lands. `WebIInv` joins this to `TrailIInv`
and to the types of the chain (`ChainTyped`), of the requests in flight (`CallsFit`,
`SendFits`) and of what the pages keep; both other theorems follow from it. One lemma
per instruction shows `ChainAges`: the chain stays typed and its index does not fall,
for the instructions check every subtraction and the index is never below one
(`PoolBehind`). No ledger is needed, which is why a page can be proved about
without knowing which side lends. That a page reads what it means is a lemma of its own
(`PagesReadRight`): offsets grow along a layout, whose fields have one byte at least
(`OffsetsGrow`), so a decoder that lists the program's fields reads each as itself
(`ReadsRight`), and each of the six decoders the pages use lists them. TLC checked the
conjuncts of `WebIInv` and `Backed` on the instance of `web_client` as well.

**Requests.** Each hand-written builder equals the program's declaration, account for
account (`WebBuildsCustody`, `SdkBuildsLending`, `VaultBuilders`, `SetupBuilders`), so
what is left is that a step changes no account outside the declaration's writable ones.
In `Operations` every property names its step by what moved, and the proof has to find
the step: positions appear or debt falls on an untouched vault only by a loan's own
instructions, the liquidation's time rises only by `LiquidateBtcPosition` and falls only
by `FinalizeBtcLiquidation` (`VaultMoves`, `VaultMovesTell`). There `FrozenIsRecoverable`
is needed: a vault that is registered carries no liquidation's time that registering
could clear, for a frozen vault is registered already. In `WebClient` a handler's request executes
long after it was made, among others: `Orderly` says that whoever has a transaction out
has the task it was made for, and `OneMoves` that one handler moves at a time and its
transaction leaves the network by executing that task or by a mishap (`Resolved`). The
widths of a layout are added up by `FirstOffset` and `NextOffset`, which gives the sizes
and offsets that clients hard-code (`PositionBytes`, `VaultBytes`), and a decoder that
lists the program's fields reads an account for what it is (`ReadsItselfBack`).

**Refinement.** `SolImplementsLoanBook` and `BtcImplementsLoanBook` show that the
initial states of either side are initial states of `LoanBook` and that each step is
one of its steps or a stutter (`OpsImplementLoanBook` and `DaemonsImplementLoanBook` say it
of the Bitcoin side under the scripts and the daemons), under `owed <- principal`, `book <- total_borrowed`,
`index <- borrow_index`, `cash <- tokens[PoolVault]`. Instructions are sorted into
those that lend, those that settle, and those that leave the book alone; `Endow` is
for the bootstrap's mint into the pool's account, in `Operations` (`SetUpIsBooked`). That what is booked is `ToScaled` at
the *new* index is where the order of `accrue_interest` and `to_scaled` in the code
matters; that a settled loan does not grow is where its `min` does.

**Arithmetic.** `FreshLoan` brings both limits to the untruncated worth of the
collateral (`LimitsCompared`): what may be lent is at most `LtvBps` of it, and what
triggers a liquidation is less than two units below `ThresholdBps` of it. `SplitAccrual`
needs that the rate does not fall while loans grow (`RateGrows`) and that truncating
two summands loses at most one unit more than truncating their sum.

**Sums** are the usual obstacle: a sum defined by recursion cannot be reasoned about
without induction over an operator. `AccountSum` defines it as the cardinality of
the disjoint union of `{s} \X 1..f[s]`, and `Arithmetic_lemmas` derives from the
library's facts about cardinality that changing `f` at one point changes the sum
by the difference, that sums of naturals are naturals and bound each summand.

**A precaution.** Where a step changes several fields of one account, the model writes
`[vault EXCEPT ![v] = [@ EXCEPT !.a = x, !.b = y]]`, never two paths through the same
key: the SMT translation of tlapm 1.4.5 takes each path's `@` from the old value, so
that `[vault EXCEPT ![v].a = x, ![v].b = y]` becomes a contradiction from which
anything follows. With the nested form, `FALSE` was tried in place of each leaf's goal and
is not proved but where the case at hand is impossible.

**Only model-checked.** Liveness under fairness (`LiquidationsFinish`,
`AttestationsConverge`, `BootstrapCompletes`, `FeedsReturn`, `DemoFinishes`,
`ShownCatchesUp`), which is out
of the prover's reach. Every invariant and every action property of a passing run is a
theorem.

## 6. Not modelled

* Byte-level parsing of Ika and Encrypt accounts (`contracts/src/integrations`), but
  for the demo approval's layout: what the parsers decide is an input of the actions, or on the Bitcoin side a
  function of the approvals that exist. Kinds of accounts are kept apart by their
  variables, so an account mistaken for another kind is outside the models, but for the
  lending page's taking Bitcoin vaults for `VaultAccount`s.
* The FHE predicate (`fhe/check_backing_ratio.rs`), which is not compiled into the
  program; events, which change no state.
* `transfer-upgrade-authority.mjs` and `import-authority.mjs`: one transaction, one
  file, no state of the program.
* The Ika client's gRPC calls (`web/lib/ika-client.ts`): key generation and signing,
  which change nothing on the chain.
* Torque: the local list and its forwarding, which nothing reads back.
* Presentation, toasts, static pages.
* `packages/sdk/src/client.ts`: a wrapper that returns made-up values when it has no
  Anchor program.
* A second Bitcoin transaction from the same address in one block, Bitcoin
  reorganisations, and the loss of the bootstrap's mint record.

## 7. What is left to do

The daemons, the operator's scripts and the pages over `LendGuard` instead of over one
side.

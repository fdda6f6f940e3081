----------------------------- MODULE BtcDaemons -----------------------------
(***************************************************************************)
(* The two scripts between Solana and Bitcoin, run by the protocol admin:  *)
(* btc-balance-keeper.mjs polls the balance of every vault's address and   *)
(* attests it; btc-liquidation-broadcaster.mjs publishes the signed        *)
(* Bitcoin transaction of a liquidation, waits for its confirmations and   *)
(* finalizes on Solana.  Both read first and submit later, both may fail   *)
(* or be stopped at every await, and a transaction they have submitted may *)
(* land long after they gave up on it, or never.                           *)
(*                                                                         *)
(* External, modelled from how the scripts use them: the Bitcoin chain     *)
(* (one address per vault, balances include the mempool) and the delivery  *)
(* of Solana transactions.                                                 *)
(***************************************************************************)
EXTENDS BtcLending

CONSTANTS
    TX_DELAY,          \* seconds from a script's read to its landing, at most
    MIN_CONFIRMATIONS, \* the broadcaster's environment variable
    StartPrice,        \* the price of each feed after the bootstrap
    Balances,          \* balances an address starts with or is brought to
    MaxMoves,          \* bound on balance changes by the owner
    MaxFailures        \* bound on failures of the scripts

ASSUME DaemonAssumption ==
    /\ {TX_DELAY, MaxMoves, MaxFailures} \subseteq Nat
    /\ MIN_CONFIRMATIONS \in Nat \ {0}
    /\ MIN_CONFIRMATIONS >= BTC_LIQUIDATION_MIN_CONFIRMATIONS
    /\ Balances \subseteq Nat
    /\ StartPrice \in Nat \ {0}

VARIABLES
    coins,             \* satoshis at each vault's Bitcoin address
    spend,             \* the Bitcoin transaction of each liquidation
    inflight,          \* Solana transactions submitted by the scripts
    keeper,            \* the balance keeper
    broadcaster,       \* the broadcaster started for each vault
    readAt,            \* when the attested balance was read (history)
    budget             \* balance changes and failures left

chainVars == <<coins, spend>>
scriptVars == <<keeper, broadcaster>>
daemonVars == <<coins, spend, inflight, keeper, broadcaster, readAt, budget>>
all == <<btcAll, daemonVars>>

NoSpend == [satoshis |-> 0, status |-> "none", confirmations |-> 0]
Idle == [todo |-> {}, sent |-> {}]

\* A keeper or broadcaster transaction: the balance it reports, and when that
\* was read.
Report(kind, v, satoshis, time) ==
    [kind |-> kind, vault |-> v, satoshis |-> satoshis, read_at |-> time]

Reports == [kind : {"attest", "finalize"}, vault : BtcVaults,
            satoshis : Nat, read_at : Nat]

ScriptType ==
    /\ keeper \in [todo : SUBSET BtcVaults, sent : SUBSET Reports]
    /\ broadcaster \in [BtcVaults -> {"off", "waiting", "late", "sent"}]
    /\ inflight \subseteq Reports

ChainType ==
    /\ coins \in [BtcVaults -> Nat]
    /\ spend \in [BtcVaults ->
         [satoshis : Nat, status : {"none", "mempool", "confirmed"},
          confirmations : 0..MIN_CONFIRMATIONS]]
    /\ readAt \in [BtcVaults -> Nat]
    /\ budget \in [moves : 0..MaxMoves, failures : 0..MaxFailures]

DaemonTypeOK == BtcTypeOK /\ ScriptType /\ ChainType

\* The scripts run after the bootstrap: its admin, pool and feeds exist.
Bootstrapped(admin, liquidity) ==
    /\ now = 1 /\ slot = 0
    /\ protocol = [NoProtocol EXCEPT !.live = TRUE, !.admin = admin]
    /\ pool = [NoPool EXCEPT !.live = TRUE, !.total_liquidity = liquidity]
    /\ feed = [a \in PriceAssets |-> FeedAt(StartPrice, admin)]
    /\ tokens = InitialTokens
    /\ tokens[PoolVault] >= liquidity

DaemonInit ==
    /\ \E admin \in Deployers, liquidity \in Liquidities :
         liquidity > 0 /\ Bootstrapped(admin, liquidity)
    /\ BtcInit
    /\ coins \in [BtcVaults -> Balances]
    /\ spend = [v \in BtcVaults |-> NoSpend]
    /\ inflight = {}
    /\ keeper = Idle
    /\ broadcaster = [v \in BtcVaults |-> "off"]
    /\ readAt = [v \in BtcVaults |-> 0]
    /\ budget = [moves |-> MaxMoves, failures |-> MaxFailures]

----------------------------------------------------------------------------
(* The Bitcoin chain *)

\* The owner funds the address, or spends from it with an Ika signature.
BitcoinMove(v) ==
    /\ budget.moves > 0
    /\ \E satoshis \in Balances \ {coins[v]} :
         coins' = [coins EXCEPT ![v] = satoshis]
    /\ budget' = [budget EXCEPT !.moves = @ - 1]
    /\ UNCHANGED <<btcAll, spend, inflight, scriptVars, readAt>>

\* A block includes, or buries, the liquidation's transaction.
BitcoinBlock(v) ==
    /\ spend[v].status # "none"
    /\ spend[v].confirmations < MIN_CONFIRMATIONS
    /\ spend' = [spend EXCEPT ![v] =
                    [spend[v] EXCEPT !.status = "confirmed",
                                     !.confirmations = @ + 1]]
    /\ UNCHANGED <<btcAll, coins, inflight, scriptVars, readAt, budget>>

----------------------------------------------------------------------------
(* The balance keeper *)

RegisteredVaults == {v \in BtcVaults : btcVault[v].live}

\* Mutated form: the list is made when the keeper starts.
ListedAtStartup == keeper.todo

\* The vaults still to do in this tick; a tick begins with the list of all.
KeeperTodo == IF keeper.todo = {} THEN RegisteredVaults ELSE keeper.todo

\* The snapshot of one vault's address and the submission of its attestation;
\* the time that may pass between the two is part of TX_DELAY.
KeeperReport(v) ==
    /\ keeper.sent = {}
    /\ v \in KeeperTodo
    /\ LET report == Report("attest", v, coins[v], now)
       IN  /\ keeper' = [todo |-> KeeperTodo \ {v}, sent |-> {report}]
           /\ inflight' = inflight \cup {report}
    /\ UNCHANGED <<btcAll, chainVars, broadcaster, readAt, budget>>

\* The API or the RPC node fails for one vault, which waits for the next tick.
KeeperSkips(v) ==
    /\ keeper.sent = {}
    /\ v \in KeeperTodo
    /\ budget.failures > 0
    /\ keeper' = [keeper EXCEPT !.todo = KeeperTodo \ {v}]
    /\ budget' = [budget EXCEPT !.failures = @ - 1]
    /\ UNCHANGED <<btcAll, chainVars, inflight, broadcaster, readAt>>

\* The confirmation fails; the submitted transaction may land all the same.
KeeperGivesUp ==
    /\ keeper.sent # {}
    /\ budget.failures > 0
    /\ keeper' = [keeper EXCEPT !.sent = {}]
    /\ budget' = [budget EXCEPT !.failures = @ - 1]
    /\ UNCHANGED <<btcAll, chainVars, inflight, broadcaster, readAt>>

----------------------------------------------------------------------------
(* The broadcaster *)

\* Started with RAW_TX_HEX.  Bitcoin takes the transaction if its inputs are
\* there; once it is in a block the reply is a text that is no transaction
\* id, and the script exits on it.
BroadcastRawTx(v) ==
    /\ broadcaster[v] = "off"
    /\ approvals[v].sighash = "signed"
    /\ spend[v].status = "none"
    /\ coins[v] >= spend[v].satoshis
    /\ coins' = [coins EXCEPT ![v] = @ - spend[v].satoshis]
    /\ spend' = [spend EXCEPT ![v].status = "mempool"]
    /\ broadcaster' = [broadcaster EXCEPT ![v] = "waiting"]
    /\ UNCHANGED <<btcAll, inflight, keeper, readAt, budget>>

\* Mutated form: a run that finds its transaction published has nothing to do.
ResumeNever(v) == FALSE /\ UNCHANGED all

\* Started with BTC_TXID after the transaction was published.
ResumeWithTxid(v) ==
    /\ broadcaster[v] = "off"
    /\ btcVault[v].liquidation_initiated_at > 0
    /\ spend[v].status # "none"
    /\ broadcaster' = [broadcaster EXCEPT ![v] = "waiting"]
    /\ UNCHANGED <<btcAll, chainVars, inflight, keeper, readAt, budget>>

\* waitForConfirmations returns, and the balance that is left is read and
\* submitted with the finalization.  A broadcaster that is late waits for the
\* transaction of an earlier liquidation, which has been finalized without it,
\* and does the same to the present one: nothing ties the two together.
SubmitFinalize(v) ==
    /\ \/ broadcaster[v] = "late"
       \/ /\ broadcaster[v] = "waiting"
          /\ spend[v].status = "confirmed"
          /\ spend[v].confirmations >= MIN_CONFIRMATIONS
    /\ inflight' = inflight \cup {Report("finalize", v, coins[v], now)}
    /\ broadcaster' = [broadcaster EXCEPT ![v] = "sent"]
    /\ UNCHANGED <<btcAll, chainVars, keeper, readAt, budget>>

\* It exits on any error, and can be stopped, at any await.
BroadcasterStops(v) ==
    /\ broadcaster[v] # "off"
    /\ budget.failures > 0
    /\ budget' = [budget EXCEPT !.failures = @ - 1]
    /\ broadcaster' = [broadcaster EXCEPT ![v] = "off"]
    /\ UNCHANGED <<btcAll, chainVars, inflight, keeper, readAt>>

----------------------------------------------------------------------------
(* Delivery of the scripts' Solana transactions *)

\* The sender of a transaction, if it still waits, is told the outcome.
SenderDone(tx) ==
    /\ keeper' = [keeper EXCEPT !.sent = @ \ {tx}]
    /\ broadcaster' =
         IF tx.kind = "finalize" /\ broadcaster[tx.vault] = "sent"
         THEN [broadcaster EXCEPT ![tx.vault] = "off"]
         ELSE broadcaster

Executes(tx) ==
    IF tx.kind = "attest"
    THEN AttestBtcBalance(tx.vault, protocol.admin, tx.satoshis)
    ELSE FinalizeBtcLiquidation(tx.vault, protocol.admin, MIN_CONFIRMATIONS,
                                tx.satoshis)

Accepted(tx) ==
    tx.kind = "attest"
      \/ MayFinalize(tx.vault, protocol.admin, MIN_CONFIRMATIONS)

Timely(tx) == now - tx.read_at <= TX_DELAY

Land(tx) ==
    /\ tx \in inflight
    /\ Timely(tx)
    /\ Accepted(tx)
    /\ Executes(tx)
    /\ readAt' = [readAt EXCEPT ![tx.vault] = tx.read_at]
    /\ inflight' = inflight \ {tx}
    /\ SenderDone(tx)
    /\ UNCHANGED <<chainVars, budget>>

\* Rejected by the program, or its blockhash expired.
Fall(tx) ==
    /\ tx \in inflight
    /\ ~Timely(tx) \/ ~Accepted(tx)
    /\ inflight' = inflight \ {tx}
    /\ SenderDone(tx)
    /\ UNCHANGED <<btcAll, chainVars, readAt, budget>>

----------------------------------------------------------------------------

\* A liquidation commits the sighash of a transaction that takes the seized
\* satoshis.
Liquidate(v, liquidator) ==
    /\ LiquidateBtcPosition(v, liquidator)
    /\ spend' = [spend EXCEPT ![v] =
                   [NoSpend EXCEPT !.satoshis = SeizedSatoshis(v)]]
    /\ broadcaster' = [broadcaster EXCEPT ![v] =
                         IF @ = "waiting" THEN "late" ELSE @]
    /\ UNCHANGED <<coins, inflight, keeper, readAt, budget>>

KeeperStep == \E v \in BtcVaults : KeeperReport(v)

BroadcasterStep(v) ==
    \/ BroadcastRawTx(v)
    \/ ResumeWithTxid(v)
    \/ SubmitFinalize(v)

Delivery(v, kind) ==
    \E tx \in inflight :
      /\ tx.vault = v /\ tx.kind = kind
      /\ Land(tx) \/ Fall(tx)

DaemonNext ==
    \/ Tick /\ UNCHANGED <<poolVars, btcVars, daemonVars>>
    \/ /\ \E price \in Prices : UpdateAdminPrice(protocol.admin, BTC, price)
       /\ UNCHANGED <<btcVars, daemonVars>>
    \/ KeeperStep
    \/ KeeperGivesUp
    \/ \E v \in BtcVaults :
         \/ BtcVaultStep(v) /\ UNCHANGED daemonVars
         \/ \E liquidator \in Users : Liquidate(v, liquidator)
         \/ KeeperSkips(v)
         \/ BitcoinMove(v)
         \/ BitcoinBlock(v)
         \/ BroadcasterStep(v)
         \/ BroadcasterStops(v)
         \/ \E kind \in {"attest", "finalize"} : Delivery(v, kind)

\* The keeper loops for ever, the admin starts the broadcaster for a
\* liquidation and again when it stopped, Bitcoin makes blocks, Ika signs, and
\* a submitted transaction lands or expires.
Fairness ==
    /\ WF_all(KeeperStep)
    /\ \A v \in BtcVaults :
         /\ WF_all(Delivery(v, "attest"))
         /\ WF_all(Delivery(v, "finalize"))
         /\ WF_all(BroadcasterStep(v))
         /\ WF_all(BitcoinBlock(v))
         /\ WF_all(IkaSignsSighash(v) /\ UNCHANGED daemonVars)

DaemonSpec == DaemonInit /\ [][DaemonNext]_all /\ Fairness

----------------------------------------------------------------------------

\* No loan is granted on a balance its address last had longer ago than the
\* attestation's maximal age and a transaction's delay together: what the
\* keeper read, however late and in whatever order its reports landed.
LoansOnRecentBalances ==
    [][\A v \in btcPositions' \ btcPositions :
         now - readAt[v] <= BTC_ATTESTATION_MAX_AGE_SECONDS + TX_DELAY]_all

\* A frozen vault thaws: whatever crashes and restarts, a liquidation is
\* finalized, unless the address no longer holds what the transaction takes.
LiquidationsFinish ==
    \A v \in BtcVaults :
      btcVault[v].frozen
        ~> \/ ~btcVault[v].frozen
           \/ spend[v].status = "none" /\ coins[v] < spend[v].satoshis

\* Once Bitcoin is quiet, the attestations end up, and stay, at the balances
\* of the addresses.
AttestationsConverge ==
    \A v \in BtcVaults :
      <>[](btcVault[v].live => attestation[v].satoshis = coins[v])
=============================================================================

------------------------------ MODULE BtcPanel ------------------------------
(***************************************************************************)
(* The Bitcoin half of web/app/lend/page.tsx: the visitor generates a      *)
(* dWallet and registers its vault, or loads a vault by its address, proves *)
(* custody, borrows and repays; an administrator may attest a balance by   *)
(* hand.  The page acts on the address it holds and shows what it last     *)
(* read, and a timer's read that is under way when another vault is loaded *)
(* still brings the old one.                                               *)
(*                                                                         *)
(* Not modelled: the log, the Torque events, the shape of keys, addresses  *)
(* and Bitcoin blocks, and typing a dWallet by hand, which fills the form  *)
(* like generating one.                                                    *)
(***************************************************************************)
EXTENDS LendPage

CONSTANT MOCK_SATOSHIS     \* the balance the page attests by hand

ASSUME BtcPanelAssumption == MOCK_SATOSHIS \in Nat

VARIABLES
    form,                  \* the vault of the dWallet filled in
    pda,                   \* the vault that is loaded
    shown,                 \* what was last read of a vault
    reading                \* the vault a timer's read is under way for

btcPanelVars == <<form, pda, shown, reading>>

BtcAddresses == BtcVaults \cup {NoPda}

NoShown == [v |-> NoPda, live |-> FALSE, status |-> PENDING, frozen |-> FALSE,
            satoshis |-> 0, principal |-> 0]

BtcPanelType ==
    /\ form \in BtcAddresses /\ pda \in BtcAddresses /\ reading \in BtcAddresses
    /\ shown \in [v : BtcAddresses, live : BOOLEAN,
                  status : {PENDING, VERIFIED, EXPIRED}, frozen : BOOLEAN,
                  satoshis : Nat, principal : Nat]

BtcPanelInit == form = NoPda /\ pda = NoPda /\ shown = NoShown /\ reading = NoPda

----------------------------------------------------------------------------
(* Reading, through the decoders *)

BtcVaultReads == Program!Reads(Program!BtcVaultLayout, Web!DecodeBtcVault)

AttestationReads ==
    Program!Reads(Program!BtcAttestationLayout,
                  Web!DecodeBitcoinBalanceAttestation)

BtcVaultField(v, name) == btcVault[v][BtcVaultReads[name]]
AttestationField(v, name) == attestation[v][AttestationReads[name]]

\* readBtcVault: vault, attestation and position, in three requests at once.
ReadBtcVault(v) ==
    IF v = NoPda \/ ~btcVault[v].live THEN NoShown
    ELSE [v |-> v, live |-> TRUE,
          status |-> BtcVaultField(v, "proof_status"),
          frozen |-> BtcVaultField(v, "frozen"),
          satoshis |-> AttestationField(v, "satoshis"),
          principal |-> [principal |-> btcPrincipal[v]]
                           [PositionReads["principal"]]]

\* refreshBtcVault: an address that cannot be parsed clears what is shown.
Loads(v) ==
    /\ pda' = IF v = NoPda THEN pda ELSE v
    /\ shown' = ReadBtcVault(v)

\* Load vault is never disabled.
ClickLoad(v) ==
    /\ Loads(v)
    /\ UNCHANGED <<chainVars, calls, running, mishaps, form, reading>>

\* Mutated form: reads again the vault that is shown.
TimerReadsShown ==
    /\ pda # NoPda /\ reading = NoPda
    /\ reading' = shown.v
    /\ UNCHANGED <<chainVars, calls, running, mishaps, form, pda, shown>>

\* Every 15 seconds, for the vault loaded by then.
TimerReads ==
    /\ pda # NoPda /\ reading = NoPda
    /\ reading' = pda
    /\ UNCHANGED <<chainVars, calls, running, mishaps, form, pda, shown>>

\* Its answer does not look which vault is loaded now.
TimerReturns ==
    /\ reading # NoPda
    /\ shown' = ReadBtcVault(reading)
    /\ reading' = NoPda
    /\ UNCHANGED <<chainVars, calls, running, mishaps, form, pda>>

----------------------------------------------------------------------------
(* The buttons, each with the condition that shows and enables it *)

\* createBtcDwallet: a key pair drawn at random.
FreshDwallet(v) ==
    /\ BtcOwnerOf[v] = Visitor
    /\ ~btcVault[v].live
    /\ approvals[v] = NoApprovals
    /\ v # form
    /\ \A c \in CallIds : calls[c].task.v # v

ClickGenerate(v) ==
    /\ ~running
    /\ FreshDwallet(v)
    /\ form' = v
    /\ UNCHANGED <<chainVars, calls, running, mishaps, pda, shown, reading>>

ClickRegister ==
    /\ form # NoPda
    /\ Starts(Task("btc_register", form, 0))

\* Steps 3 and 4 are there once a vault is shown.
Opened == shown.live /\ pda # NoPda

\* The approval is of the dWallet shown, the proof that of the vault loaded.
ClickProve ==
    /\ Opened
    /\ Starts(Task("btc_prove", IF shown.v = pda THEN pda ELSE NoPda, 0))

ClickVerify == Opened /\ Starts(Task("btc_verify", pda, 0))

BorrowBtcOffered ==
    /\ Opened /\ view.loaded
    /\ shown.status = VERIFIED
    /\ shown.satoshis > 0
    /\ ~shown.frozen

ClickBorrowBtc ==
    /\ BorrowBtcOffered
    /\ \E amount \in TypedAmounts : Starts(Task("btc_borrow", pda, amount))

BtcDebtShown == WebCurrentDebt(shown.principal, view.index)

BtcRepayAmount(all, typed) ==
    IF all THEN U64_MAX ELSE Smaller(typed, BtcDebtShown)

RepayBtcOffered == Opened /\ view.loaded /\ shown.principal > 0

ClickRepayBtc ==
    /\ RepayBtcOffered
    /\ \E all \in BOOLEAN, typed \in TypedAmounts :
         Starts(Task("btc_repay", pda, BtcRepayAmount(all, typed)))

\* Offered to every visitor; the program takes it from its administrator.
ClickAttest ==
    /\ Opened /\ shown.satoshis = 0
    /\ Starts(Task("btc_attest", pda, MOCK_SATOSHIS))

BtcClick ==
    \/ ClickRegister \/ ClickProve \/ ClickVerify \/ ClickBorrowBtc
    \/ ClickRepayBtc \/ ClickAttest

\* A handler of this half ends by loading the vault it was started for.
BtcReturns(c) ==
    /\ Confirmed(c)
    /\ IF calls[c].task.v = NoPda \/ calls[c].task.name = "liquidate"
       THEN UNCHANGED <<pda, shown>>
       ELSE Loads(calls[c].task.v)
    /\ Ended(c)
    /\ UNCHANGED <<chainVars, mishaps, form, reading>>

BtcPanelStep ==
    \/ (ReadMarket \/ ReadVaults) /\ UNCHANGED btcPanelVars
    \/ /\ \/ \E v \in BtcAddresses : ClickLoad(v)
          \/ \E v \in BtcVaults : ClickGenerate(v)
          \/ TimerReads
          \/ TimerReturns
          \/ \E c \in CallIds : BtcReturns(c)
       /\ UNCHANGED view
    \/ /\ \/ SharedClick \/ BtcClick
          \/ \E v \in Borrowers : ClickLiquidate(v)
          \/ \E c \in CallIds : Fares(c)
       /\ UNCHANGED <<view, btcPanelVars>>
----------------------------------------------------------------------------

\* The panel takes every vault for a VaultAccount that holds Bitcoin.
Mistaken(v) == v \in BtcVaults \/ vault[v].asset_type # BTC

\* Its loan is still the one the page last read.
StillOwed(v) ==
    v \in positions \cup btcPositions /\ PrincipalOf(v) = view.principal[v]

\* A vault the panel offers for liquidation is one the program would
\* liquidate, unless the panel mistakes it for what it is not, as long as its
\* own debt and deposit and the price of Bitcoin are what the page last read:
\* it does not matter how old the pool's index is.  And neither half takes a
\* loan, of a vault of either kind, for more debt than is owed.
EarlyOnlyByMistake ==
    /\ \A v \in Borrowers :
         /\ PanelLiquidatable(v) /\ StillOwed(v)
         /\ feed[BTC].price_usd = view.price
         /\ v \in Vaults => /\ vault[v].live
                           /\ vault[v].deposited_amount = view.deposited[v]
         => \/ Mistaken(v)
            \/ IsLiquidatable(vault[v].deposited_amount, feed[BTC].price_usd,
                              DebtOf(principal[v]), COLLATERAL_DECIMALS)
    /\ \A v \in Borrowers :
         StillOwed(v) => CachedDebt(v) <= DebtOf(PrincipalOf(v))
    /\ view.selected \in positions /\ principal[view.selected] = view.position
         => DebtShown <= DebtOf(view.position)
    /\ shown.v \in btcPositions /\ btcPrincipal[shown.v] = shown.principal
         => BtcDebtShown <= DebtOf(shown.principal)
=============================================================================

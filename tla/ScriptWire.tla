----------------------------- MODULE ScriptWire -----------------------------
(***************************************************************************)
(* The requests that the admin's scripts and the Bitcoin daemons of        *)
(* contracts/scripts/ build by hand, and the bytes of a Bitcoin vault the  *)
(* keeper looks at.                                                        *)
(***************************************************************************)
EXTENDS Wire

InitializeProtocolIx ==
    Instruction(<<W("protocol_state"), WS("signer"), R("system_program")>>, <<>>)

InitializeLendingPoolIx ==
    Instruction(<<W("lending_pool"), W("price_feed"), R("borrow_asset_mint"),
                  W("pool_token_vault"), WS("signer"), R("system_program"),
                  R("token_program")>>,
                <<<<"asset_type", 1>>, <<"initial_liquidity", 8>>,
                  <<"initial_price_usd", 8>>, <<"ltv_basis_points", 2>>,
                  <<"liquidation_threshold_bps", 2>>,
                  <<"liquidation_bonus_bps", 2>>, <<"base_rate_bps", 2>>,
                  <<"rate_slope_bps", 2>>>>)

InitializeAdminPriceFeedIx ==
    Instruction(<<W("price_feed"), WS("signer"), R("system_program")>>,
                <<<<"asset_type", 1>>, <<"initial_price_usd", 8>>>>)

BuildUpdatePriceIx ==
    Instruction(<<W("price_feed"), S("signer")>>, <<<<"new_price_usd", 8>>>>)

BuildAttestIx ==
    Instruction(<<W("btc_vault"), W("btc_attestation"), R("protocol_state"),
                  WS("signer")>>,
                <<<<"satoshis", 8>>, <<"bitcoin_block_height", 8>>,
                  <<"bitcoin_block_hash", 32>>>>)

BuildFinalizeIx ==
    Instruction(<<W("btc_vault"), W("btc_attestation"), W("btc_borrow_position"),
                  R("protocol_state"), WS("signer")>>,
                <<<<"bitcoin_tx_id", 32>>, <<"bitcoin_block_height", 8>>,
                  <<"confirmations", 4>>, <<"remaining_satoshis", 8>>>>)

----------------------------------------------------------------------------

\* The keeper finds the vaults by the size of their accounts, and in each of
\* them the address by its offset.
BTC_VAULT_LEN == 8 + 32 + 32 + 32 + 33 + 64 + 1 + 8 + 8 + 1 + 8 + 1 + 8 + 32 + 1
ADDRESS_OFFSET == 8 + 32 + 32 + 32 + 33

----------------------------------------------------------------------------
(* Addresses *)

\* The bootstrap's, of the accounts it creates, and refresh-prices's.
LendingPoolPda == <<Text("lending_pool"), Key("borrow_asset_mint")>>
FeedPda == <<Text("admin_price"), Key("asset_type")>>

\* The daemons'.
ProtocolStatePda == <<Text("protocol_state")>>
BtcAttestationPda == <<Text("btc_attestation"), Key("btc_vault")>>
Pda(seed) == <<Text(seed), Key("btc_vault")>>

Pdas ==
    [protocol_state |-> ProtocolStatePda, lending_pool |-> LendingPoolPda,
     price_feed |-> FeedPda, btc_attestation |-> BtcAttestationPda,
     btc_borrow_position |-> Pda("btc_borrow_position")]
=============================================================================

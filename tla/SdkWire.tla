------------------------------- MODULE SdkWire ------------------------------
(***************************************************************************)
(* The TypeScript SDK's side of the wire: the builders of                  *)
(* packages/sdk/src/lending/instructions.ts and btc-instructions.ts and    *)
(* the decoders of accounts.ts, written out a second time there.           *)
(***************************************************************************)
EXTENDS Wire

----------------------------------------------------------------------------
(* Instruction builders *)

BuildBorrowAgainstCollateralIx ==
    Instruction(<<W("vault"), R("protocol_state"), W("lending_pool"),
                  R("price_feed"), W("borrow_position"), W("pool_token_vault"),
                  W("signer_tokens"), WS("signer"), R("token_program"),
                  R("system_program")>>,
                <<<<"amount", 8>>, <<"health_ciphertext", 32>>>>)

BuildRepayBorrowIx ==
    Instruction(<<R("vault"), W("lending_pool"), W("borrow_position"),
                  W("pool_token_vault"), W("signer_tokens"), WS("signer"),
                  R("token_program")>>,
                <<<<"amount", 8>>>>)

BuildLiquidatePositionIx ==
    Instruction(<<W("vault"), R("protocol_state"), W("lending_pool"),
                  R("price_feed"), W("borrow_position"), W("pool_token_vault"),
                  W("signer_tokens"), WS("signer"), R("token_program")>>,
                <<>>)

BuildUpdateAdminPriceIx ==
    Instruction(<<W("price_feed"), S("signer")>>, <<<<"new_price_usd", 8>>>>)

BuildInitializeLendingPoolIx ==
    Instruction(<<W("lending_pool"), W("price_feed"), R("borrow_asset_mint"),
                  W("pool_token_vault"), WS("signer"), R("system_program"),
                  R("token_program")>>,
                <<<<"asset_type", 1>>, <<"initial_liquidity", 8>>,
                  <<"initial_price_usd", 8>>, <<"ltv_basis_points", 2>>,
                  <<"liquidation_threshold_bps", 2>>,
                  <<"liquidation_bonus_bps", 2>>, <<"base_rate_bps", 2>>,
                  <<"rate_slope_bps", 2>>>>)

BuildInitializeAdminPriceFeedIx ==
    Instruction(<<W("price_feed"), WS("signer"), R("system_program")>>,
                <<<<"asset_type", 1>>, <<"initial_price_usd", 8>>>>)

BuildRegisterBtcVaultIx ==
    Instruction(<<W("btc_vault"), W("btc_attestation"), W("protocol_state"),
                  WS("signer"), R("system_program")>>,
                <<<<"ika_dwallet", 32>>, <<"dwallet_pubkey", 33>>,
                  <<"bitcoin_address_len", 4>>, <<"bitcoin_address", 0>>>>)

BuildVerifyBtcCustodyProofIx ==
    Instruction(<<W("btc_vault"), R("message_approval"), S("signer")>>, <<>>)

BuildRefreshBtcCustodyProofIx ==
    Instruction(<<W("btc_vault"), R("message_approval"), S("signer")>>, <<>>)

BuildAttestBtcBalanceIx ==
    Instruction(<<W("btc_vault"), W("btc_attestation"), R("protocol_state"),
                  WS("signer")>>,
                <<<<"satoshis", 8>>, <<"bitcoin_block_height", 8>>,
                  <<"bitcoin_block_hash", 32>>>>)

BuildBorrowAgainstBtcCollateralIx ==
    Instruction(<<W("btc_vault"), R("protocol_state"), W("lending_pool"),
                  R("price_feed"), R("btc_attestation"), W("btc_borrow_position"),
                  W("pool_token_vault"), W("signer_tokens"), WS("signer"),
                  R("token_program"), R("system_program")>>,
                <<<<"amount", 8>>, <<"health_ciphertext", 32>>>>)

BuildRepayBtcBorrowIx ==
    Instruction(<<R("btc_vault"), W("lending_pool"), W("btc_borrow_position"),
                  W("pool_token_vault"), W("signer_tokens"), WS("signer"),
                  R("token_program")>>,
                <<<<"amount", 8>>>>)

BuildLiquidateBtcPositionIx ==
    Instruction(<<W("btc_vault"), R("protocol_state"), W("lending_pool"),
                  R("price_feed"), R("btc_attestation"), W("btc_borrow_position"),
                  W("pool_token_vault"), W("signer_tokens"),
                  R("lendguard_program"), R("cpi_authority"),
                  R("dwallet_program"), R("coordinator"), R("dwallet"),
                  W("ika_approval"), WS("signer"), R("token_program"),
                  R("system_program")>>,
                <<<<"bitcoin_sighash", 32>>, <<"message_metadata_digest", 32>>,
                  <<"user_pubkey", 32>>, <<"message_approval_bump", 1>>>>)

BuildFinalizeBtcLiquidationIx ==
    Instruction(<<W("btc_vault"), W("btc_attestation"), W("btc_borrow_position"),
                  R("protocol_state"), WS("signer")>>,
                <<<<"bitcoin_tx_id", 32>>, <<"bitcoin_block_height", 8>>,
                  <<"confirmations", 4>>, <<"remaining_satoshis", 8>>>>)

----------------------------------------------------------------------------
(* Decoders *)

DecodeLendingPool ==
    <<<<"discriminator", 8>>, <<"borrow_asset", 32>>,
      <<"borrow_asset_mint", 32>>, <<"pool_token_vault", 32>>,
      <<"total_liquidity", 8>>, <<"total_borrowed", 8>>, <<"admin", 32>>,
      <<"ltv_basis_points", 2>>, <<"liquidation_threshold_bps", 2>>,
      <<"liquidation_bonus_bps", 2>>, <<"mint_decimals", 1>>,
      <<"borrow_index", 16>>, <<"last_update_slot", 8>>,
      <<"base_rate_bps", 2>>, <<"rate_slope_bps", 2>>, <<"bump", 1>>>>

DecodeAdminPriceFeed ==
    <<<<"discriminator", 8>>, <<"asset_type", 1>>, <<"price_usd", 8>>,
      <<"updated_at", 8>>, <<"admin", 32>>, <<"bump", 1>>>>

DecodeBorrowPosition ==
    <<<<"discriminator", 8>>, <<"vault", 32>>, <<"owner", 32>>,
      <<"borrow_asset", 32>>, <<"principal", 8>>, <<"borrowed_at", 8>>,
      <<"last_updated_at", 8>>, <<"borrow_index_snapshot", 16>>,
      <<"health_ciphertext", 32>>, <<"bump", 1>>>>

----------------------------------------------------------------------------
(* Addresses and the accounts read at them *)

DeriveProtocolStatePda == <<Text("protocol_state")>>
DeriveLendingPoolPda == <<Text("lending_pool"), Key("borrow_asset_mint")>>
DeriveAdminPriceFeedPda == <<Text("admin_price"), Key("asset_type")>>
DeriveBorrowPositionPda == <<Text("borrow_position"), Key("vault")>>
DeriveVaultPda == <<Text("vault"), Key("owner"), Key("dwallet_id")>>
DeriveRiskStatePda == <<Text("risk_state"), Key("vault")>>

DeriveAssociatedTokenAddress ==
    <<Key("owner"), Key("token_program"), Key("mint")>>

DeriveBtcVaultPda == <<Text("btc_vault"), Key("owner"), Key("ika_dwallet")>>
DeriveBtcAttestationPda == <<Text("btc_attestation"), Key("btc_vault")>>

DeriveBtcBorrowPositionPda ==
    <<Text("btc_borrow_position"), Key("btc_vault")>>

DeriveIkaCpiAuthority == <<Text("__ika_cpi_authority")>>

Pdas ==
    [protocol_state |-> DeriveProtocolStatePda, vault |-> DeriveVaultPda,
     risk_state |-> DeriveRiskStatePda, lending_pool |-> DeriveLendingPoolPda,
     price_feed |-> DeriveAdminPriceFeedPda,
     borrow_position |-> DeriveBorrowPositionPda,
     btc_vault |-> DeriveBtcVaultPda,
     btc_attestation |-> DeriveBtcAttestationPda,
     btc_borrow_position |-> DeriveBtcBorrowPositionPda,
     cpi_authority |-> DeriveIkaCpiAuthority,
     signer_tokens |-> DeriveAssociatedTokenAddress]

BuildCreateAssociatedTokenAccountIx ==
    Instruction(<<WS("signer"), W("signer_tokens"), R("owner"), R("mint"),
                  R("system_program"), R("token_program")>>,
                <<<<"instruction", 1>>>>)

ReadLendingPool == Account(DeriveLendingPoolPda, DecodeLendingPool)
ReadAdminPriceFeed == Account(DeriveAdminPriceFeedPda, DecodeAdminPriceFeed)
ReadBorrowPosition == Account(DeriveBorrowPositionPda, DecodeBorrowPosition)

\* listAllBorrowPositions asks for the accounts of this size.
BORROW_POSITION_LEN == 8 + 32 + 32 + 32 + 8 + 8 + 8 + 16 + 32 + 1
=============================================================================

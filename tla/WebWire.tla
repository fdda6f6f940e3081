------------------------------- MODULE WebWire ------------------------------
(***************************************************************************)
(* The web application's side of the wire: the instruction builders of     *)
(* web/lib/program-actions.ts and the account decoders of                  *)
(* web/lib/lending-client.ts and web/lib/lendguard-gate.ts.                *)
(***************************************************************************)
EXTENDS Wire

----------------------------------------------------------------------------
(* Instruction builders *)

BuildInitializeProtocolIx ==
    Instruction(<<W("protocol_state"), WS("signer"), R("system_program")>>,
                <<>>)

BuildRegisterVaultIx ==
    Instruction(<<W("vault"), W("protocol_state"), WS("signer"),
                  R("system_program")>>,
                <<<<"dwallet_id", 32>>, <<"asset_type", 1>>>>)

\* Mutated form: passes the protocol state read-only.
DepositWithReadonlyProtocol ==
    Instruction(<<W("vault"), R("protocol_state"), WS("signer"),
                  R("system_program")>>,
                <<<<"amount", 8>>>>)

BuildDepositCollateralIx ==
    Instruction(<<W("vault"), W("protocol_state"), WS("signer"),
                  R("system_program")>>,
                <<<<"amount", 8>>>>)

BuildVerifyCustodyProofIx ==
    Instruction(<<W("vault"), R("message_approval"), WS("signer")>>,
                <<<<"expected_dwallet_id", 32>>>>)

BuildInitializeRiskStateIx ==
    Instruction(<<W("risk_state"), R("vault"), WS("signer"),
                  R("system_program")>>,
                <<<<"threshold_ciphertext", 32>>>>)

BuildUpdateBackingStateIx ==
    Instruction(<<R("vault"), W("risk_state"), R("protocol_state"),
                  R("encrypt_program"), W("backing_ciphertext"), S("signer"),
                  WS("signer"), R("system_program")>>,
                <<<<"new_backing_amount", 8>>>>)

BuildTriggerRiskCheckIx ==
    Instruction(<<W("vault"), W("risk_state"), W("protocol_state"),
                  R("encrypt_program"), R("backing_ciphertext"),
                  R("threshold_ciphertext"), W("result_ciphertext"),
                  WS("signer"), R("system_program")>>,
                <<>>)

BuildUnfreezeProtocolStateIx ==
    Instruction(<<W("protocol_state"), S("signer")>>, <<>>)

BuildApproveCustodySignatureIx ==
    Instruction(<<W("vault"), R("lendguard_program"), R("cpi_authority"),
                  R("dwallet_program"), R("coordinator"), R("dwallet"),
                  W("ika_approval"), WS("signer"), R("system_program")>>,
                <<<<"message_digest", 32>>, <<"message_metadata_digest", 32>>,
                  <<"user_pubkey", 32>>, <<"signature_scheme", 2>>,
                  <<"message_approval_bump", 1>>>>)

BuildInitializeLendingPoolIx ==
    Instruction(<<W("lending_pool"), W("price_feed"), R("borrow_asset_mint"),
                  W("pool_token_vault"), WS("signer"), R("system_program"),
                  R("token_program")>>,
                <<<<"asset_type", 1>>, <<"initial_liquidity", 8>>,
                  <<"initial_price_usd", 8>>, <<"ltv_basis_points", 2>>,
                  <<"liquidation_threshold_bps", 2>>,
                  <<"liquidation_bonus_bps", 2>>, <<"base_rate_bps", 2>>,
                  <<"rate_slope_bps", 2>>>>)

BuildCloseAdminPriceFeedIx ==
    Instruction(<<W("price_feed"), WS("signer")>>, <<>>)

BuildUpdateAdminPriceIx ==
    Instruction(<<W("price_feed"), S("signer")>>, <<<<"new_price_usd", 8>>>>)

BuildBorrowAgainstCollateralIx ==
    Instruction(<<W("vault"), R("protocol_state"), W("lending_pool"),
                  R("price_feed"), W("borrow_position"), W("pool_token_vault"),
                  W("signer_tokens"), WS("signer"), R("token_program"),
                  R("system_program")>>,
                <<<<"amount", 8>>, <<"health_ciphertext", 32>>>>)

BuildRepayBorrowIx ==
    Instruction(<<R("vault"), W("lending_pool"), W("borrow_position"),
                  W("pool_token_vault"), W("signer_tokens"), WS("signer"),
                  R("token_program")>>,
                <<<<"amount", 8>>>>)

BuildLiquidatePositionIx ==
    Instruction(<<W("vault"), R("protocol_state"), W("lending_pool"),
                  R("price_feed"), W("borrow_position"), W("pool_token_vault"),
                  W("signer_tokens"), WS("signer"), R("token_program")>>,
                <<>>)

BuildDemoCreateMessageApprovalIx ==
    Instruction(<<W("message_approval"), WS("signer"), R("system_program")>>,
                <<<<"dwallet_id", 32>>, <<"is_signed", 1>>>>)

BuildDemoCreateCiphertextIx ==
    Instruction(<<W("result_ciphertext"), WS("signer"), R("system_program")>>,
                <<<<"label", 8>>, <<"value", 1>>>>)

BuildRegisterBtcVaultIx ==
    Instruction(<<W("btc_vault"), W("btc_attestation"), W("protocol_state"),
                  WS("signer"), R("system_program")>>,
                <<<<"ika_dwallet", 32>>, <<"dwallet_pubkey", 33>>,
                  <<"bitcoin_address_len", 4>>, <<"bitcoin_address", 0>>>>)

BuildAttestBtcBalanceIx ==
    Instruction(<<W("btc_vault"), W("btc_attestation"), R("protocol_state"),
                  WS("signer")>>,
                <<<<"satoshis", 8>>, <<"bitcoin_block_height", 8>>,
                  <<"bitcoin_block_hash", 32>>>>)

BuildVerifyBtcCustodyProofIx ==
    Instruction(<<W("btc_vault"), R("message_approval"), S("signer")>>, <<>>)

BuildRefreshBtcCustodyProofIx ==
    Instruction(<<W("btc_vault"), R("message_approval"), S("signer")>>, <<>>)

BuildBorrowAgainstBtcCollateralIx ==
    Instruction(<<W("btc_vault"), R("protocol_state"), W("lending_pool"),
                  R("price_feed"), R("btc_attestation"), W("btc_borrow_position"),
                  W("pool_token_vault"), W("signer_tokens"), WS("signer"),
                  R("token_program"), R("system_program")>>,
                <<<<"amount", 8>>, <<"health_ciphertext", 32>>>>)

BuildRepayBtcBorrowIx ==
    Instruction(<<R("btc_vault"), W("lending_pool"), W("btc_borrow_position"),
                  W("pool_token_vault"), W("signer_tokens"), WS("signer"),
                  R("token_program")>>,
                <<<<"amount", 8>>>>)

BuildLiquidateBtcPositionIx ==
    Instruction(<<W("btc_vault"), R("protocol_state"), W("lending_pool"),
                  R("price_feed"), R("btc_attestation"), W("btc_borrow_position"),
                  W("pool_token_vault"), W("signer_tokens"),
                  R("lendguard_program"), R("cpi_authority"),
                  R("dwallet_program"), R("coordinator"), R("dwallet"),
                  W("ika_approval"), WS("signer"), R("token_program"),
                  R("system_program")>>,
                <<<<"bitcoin_sighash", 32>>, <<"message_metadata_digest", 32>>,
                  <<"user_pubkey", 32>>, <<"message_approval_bump", 1>>>>)

\* Mutated form: passes the attestation read-only.
FinalizeWithReadonlyAttestation ==
    Instruction(<<W("btc_vault"), R("btc_attestation"), W("btc_borrow_position"),
                  R("protocol_state"), WS("signer")>>,
                <<<<"bitcoin_tx_id", 32>>, <<"bitcoin_block_height", 8>>,
                  <<"confirmations", 4>>, <<"remaining_satoshis", 8>>>>)

BuildFinalizeBtcLiquidationIx ==
    Instruction(<<W("btc_vault"), W("btc_attestation"), W("btc_borrow_position"),
                  R("protocol_state"), WS("signer")>>,
                <<<<"bitcoin_tx_id", 32>>, <<"bitcoin_block_height", 8>>,
                  <<"confirmations", 4>>, <<"remaining_satoshis", 8>>>>)

----------------------------------------------------------------------------
(* Decoders read field after field, the discriminator skipped *)

DecodeVaultAccount ==
    <<<<"discriminator", 8>>, <<"vault_id", 32>>, <<"owner", 32>>,
      <<"dwallet_id", 32>>, <<"asset_type", 1>>, <<"deposited_amount", 8>>,
      <<"proof_status", 1>>, <<"proof_timestamp", 8>>, <<"frozen", 1>>,
      <<"bump", 1>>>>

DecodeLendingPool ==
    <<<<"discriminator", 8>>, <<"borrow_asset", 32>>,
      <<"borrow_asset_mint", 32>>, <<"pool_token_vault", 32>>,
      <<"total_liquidity", 8>>, <<"total_borrowed", 8>>, <<"admin", 32>>,
      <<"ltv_basis_points", 2>>, <<"liquidation_threshold_bps", 2>>,
      <<"liquidation_bonus_bps", 2>>, <<"mint_decimals", 1>>,
      <<"borrow_index", 16>>, <<"last_update_slot", 8>>,
      <<"base_rate_bps", 2>>, <<"rate_slope_bps", 2>>, <<"bump", 1>>>>

DecodeAdminPriceFeed ==
    <<<<"discriminator", 8>>, <<"asset_type", 1>>, <<"price_usd", 8>>,
      <<"updated_at", 8>>, <<"admin", 32>>, <<"bump", 1>>>>

DecodeBorrowPosition ==
    <<<<"discriminator", 8>>, <<"vault", 32>>, <<"owner", 32>>,
      <<"borrow_asset", 32>>, <<"principal", 8>>, <<"borrowed_at", 8>>,
      <<"last_updated_at", 8>>, <<"borrow_index_snapshot", 16>>,
      <<"health_ciphertext", 32>>, <<"bump", 1>>>>

DecodeBtcVault ==
    <<<<"discriminator", 8>>, <<"vault_id", 32>>, <<"owner", 32>>,
      <<"ika_dwallet", 32>>, <<"dwallet_pubkey", 33>>,
      <<"bitcoin_address", 64>>, <<"bitcoin_address_len", 1>>,
      <<"deposited_satoshis", 8>>, <<"last_attestation_slot", 8>>,
      <<"proof_status", 1>>, <<"proof_timestamp", 8>>, <<"frozen", 1>>,
      <<"liquidation_initiated_at", 8>>, <<"liquidation_sighash", 32>>,
      <<"bump", 1>>>>

DecodeBitcoinBalanceAttestation ==
    <<<<"discriminator", 8>>, <<"btc_vault", 32>>, <<"bitcoin_address", 64>>,
      <<"bitcoin_address_len", 1>>, <<"satoshis", 8>>,
      <<"bitcoin_block_height", 8>>, <<"bitcoin_block_hash", 32>>,
      <<"attested_at_slot", 8>>, <<"attested_at_unix", 8>>, <<"keeper", 32>>,
      <<"bump", 1>>>>

\* buildMockMessageApprovalData, and a script that prints an approval.
MockMessageApprovalData ==
    <<<<"discriminator", 8>>, <<"dwallet_id", 32>>, <<"approved_at", 8>>,
      <<"is_signed", 1>>>>

ReadMessageApproval ==
    <<<<"discriminator", 8>>, <<"dwallet_id", 32>>, <<"approved_at", 8>>,
      <<"is_signed", 1>>>>

\* parseAnchorError: the table of the demo page, which ends at 0x1783.
FIRST_NAMED_ERROR == 6000

NamedErrors ==
    <<"VaultNotVerified", "VaultFrozen", "ProtocolFrozen", "ProofExpired",
      "InvalidProofAmount", "DWalletMismatch", "InvalidMessageApproval",
      "InsufficientCollateral", "InvalidAssetType", "UnauthorizedCaller",
      "RiskCheckFailed", "InvalidIkaProgram", "InvalidEncryptProgram",
      "InvalidCiphertextAccount", "ArithmeticOverflow", "InvalidTimestamp",
      "VaultAlreadyVerified", "VaultNotFound", "InvalidWithdrawalAmount",
      "InvalidDepositAmount">>

ParseAnchorError(code) ==
    IF code - FIRST_NAMED_ERROR + 1 \in DOMAIN NamedErrors
    THEN NamedErrors[code - FIRST_NAMED_ERROR + 1] ELSE "unnamed"

\* readProtocolFrozen and readProtocolState look at one byte.
FROZEN_OFFSET == 40

\* The memcmp filters that find the accounts of one owner.
OWNER_OFFSET_IN_VAULT == 40
OWNER_OFFSET_IN_POSITION == 40

----------------------------------------------------------------------------
(* Addresses and the accounts read at them *)

DeriveProtocolStatePda == <<Text("protocol_state")>>
DeriveVaultPda == <<Text("vault"), Key("owner"), Key("dwallet_id")>>
DeriveRiskStatePda == <<Text("risk_state"), Key("vault")>>

DeriveIkaCpiAuthority == <<Text("__ika_cpi_authority")>>

DeriveDemoMessageApprovalPda ==
    <<Text("demo_msg_approval"), Key("payer"), Key("dwallet_id")>>

DeriveDemoCiphertextPda ==
    <<Text("demo_ciphertext"), Key("payer"), Key("label")>>

DeriveAssociatedTokenAddress ==
    <<Key("owner"), Key("token_program"), Key("mint")>>

DeriveLendingPoolPda == <<Text("lending_pool"), Key("borrow_asset_mint")>>
DeriveAdminPriceFeedPda == <<Text("admin_price"), Key("asset_type")>>
DeriveBorrowPositionPda == <<Text("borrow_position"), Key("vault")>>
DeriveBtcVaultPda == <<Text("btc_vault"), Key("owner"), Key("ika_dwallet")>>
DeriveBtcAttestationPda == <<Text("btc_attestation"), Key("btc_vault")>>

DeriveBtcBorrowPositionPda ==
    <<Text("btc_borrow_position"), Key("btc_vault")>>

\* Of the Ika program.  A dWallet's curve byte and public key are cut into
\* seeds of 32 bytes.
DeriveDwalletCoordinatorPda == <<Text("dwallet_coordinator")>>

DeriveDwalletPda(publicKeyLength) ==
    LET payload == 1 + publicKeyLength
    IN  [k \in 1..((payload + 31) \div 32) |->
           Piece(32 * (k - 1), IF 32 * k < payload THEN 32 * k ELSE payload)]

DeriveMessageApprovalPda ==
    <<Text("message_approval"), Key("dwallet"), Key("message_digest")>>

Pdas ==
    [protocol_state |-> DeriveProtocolStatePda, vault |-> DeriveVaultPda,
     risk_state |-> DeriveRiskStatePda, lending_pool |-> DeriveLendingPoolPda,
     price_feed |-> DeriveAdminPriceFeedPda,
     borrow_position |-> DeriveBorrowPositionPda,
     btc_vault |-> DeriveBtcVaultPda,
     btc_attestation |-> DeriveBtcAttestationPda,
     btc_borrow_position |-> DeriveBtcBorrowPositionPda,
     message_approval |-> DeriveDemoMessageApprovalPda,
     result_ciphertext |-> DeriveDemoCiphertextPda,
     cpi_authority |-> DeriveIkaCpiAuthority,
     coordinator |-> DeriveDwalletCoordinatorPda,
     ika_approval |-> DeriveMessageApprovalPda,
     signer_tokens |-> DeriveAssociatedTokenAddress]

BuildCreateAssociatedTokenAccountIx ==
    Instruction(<<WS("signer"), W("signer_tokens"), R("owner"), R("mint"),
                  R("system_program"), R("token_program")>>,
                <<<<"instruction", 1>>>>)

\* The pool's reader reads the feed of Bitcoin with it.
ReadDefaultLendingPool == Account(DeriveLendingPoolPda, DecodeLendingPool)
ReadBtcPriceFeed == Account(DeriveAdminPriceFeedPda, DecodeAdminPriceFeed)
ReadBorrowPosition == Account(DeriveBorrowPositionPda, DecodeBorrowPosition)
=============================================================================

---------------------------- MODULE ProgramWire -----------------------------
(***************************************************************************)
(* The program's side of the wire: the accounts structs of instructions/,  *)
(* the entry points of lib.rs and the account layouts of state/.           *)
(* `init` and `close` accounts are writable, like `mut` ones.              *)
(***************************************************************************)
EXTENDS Wire

----------------------------------------------------------------------------
(* Accounts structs *)

InitializeProtocolAccounts ==
    <<W("protocol_state"), WS("signer"), R("system_program")>>

RegisterVaultAccounts ==
    <<W("vault"), W("protocol_state"), WS("signer"), R("system_program")>>

VerifyCustodyProofAccounts ==
    <<W("vault"), R("message_approval"), WS("signer")>>

DepositCollateralAccounts ==
    <<W("vault"), W("protocol_state"), WS("signer"), R("system_program")>>

InitializeRiskStateAccounts ==
    <<W("risk_state"), R("vault"), WS("signer"), R("system_program")>>

\* The oracle and the payer may be the same wallet.
UpdateBackingStateAccounts ==
    <<R("vault"), W("risk_state"), R("protocol_state"), R("encrypt_program"),
      W("backing_ciphertext"), S("signer"), WS("signer"), R("system_program")>>

TriggerRiskCheckAccounts ==
    <<W("vault"), W("risk_state"), W("protocol_state"), R("encrypt_program"),
      R("backing_ciphertext"), R("threshold_ciphertext"),
      W("result_ciphertext"), WS("signer"), R("system_program")>>

UnfreezeProtocolStateAccounts == <<W("protocol_state"), S("signer")>>

ApproveCustodySignatureAccounts ==
    <<W("vault"), R("lendguard_program"), R("cpi_authority"),
      R("dwallet_program"), R("coordinator"), R("dwallet"),
      W("ika_approval"), WS("signer"), R("system_program")>>

InitializeLendingPoolAccounts ==
    <<W("lending_pool"), W("price_feed"), R("borrow_asset_mint"),
      W("pool_token_vault"), WS("signer"), R("system_program"),
      R("token_program")>>

InitializeAdminPriceFeedAccounts ==
    <<W("price_feed"), WS("signer"), R("system_program")>>

CloseAdminPriceFeedAccounts == <<W("price_feed"), WS("signer")>>

UpdateAdminPriceAccounts == <<W("price_feed"), S("signer")>>

BorrowAgainstCollateralAccounts ==
    <<W("vault"), R("protocol_state"), W("lending_pool"), R("price_feed"),
      W("borrow_position"), W("pool_token_vault"), W("signer_tokens"),
      WS("signer"), R("token_program"), R("system_program")>>

RepayBorrowAccounts ==
    <<R("vault"), W("lending_pool"), W("borrow_position"),
      W("pool_token_vault"), W("signer_tokens"), WS("signer"),
      R("token_program")>>

LiquidatePositionAccounts ==
    <<W("vault"), R("protocol_state"), W("lending_pool"), R("price_feed"),
      W("borrow_position"), W("pool_token_vault"), W("signer_tokens"),
      WS("signer"), R("token_program")>>

RegisterBtcVaultAccounts ==
    <<W("btc_vault"), W("btc_attestation"), W("protocol_state"), WS("signer"),
      R("system_program")>>

AttestBtcBalanceAccounts ==
    <<W("btc_vault"), W("btc_attestation"), R("protocol_state"), WS("signer")>>

VerifyBtcCustodyProofAccounts ==
    <<W("btc_vault"), R("message_approval"), S("signer")>>

BorrowAgainstBtcCollateralAccounts ==
    <<W("btc_vault"), R("protocol_state"), W("lending_pool"), R("price_feed"),
      R("btc_attestation"), W("btc_borrow_position"), W("pool_token_vault"),
      W("signer_tokens"), WS("signer"), R("token_program"),
      R("system_program")>>

RepayBtcBorrowAccounts ==
    <<R("btc_vault"), W("lending_pool"), W("btc_borrow_position"),
      W("pool_token_vault"), W("signer_tokens"), WS("signer"),
      R("token_program")>>

LiquidateBtcPositionAccounts ==
    <<W("btc_vault"), R("protocol_state"), W("lending_pool"), R("price_feed"),
      R("btc_attestation"), W("btc_borrow_position"), W("pool_token_vault"),
      W("signer_tokens"), R("lendguard_program"), R("cpi_authority"),
      R("dwallet_program"), R("coordinator"), R("dwallet"),
      W("ika_approval"), WS("signer"), R("token_program"),
      R("system_program")>>

FinalizeBtcLiquidationAccounts ==
    <<W("btc_vault"), W("btc_attestation"), W("btc_borrow_position"),
      R("protocol_state"), WS("signer")>>

DemoCreateMessageApprovalAccounts ==
    <<W("message_approval"), WS("signer"), R("system_program")>>

DemoCreateCiphertextAccounts ==
    <<W("result_ciphertext"), WS("signer"), R("system_program")>>

----------------------------------------------------------------------------
(* Entry points of the instructions some client builds *)

initialize_protocol == Instruction(InitializeProtocolAccounts, <<>>)

register_vault ==
    Instruction(RegisterVaultAccounts,
                <<<<"dwallet_id", 32>>, <<"asset_type", 1>>>>)

initialize_risk_state ==
    Instruction(InitializeRiskStateAccounts, <<<<"threshold_ciphertext", 32>>>>)

verify_custody_proof ==
    Instruction(VerifyCustodyProofAccounts, <<<<"expected_dwallet_id", 32>>>>)

deposit_collateral == Instruction(DepositCollateralAccounts, <<<<"amount", 8>>>>)

update_backing_state ==
    Instruction(UpdateBackingStateAccounts, <<<<"new_backing_amount", 8>>>>)

trigger_risk_check == Instruction(TriggerRiskCheckAccounts, <<>>)

unfreeze_protocol_state == Instruction(UnfreezeProtocolStateAccounts, <<>>)

approve_custody_signature ==
    Instruction(ApproveCustodySignatureAccounts,
                <<<<"message_digest", 32>>, <<"message_metadata_digest", 32>>,
                  <<"user_pubkey", 32>>, <<"signature_scheme", 2>>,
                  <<"message_approval_bump", 1>>>>)

initialize_lending_pool ==
    Instruction(InitializeLendingPoolAccounts,
                <<<<"asset_type", 1>>, <<"initial_liquidity", 8>>,
                  <<"initial_price_usd", 8>>, <<"ltv_basis_points", 2>>,
                  <<"liquidation_threshold_bps", 2>>,
                  <<"liquidation_bonus_bps", 2>>, <<"base_rate_bps", 2>>,
                  <<"rate_slope_bps", 2>>>>)

update_admin_price ==
    Instruction(UpdateAdminPriceAccounts, <<<<"new_price_usd", 8>>>>)

close_admin_price_feed == Instruction(CloseAdminPriceFeedAccounts, <<>>)

initialize_admin_price_feed ==
    Instruction(InitializeAdminPriceFeedAccounts,
                <<<<"asset_type", 1>>, <<"initial_price_usd", 8>>>>)

borrow_against_collateral ==
    Instruction(BorrowAgainstCollateralAccounts,
                <<<<"amount", 8>>, <<"health_ciphertext", 32>>>>)

repay_borrow == Instruction(RepayBorrowAccounts, <<<<"amount", 8>>>>)

liquidate_position == Instruction(LiquidatePositionAccounts, <<>>)

\* The address is a borsh vector: four bytes of length, then that many bytes.
register_btc_vault ==
    Instruction(RegisterBtcVaultAccounts,
                <<<<"ika_dwallet", 32>>, <<"dwallet_pubkey", 33>>,
                  <<"bitcoin_address_len", 4>>, <<"bitcoin_address", 0>>>>)

attest_btc_balance ==
    Instruction(AttestBtcBalanceAccounts,
                <<<<"satoshis", 8>>, <<"bitcoin_block_height", 8>>,
                  <<"bitcoin_block_hash", 32>>>>)

verify_btc_custody_proof == Instruction(VerifyBtcCustodyProofAccounts, <<>>)

refresh_btc_custody_proof == Instruction(VerifyBtcCustodyProofAccounts, <<>>)

borrow_against_btc_collateral ==
    Instruction(BorrowAgainstBtcCollateralAccounts,
                <<<<"amount", 8>>, <<"health_ciphertext", 32>>>>)

repay_btc_borrow == Instruction(RepayBtcBorrowAccounts, <<<<"amount", 8>>>>)

liquidate_btc_position ==
    Instruction(LiquidateBtcPositionAccounts,
                <<<<"bitcoin_sighash", 32>>, <<"message_metadata_digest", 32>>,
                  <<"user_pubkey", 32>>, <<"message_approval_bump", 1>>>>)

finalize_btc_liquidation ==
    Instruction(FinalizeBtcLiquidationAccounts,
                <<<<"bitcoin_tx_id", 32>>, <<"bitcoin_block_height", 8>>,
                  <<"confirmations", 4>>, <<"remaining_satoshis", 8>>>>)

demo_create_message_approval ==
    Instruction(DemoCreateMessageApprovalAccounts,
                <<<<"dwallet_id", 32>>, <<"is_signed", 1>>>>)

demo_create_ciphertext ==
    Instruction(DemoCreateCiphertextAccounts,
                <<<<"label", 8>>, <<"value", 1>>>>)

----------------------------------------------------------------------------
(* Account layouts; Anchor puts eight discriminator bytes first *)

ProtocolStateLayout ==
    <<<<"discriminator", 8>>, <<"admin", 32>>, <<"frozen", 1>>,
      <<"total_vaults", 8>>, <<"total_verified", 8>>, <<"total_rejected", 8>>,
      <<"total_collateral_verified", 16>>, <<"bump", 1>>>>

VaultLayout ==
    <<<<"discriminator", 8>>, <<"vault_id", 32>>, <<"owner", 32>>,
      <<"dwallet_id", 32>>, <<"asset_type", 1>>, <<"deposited_amount", 8>>,
      <<"proof_status", 1>>, <<"proof_timestamp", 8>>, <<"frozen", 1>>,
      <<"bump", 1>>>>

LendingPoolLayout ==
    <<<<"discriminator", 8>>, <<"borrow_asset", 32>>,
      <<"borrow_asset_mint", 32>>, <<"pool_token_vault", 32>>,
      <<"total_liquidity", 8>>, <<"total_borrowed", 8>>, <<"admin", 32>>,
      <<"ltv_basis_points", 2>>, <<"liquidation_threshold_bps", 2>>,
      <<"liquidation_bonus_bps", 2>>, <<"mint_decimals", 1>>,
      <<"borrow_index", 16>>, <<"last_update_slot", 8>>,
      <<"base_rate_bps", 2>>, <<"rate_slope_bps", 2>>, <<"bump", 1>>>>

AdminPriceFeedLayout ==
    <<<<"discriminator", 8>>, <<"asset_type", 1>>, <<"price_usd", 8>>,
      <<"updated_at", 8>>, <<"admin", 32>>, <<"bump", 1>>>>

BorrowPositionLayout ==
    <<<<"discriminator", 8>>, <<"vault", 32>>, <<"owner", 32>>,
      <<"borrow_asset", 32>>, <<"principal", 8>>, <<"borrowed_at", 8>>,
      <<"last_updated_at", 8>>, <<"borrow_index_snapshot", 16>>,
      <<"health_ciphertext", 32>>, <<"bump", 1>>>>

BtcVaultLayout ==
    <<<<"discriminator", 8>>, <<"vault_id", 32>>, <<"owner", 32>>,
      <<"ika_dwallet", 32>>, <<"dwallet_pubkey", 33>>,
      <<"bitcoin_address", 64>>, <<"bitcoin_address_len", 1>>,
      <<"deposited_satoshis", 8>>, <<"last_attestation_slot", 8>>,
      <<"proof_status", 1>>, <<"proof_timestamp", 8>>, <<"frozen", 1>>,
      <<"liquidation_initiated_at", 8>>, <<"liquidation_sighash", 32>>,
      <<"bump", 1>>>>

BtcAttestationLayout ==
    <<<<"discriminator", 8>>, <<"btc_vault", 32>>, <<"bitcoin_address", 64>>,
      <<"bitcoin_address_len", 1>>, <<"satoshis", 8>>,
      <<"bitcoin_block_height", 8>>, <<"bitcoin_block_hash", 32>>,
      <<"attested_at_slot", 8>>, <<"attested_at_unix", 8>>, <<"keeper", 32>>,
      <<"bump", 1>>>>

\* What demo_create_message_approval writes, and where the parser looks.
DemoMessageApprovalLayout ==
    <<<<"discriminator", 8>>, <<"dwallet_id", 32>>, <<"approved_at", 8>>,
      <<"is_signed", 1>>>>

parse_demo ==
    <<<<"discriminator", 8>>, <<"dwallet_id", 32>>, <<"approved_at", 8>>,
      <<"is_signed", 1>>>>

----------------------------------------------------------------------------
(* Errors: Anchor numbers the variants of the enum in their order. *)

ERROR_CODE_OFFSET == 6000

LendGuardError ==
    <<"VaultNotVerified", "VaultFrozen", "ProtocolFrozen", "ProofExpired",
      "InvalidProofAmount", "DWalletMismatch", "InvalidMessageApproval",
      "InsufficientCollateral", "InvalidAssetType", "UnauthorizedCaller",
      "RiskCheckFailed", "InvalidIkaProgram", "InvalidEncryptProgram",
      "InvalidCiphertextAccount", "ArithmeticOverflow", "InvalidTimestamp",
      "VaultAlreadyVerified", "VaultNotFound", "InvalidWithdrawalAmount",
      "InvalidDepositAmount", "InvalidLendingPoolParameter",
      "InvalidBorrowAmount", "InsufficientPoolLiquidity",
      "BorrowExceedsCollateralLtv", "OutstandingDebt", "InvalidRepayAmount",
      "PriceFeedStale", "PositionHealthy", "NoOutstandingDebt",
      "SelfLiquidation", "PoolTokenVaultMismatch", "BorrowAssetMintMismatch",
      "TokenAccountOwnerMismatch", "InsufficientCollateralLamports",
      "LiquidationNotAuthorised", "InvalidDwalletPubkey",
      "InvalidBitcoinAddress", "BitcoinAttestationStale",
      "BitcoinAttestationMismatch", "KeeperNotAuthorised",
      "BtcVaultNotVerified", "BtcVaultFrozen", "BtcVaultHasOpenDebt",
      "BtcLiquidationNotInitiated", "BtcLiquidationAlreadyInitiated",
      "BitcoinLiquidationSighashMismatch", "BitcoinConfirmationsInsufficient",
      "InsufficientBtcCollateral">>

CodeOf(i) == ERROR_CODE_OFFSET + i - 1

----------------------------------------------------------------------------
(* Addresses, from the seeds of the accounts structs *)

ProtocolStatePda == <<Text("protocol_state")>>
VaultPda == <<Text("vault"), Key("owner"), Key("dwallet_id")>>
RiskStatePda == <<Text("risk_state"), Key("vault")>>
LendingPoolPda == <<Text("lending_pool"), Key("borrow_asset_mint")>>
AdminPriceFeedPda == <<Text("admin_price"), Key("asset_type")>>
BorrowPositionPda == <<Text("borrow_position"), Key("vault")>>
BtcVaultPda == <<Text("btc_vault"), Key("owner"), Key("ika_dwallet")>>
BtcAttestationPda == <<Text("btc_attestation"), Key("btc_vault")>>
BtcBorrowPositionPda == <<Text("btc_borrow_position"), Key("btc_vault")>>

DemoMessageApprovalPda ==
    <<Text("demo_msg_approval"), Key("payer"), Key("dwallet_id")>>

DemoCiphertextPda == <<Text("demo_ciphertext"), Key("payer"), Key("label")>>

\* Of the Ika program's Anchor crate.
CpiAuthorityPda == <<Text("__ika_cpi_authority")>>

\* Of the Ika program, under its own address.
DWalletCoordinatorPda == <<Text("dwallet_coordinator")>>
IkaMessageApprovalPda ==
    <<Text("message_approval"), Key("dwallet"), Key("message_digest")>>

\* Of the associated token program.
AssociatedTokenAddress == <<Key("owner"), Key("token_program"), Key("mint")>>

Pdas ==
    [protocol_state |-> ProtocolStatePda, vault |-> VaultPda,
     risk_state |-> RiskStatePda, lending_pool |-> LendingPoolPda,
     price_feed |-> AdminPriceFeedPda, borrow_position |-> BorrowPositionPda,
     btc_vault |-> BtcVaultPda, btc_attestation |-> BtcAttestationPda,
     btc_borrow_position |-> BtcBorrowPositionPda,
     message_approval |-> DemoMessageApprovalPda,
     result_ciphertext |-> DemoCiphertextPda, cpi_authority |-> CpiAuthorityPda,
     coordinator |-> DWalletCoordinatorPda,
     ika_approval |-> IkaMessageApprovalPda,
     signer_tokens |-> AssociatedTokenAddress]

\* The instruction of the associated token program that does nothing when the
\* account is there; its one argument names it.
create_idempotent ==
    Instruction(<<WS("signer"), W("signer_tokens"), R("owner"), R("mint"),
                  R("system_program"), R("token_program")>>,
                <<<<"instruction", 1>>>>)

LendingPoolAccount == Account(LendingPoolPda, LendingPoolLayout)
AdminPriceFeedAccount == Account(AdminPriceFeedPda, AdminPriceFeedLayout)
BorrowPositionAccount == Account(BorrowPositionPda, BorrowPositionLayout)
=============================================================================

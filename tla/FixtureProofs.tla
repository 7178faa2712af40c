---------------------------- MODULE FixtureProofs ----------------------------
(***************************************************************************)
(* The properties of MCFixtures, proved of its specification.  A behaviour *)
(* of it deploys one contract of one crate, so that each conjunct of a     *)
(* property is the lemma of its crate in ControlProofs or FundsProofs,     *)
(* once it is known that the crate deployed never changes and only its own *)
(* calls step.                                                             *)
(***************************************************************************)
EXTENDS MCFixtures, ControlProofs, FundsProofs

-----------------------------------------------------------------------------
(* One crate is deployed, and only its own calls step.                     *)

\* What is deployed is a contract of the crate it names.
LEMMA Deploys ==
    /\ Expiry_Init => crate = "airdrop_expiry_ignored"
    /\ Start_Init => crate = "airdrop_claim_before_start"
    /\ Campaign_Init => crate = "airdrop_campaign_collision"
    /\ Leaf_Init => crate = "merkle_leaf_missing_amount"
    /\ Epoch_Init => crate = "epoch_claim_no_advance"
    /\ Revoked_Init => crate = "revoked_vesting_claim"
    /\ Subtract_Init => crate = "vesting_claimed_not_subtracted"
    /\ Cliff_Init => crate = "vesting_cliff_after_end"
    /\ Pool_Init => crate = "underfunded_reward_pool"
    /\ Rate_Init => crate = "zero_reward_rate"
    /\ Commission_Init => crate = "validator_commission_uncapped"
    /\ Slash_Init => crate = "slash_without_evidence"
    /\ Checkpoint_Init => crate = "reward_checkpoint_missing"
    /\ Grief_Init => crate = "repay_for_reward_grief"
    /\ Index_Init => crate = "interest_index_reset"
    /\ Factor_Init => crate = "collateral_factor_over_100"
    /\ Accrual_Init => crate = "borrow_without_accrual"
    /\ Uncapped_Init => crate = "uncapped_rate"
    /\ Round_Init => crate = "liquidation_dust_rounding"
    /\ Mixed_Init => crate = "mixed_collateral_decimals"
    /\ Mixup_Init => crate = "borrow_cap_asset_mixup"
    /\ Health_Init => crate = "collateral_withdraw_no_health_check"
    /\ Skim_Init => crate = "admin_skim_donations"
    /\ Rebase_Init => crate = "rebasing_token_accounting"
    /\ Rescue_Init => crate = "rescue_primary_asset"
    /\ Emergency_Init => crate = "unprotected_emergency_withdraw"
    /\ Inflation_Init => crate = "empty_vault_share_inflation"
    /\ Donation_Init => crate = "vault_donation_accounting"
    /\ Cap_Init => crate = "deposit_cap_wrong_amount"
    /\ Units_Init => crate = "sequence_as_timestamp"
    /\ Leak_Init => crate = "withdraw_rounding_leak"
    /\ ZeroShare_Init => crate = "zero_share_rounding"
    /\ FreeShare_Init => crate = "free_share_rounding"
    /\ Order_Init => crate = "canceled_listing_fillable"
    /\ Buy_Init => crate = "buy_without_listing"
    /\ Royalty_Init => crate = "royalty_recipient_mutable"
    /\ Self_Init => crate = "seller_self_purchase"
    /\ Operator_Init => crate = "nft_operator_collection_mixup"
    /\ Discount_Init => crate = "royalty_discount_miscalc"
    /\ Early_Init => crate = "auction_close_early"
    /\ Refund_Init => crate = "auction_refund_block"
    /\ Increment_Init => crate = "auction_min_increment_missing"
    /\ Approval_Init => crate = "single_approval_escrow_release"
    /\ Overdraw_Init => crate = "escrow_balance_check"
    /\ Slippage_Init => crate = "no_slippage"
    /\ Wrap_Init => crate = "unwrap_without_burn"
    /\ Validators_Init => crate = "bridge_validator_quorum_missing"
    /\ Chain_Init => crate = "bridge_chainid_missing"
    /\ Nonce_Init => crate = "bridge_nonce_global"
    /\ Proof_Init => crate = "bridge_partial_mint_replay"
    /\ Allow_Init => crate = "wrapped_asset_allowlist_bypass"
    /\ Fake_Init => crate = "fake_token_registration"
    /\ Supply_Init => crate = "uncapped_supply"
    /\ Supplied_Init => crate = "caller_supplied_ledger"
    /\ Batch_Init => crate = "batch_pause_bypass"
    /\ Blacklist_Init => crate = "incomplete_blacklist"
    /\ Partial_Init => crate = "batch_partial_failure"
    /\ Ttl_Init => crate = "ttl_bump_index_only"
    /\ Lottery_Init => crate = "weak_randomness"
    /\ FeeIn_Init => crate = "fee_on_transfer"
    /\ SelfIn_Init => crate = "self_deposit"
    /\ Negative_Init => crate = "negative_fee_bps"
    /\ Precision_Init => crate = "fee_precision_loss"
    /\ Domain_Init => crate = "permit_domain_missing"
    /\ Deadline_Init => crate = "permit_deadline_ignored"
    /\ Signer_Init => crate = "delegate_signer_mismatch"
    /\ Overwrite_Init => crate = "nonzero_allowance_overwrite"
    /\ Before_Init => crate = "allowance_before_balance"
    /\ Decrement_Init => crate = "allowance_not_decremented"
    /\ Listing_Init => crate = "listing_price_signature_gap"
    /\ Replay_Init => crate = "replay_attack"
    /\ Delegation_Init => crate = "expired_delegation"
    /\ Pending_Init => crate = "stale_pending_admin"
    /\ Accept_Init => crate = "accept_admin_missing_auth"
    /\ Role_Init => crate = "public_role_grant"
    /\ Enforce_Init => crate = "operator_role_not_enforced"
    /\ Plugin_Init => crate = "unvalidated_plugin_call"
    /\ Collector_Init => crate = "unchecked_fee_collector"
    /\ Own_Init => crate = "self_fee_collector"
    /\ Sweep_Init => crate = "public_token_sweep"
    /\ Rug_Init => crate = "admin_rugpull"
    /\ Beneficiary_Init => crate = "hardcoded_beneficiary"
    /\ Config_Init => crate = "partial_config_clear"
    /\ Quorum_Init => crate = "quorum_current_supply"
    /\ Weight_Init => crate = "delegation_weight_no_snapshot"
    /\ Timelock_Init => crate = "admin_timelock_rewrite"
    /\ Target_Init => crate = "governance_target_unvalidated"
    /\ Voting_Init => crate = "vote_after_deadline"
    /\ Queue_Init => crate = "execute_without_queue"
    /\ Cancel_Init => crate = "public_proposal_cancel"
    /\ Collision_Init => crate = "proposal_id_collision"
    /\ Imper_Init => crate = "scanner_impersonation"
    /\ Fee_Init => crate = "scanner_fee_unverified"
    /\ Archive_Init => crate = "public_archive_restore"
    /\ Worst_Init => crate = "scan_result_overwrite"
    /\ Threshold_Init => crate = "verifier_threshold_ignored"
    /\ Trust_Init => crate = "severity_reporter_trust"
    /\ Unbound_Init => crate = "report_hash_unbound_contract"
    /\ Reenter_Init => crate = "reentrancy"
    /\ Hook_Init => crate = "recursive_hook_depth"
    /\ Callback_Init => crate = "callback_before_invariant"
    /\ Ignored_Init => crate = "ignored_return"
    /\ Swallow_Init => crate = "cross_call_error_swallowed"
    /\ Repay_Init => crate = "flash_repay_wrong_token"
    /\ FlashFee_Init => crate = "flash_fee_not_collected"
    /\ Receiver_Init => crate = "flash_receiver_unchecked"
    /\ NoCheck_Init => crate = "flash_loan_no_check"
    /\ Twap_Init => crate = "twap_window_too_short"
    /\ Future_Init => crate = "future_oracle_timestamp"
    /\ Stale_Init => crate = "stale_oracle"
    /\ Scale_Init => crate = "oracle_price_scale_mismatch"
    /\ Setter_Init => crate = "untrusted_oracle_setter"
    /\ Breaker_Init => crate = "inactive_circuit_breaker"
    /\ Confidence_Init => crate = "oracle_confidence_ignored"
    /\ Vault_Init => crate = "secure_vault"
    /\ Transfer_Init => crate = "secure_transfer"
    /\ Burn_Init => crate = "secure_burn"
    /\ Pausable_Init => crate = "secure_pausable"
    /\ Escrow_Init => crate = "secure_escrow"
    /\ Dust_Init => crate = "dust_griefing"
    /\ Staking_Init => crate = "secure_staking"
    /\ Position_Init => crate = "secure_lending"
    /\ Airdrop_Init => crate = "secure_airdrop"
    /\ Pages_Init => crate = "paginated_airdrop"
BY DEF Expiry_Init, Start_Init, Campaign_Init, Leaf_Init, Epoch_Init,
       Revoked_Init, Subtract_Init, Cliff_Init, Pool_Init, Rate_Init,
       Commission_Init, Slash_Init, Checkpoint_Init, Grief_Init, Index_Init,
       Factor_Init, Accrual_Init, Uncapped_Init, Round_Init, Mixed_Init, Mixup_Init,
       Health_Init, Skim_Init, Rebase_Init, Rescue_Init, Emergency_Init,
       Inflation_Init, Donation_Init, Cap_Init, Units_Init, Leak_Init,
       ZeroShare_Init, FreeShare_Init, Order_Init, Buy_Init, Royalty_Init,
       Self_Init, Operator_Init, Discount_Init, Early_Init, Refund_Init,
       Increment_Init, Approval_Init, Overdraw_Init, Slippage_Init, Wrap_Init,
       Validators_Init, Chain_Init, Nonce_Init, Proof_Init, Allow_Init, Fake_Init,
       Supply_Init, Supplied_Init, Batch_Init, Blacklist_Init, Partial_Init,
       Ttl_Init, Lottery_Init, FeeIn_Init, SelfIn_Init, Negative_Init,
       Precision_Init, Domain_Init, Deadline_Init, Signer_Init, Overwrite_Init,
       Before_Init, Decrement_Init, Listing_Init, Replay_Init, Delegation_Init,
       Pending_Init, Accept_Init, Role_Init, Enforce_Init, Plugin_Init,
       Collector_Init, Own_Init, Sweep_Init, Rug_Init, Beneficiary_Init,
       Config_Init, Quorum_Init, Weight_Init, Timelock_Init, Target_Init,
       Voting_Init, Queue_Init, Cancel_Init, Collision_Init, Imper_Init, Fee_Init,
       Archive_Init, Worst_Init, Threshold_Init, Trust_Init, Unbound_Init,
       Reenter_Init, Hook_Init, Callback_Init, Ignored_Init, Swallow_Init,
       Repay_Init, FlashFee_Init, Receiver_Init, NoCheck_Init, Twap_Init,
       Future_Init, Stale_Init, Scale_Init, Setter_Init, Breaker_Init,
       Confidence_Init, Vault_Init, Transfer_Init, Burn_Init, Pausable_Init,
       Escrow_Init, Dust_Init, Staking_Init, Position_Init, Airdrop_Init, Pages_Init

\* A step of a contract is a step of its own crate, which stays deployed.
LEMMA Steps ==
    /\ Expiry_Next => crate = "airdrop_expiry_ignored" /\ UNCHANGED <<crate, code>>
    /\ Start_Next => crate = "airdrop_claim_before_start" /\ UNCHANGED <<crate, code>>
    /\ Campaign_Next => crate = "airdrop_campaign_collision" /\ UNCHANGED <<crate, code>>
    /\ Leaf_Next => crate = "merkle_leaf_missing_amount" /\ UNCHANGED <<crate, code>>
    /\ Epoch_Next => crate = "epoch_claim_no_advance" /\ UNCHANGED <<crate, code>>
    /\ Revoked_Next => crate = "revoked_vesting_claim" /\ UNCHANGED <<crate, code>>
    /\ Subtract_Next => crate = "vesting_claimed_not_subtracted" /\ UNCHANGED <<crate, code>>
    /\ Cliff_Next => crate = "vesting_cliff_after_end" /\ UNCHANGED <<crate, code>>
    /\ Pool_Next => crate = "underfunded_reward_pool" /\ UNCHANGED <<crate, code>>
    /\ Rate_Next => crate = "zero_reward_rate" /\ UNCHANGED <<crate, code>>
    /\ Commission_Next => crate = "validator_commission_uncapped" /\ UNCHANGED <<crate, code>>
    /\ Slash_Next => crate = "slash_without_evidence" /\ UNCHANGED <<crate, code>>
    /\ Checkpoint_Next => crate = "reward_checkpoint_missing" /\ UNCHANGED <<crate, code>>
    /\ Grief_Next => crate = "repay_for_reward_grief" /\ UNCHANGED <<crate, code>>
    /\ Index_Next => crate = "interest_index_reset" /\ UNCHANGED <<crate, code>>
    /\ Factor_Next => crate = "collateral_factor_over_100" /\ UNCHANGED <<crate, code>>
    /\ Accrual_Next => crate = "borrow_without_accrual" /\ UNCHANGED <<crate, code>>
    /\ Uncapped_Next => crate = "uncapped_rate" /\ UNCHANGED <<crate, code>>
    /\ Round_Next => crate = "liquidation_dust_rounding" /\ UNCHANGED <<crate, code>>
    /\ Mixed_Next => crate = "mixed_collateral_decimals" /\ UNCHANGED <<crate, code>>
    /\ Mixup_Next => crate = "borrow_cap_asset_mixup" /\ UNCHANGED <<crate, code>>
    /\ Health_Next => crate = "collateral_withdraw_no_health_check" /\ UNCHANGED <<crate, code>>
    /\ Skim_Next => crate = "admin_skim_donations" /\ UNCHANGED <<crate, code>>
    /\ Rebase_Next => crate = "rebasing_token_accounting" /\ UNCHANGED <<crate, code>>
    /\ Rescue_Next => crate = "rescue_primary_asset" /\ UNCHANGED <<crate, code>>
    /\ Emergency_Next => crate = "unprotected_emergency_withdraw" /\ UNCHANGED <<crate, code>>
    /\ Inflation_Next => crate = "empty_vault_share_inflation" /\ UNCHANGED <<crate, code>>
    /\ Donation_Next => crate = "vault_donation_accounting" /\ UNCHANGED <<crate, code>>
    /\ Cap_Next => crate = "deposit_cap_wrong_amount" /\ UNCHANGED <<crate, code>>
    /\ Units_Next => crate = "sequence_as_timestamp" /\ UNCHANGED <<crate, code>>
    /\ Leak_Next => crate = "withdraw_rounding_leak" /\ UNCHANGED <<crate, code>>
    /\ ZeroShare_Next => crate = "zero_share_rounding" /\ UNCHANGED <<crate, code>>
    /\ FreeShare_Next => crate = "free_share_rounding" /\ UNCHANGED <<crate, code>>
    /\ Order_Next => crate = "canceled_listing_fillable" /\ UNCHANGED <<crate, code>>
    /\ Buy_Next => crate = "buy_without_listing" /\ UNCHANGED <<crate, code>>
    /\ Royalty_Next => crate = "royalty_recipient_mutable" /\ UNCHANGED <<crate, code>>
    /\ Self_Next => crate = "seller_self_purchase" /\ UNCHANGED <<crate, code>>
    /\ Operator_Next => crate = "nft_operator_collection_mixup" /\ UNCHANGED <<crate, code>>
    /\ Discount_Next => crate = "royalty_discount_miscalc" /\ UNCHANGED <<crate, code>>
    /\ Early_Next => crate = "auction_close_early" /\ UNCHANGED <<crate, code>>
    /\ Refund_Next => crate = "auction_refund_block" /\ UNCHANGED <<crate, code>>
    /\ Increment_Next => crate = "auction_min_increment_missing" /\ UNCHANGED <<crate, code>>
    /\ Approval_Next => crate = "single_approval_escrow_release" /\ UNCHANGED <<crate, code>>
    /\ Overdraw_Next => crate = "escrow_balance_check" /\ UNCHANGED <<crate, code>>
    /\ Slippage_Next => crate = "no_slippage" /\ UNCHANGED <<crate, code>>
    /\ Wrap_Next => crate = "unwrap_without_burn" /\ UNCHANGED <<crate, code>>
    /\ Validators_Next => crate = "bridge_validator_quorum_missing" /\ UNCHANGED <<crate, code>>
    /\ Chain_Next => crate = "bridge_chainid_missing" /\ UNCHANGED <<crate, code>>
    /\ Nonce_Next => crate = "bridge_nonce_global" /\ UNCHANGED <<crate, code>>
    /\ Proof_Next => crate = "bridge_partial_mint_replay" /\ UNCHANGED <<crate, code>>
    /\ Allow_Next => crate = "wrapped_asset_allowlist_bypass" /\ UNCHANGED <<crate, code>>
    /\ Fake_Next => crate = "fake_token_registration" /\ UNCHANGED <<crate, code>>
    /\ Supply_Next => crate = "uncapped_supply" /\ UNCHANGED <<crate, code>>
    /\ Supplied_Next => crate = "caller_supplied_ledger" /\ UNCHANGED <<crate, code>>
    /\ Batch_Next => crate = "batch_pause_bypass" /\ UNCHANGED <<crate, code>>
    /\ Blacklist_Next => crate = "incomplete_blacklist" /\ UNCHANGED <<crate, code>>
    /\ Partial_Next => crate = "batch_partial_failure" /\ UNCHANGED <<crate, code>>
    /\ Ttl_Next => crate = "ttl_bump_index_only" /\ UNCHANGED <<crate, code>>
    /\ Lottery_Next => crate = "weak_randomness" /\ UNCHANGED <<crate, code>>
    /\ FeeIn_Next => crate = "fee_on_transfer" /\ UNCHANGED <<crate, code>>
    /\ SelfIn_Next => crate = "self_deposit" /\ UNCHANGED <<crate, code>>
    /\ Negative_Next => crate = "negative_fee_bps" /\ UNCHANGED <<crate, code>>
    /\ Precision_Next => crate = "fee_precision_loss" /\ UNCHANGED <<crate, code>>
    /\ Domain_Next => crate = "permit_domain_missing" /\ UNCHANGED <<crate, code>>
    /\ Deadline_Next => crate = "permit_deadline_ignored" /\ UNCHANGED <<crate, code>>
    /\ Signer_Next => crate = "delegate_signer_mismatch" /\ UNCHANGED <<crate, code>>
    /\ Overwrite_Next => crate = "nonzero_allowance_overwrite" /\ UNCHANGED <<crate, code>>
    /\ Before_Next => crate = "allowance_before_balance" /\ UNCHANGED <<crate, code>>
    /\ Decrement_Next => crate = "allowance_not_decremented" /\ UNCHANGED <<crate, code>>
    /\ Listing_Next => crate = "listing_price_signature_gap" /\ UNCHANGED <<crate, code>>
    /\ Replay_Next => crate = "replay_attack" /\ UNCHANGED <<crate, code>>
    /\ Delegation_Next => crate = "expired_delegation" /\ UNCHANGED <<crate, code>>
    /\ Pending_Next => crate = "stale_pending_admin" /\ UNCHANGED <<crate, code>>
    /\ Accept_Next => crate = "accept_admin_missing_auth" /\ UNCHANGED <<crate, code>>
    /\ Role_Next => crate = "public_role_grant" /\ UNCHANGED <<crate, code>>
    /\ Enforce_Next => crate = "operator_role_not_enforced" /\ UNCHANGED <<crate, code>>
    /\ Plugin_Next => crate = "unvalidated_plugin_call" /\ UNCHANGED <<crate, code>>
    /\ Collector_Next => crate = "unchecked_fee_collector" /\ UNCHANGED <<crate, code>>
    /\ Own_Next => crate = "self_fee_collector" /\ UNCHANGED <<crate, code>>
    /\ Sweep_Next => crate = "public_token_sweep" /\ UNCHANGED <<crate, code>>
    /\ Rug_Next => crate = "admin_rugpull" /\ UNCHANGED <<crate, code>>
    /\ Beneficiary_Next => crate = "hardcoded_beneficiary" /\ UNCHANGED <<crate, code>>
    /\ Config_Next => crate = "partial_config_clear" /\ UNCHANGED <<crate, code>>
    /\ Quorum_Next => crate = "quorum_current_supply" /\ UNCHANGED <<crate, code>>
    /\ Weight_Next => crate = "delegation_weight_no_snapshot" /\ UNCHANGED <<crate, code>>
    /\ Timelock_Next => crate = "admin_timelock_rewrite" /\ UNCHANGED <<crate, code>>
    /\ Target_Next => crate = "governance_target_unvalidated" /\ UNCHANGED <<crate, code>>
    /\ Voting_Next => crate = "vote_after_deadline" /\ UNCHANGED <<crate, code>>
    /\ Queue_Next => crate = "execute_without_queue" /\ UNCHANGED <<crate, code>>
    /\ Cancel_Next => crate = "public_proposal_cancel" /\ UNCHANGED <<crate, code>>
    /\ Collision_Next => crate = "proposal_id_collision" /\ UNCHANGED <<crate, code>>
    /\ Imper_Next => crate = "scanner_impersonation" /\ UNCHANGED <<crate, code>>
    /\ Fee_Next => crate = "scanner_fee_unverified" /\ UNCHANGED <<crate, code>>
    /\ Archive_Next => crate = "public_archive_restore" /\ UNCHANGED <<crate, code>>
    /\ Worst_Next => crate = "scan_result_overwrite" /\ UNCHANGED <<crate, code>>
    /\ Threshold_Next => crate = "verifier_threshold_ignored" /\ UNCHANGED <<crate, code>>
    /\ Trust_Next => crate = "severity_reporter_trust" /\ UNCHANGED <<crate, code>>
    /\ Unbound_Next => crate = "report_hash_unbound_contract" /\ UNCHANGED <<crate, code>>
    /\ Reenter_Next => crate = "reentrancy" /\ UNCHANGED <<crate, code>>
    /\ Hook_Next => crate = "recursive_hook_depth" /\ UNCHANGED <<crate, code>>
    /\ Callback_Next => crate = "callback_before_invariant" /\ UNCHANGED <<crate, code>>
    /\ Ignored_Next => crate = "ignored_return" /\ UNCHANGED <<crate, code>>
    /\ Swallow_Next => crate = "cross_call_error_swallowed" /\ UNCHANGED <<crate, code>>
    /\ Repay_Next => crate = "flash_repay_wrong_token" /\ UNCHANGED <<crate, code>>
    /\ FlashFee_Next => crate = "flash_fee_not_collected" /\ UNCHANGED <<crate, code>>
    /\ Receiver_Next => crate = "flash_receiver_unchecked" /\ UNCHANGED <<crate, code>>
    /\ NoCheck_Next => crate = "flash_loan_no_check" /\ UNCHANGED <<crate, code>>
    /\ Twap_Next => crate = "twap_window_too_short" /\ UNCHANGED <<crate, code>>
    /\ Future_Next => crate = "future_oracle_timestamp" /\ UNCHANGED <<crate, code>>
    /\ Stale_Next => crate = "stale_oracle" /\ UNCHANGED <<crate, code>>
    /\ Scale_Next => crate = "oracle_price_scale_mismatch" /\ UNCHANGED <<crate, code>>
    /\ Setter_Next => crate = "untrusted_oracle_setter" /\ UNCHANGED <<crate, code>>
    /\ Breaker_Next => crate = "inactive_circuit_breaker" /\ UNCHANGED <<crate, code>>
    /\ Confidence_Next => crate = "oracle_confidence_ignored" /\ UNCHANGED <<crate, code>>
    /\ Vault_Next => crate = "secure_vault" /\ UNCHANGED <<crate, code>>
    /\ Transfer_Next => crate = "secure_transfer" /\ UNCHANGED <<crate, code>>
    /\ Burn_Next => crate = "secure_burn" /\ UNCHANGED <<crate, code>>
    /\ Pausable_Next => crate = "secure_pausable" /\ UNCHANGED <<crate, code>>
    /\ Escrow_Next => crate = "secure_escrow" /\ UNCHANGED <<crate, code>>
    /\ Dust_Next => crate = "dust_griefing" /\ UNCHANGED <<crate, code>>
    /\ Staking_Next => crate = "secure_staking" /\ UNCHANGED <<crate, code>>
    /\ Position_Next => crate = "secure_lending" /\ UNCHANGED <<crate, code>>
    /\ Airdrop_Next => crate = "secure_airdrop" /\ UNCHANGED <<crate, code>>
    /\ Pages_Next => crate = "paginated_airdrop" /\ UNCHANGED <<crate, code>>
<1>1. Expiry_Next => crate = "airdrop_expiry_ignored" /\ UNCHANGED <<crate, code>>
    BY DEF Expiry_Next, Expiry_initialize, Expiry_set_merkle_root,
       Expiry_claim_lib, Expiry_claim, Expiry_reclaim_expired_funds, CloseLedger,
       WriteAnd, Write
<1>2. Start_Next => crate = "airdrop_claim_before_start" /\ UNCHANGED <<crate, code>>
    BY DEF Start_Next, Start_initialize, Start_fund, Start_claim_lib,
       Start_claim, CloseLedger, Write, WriteAnd
<1>3. Campaign_Next => crate = "airdrop_campaign_collision" /\ UNCHANGED <<crate, code>>
    BY DEF Campaign_Next, Campaign_initialize, Campaign_create_campaign,
       Campaign_claim_lib, Campaign_claim, Write, WriteAnd
<1>4. Leaf_Next => crate = "merkle_leaf_missing_amount" /\ UNCHANGED <<crate, code>>
    BY DEF Leaf_Next, Leaf_initialize, Leaf_fund, Leaf_claim_lib, Leaf_claim,
       Write, WriteAnd
<1>5. Epoch_Next => crate = "epoch_claim_no_advance" /\ UNCHANGED <<crate, code>>
    BY DEF Epoch_Next, Epoch_init, Epoch_advance_epoch, Epoch_claim_vulnerable,
       Epoch_claim_secure, Write, Observe, WriteAnd
<1>6. Revoked_Next => crate = "revoked_vesting_claim" /\ UNCHANGED <<crate, code>>
    BY DEF Revoked_Next, Revoked_initialize, Revoked_create_schedule,
       Revoked_revoke, Revoked_claim_lib, Revoked_claim, CloseLedger, Write,
       Observe, WriteAnd
<1>7. Subtract_Next => crate = "vesting_claimed_not_subtracted" /\ UNCHANGED <<crate, code>>
    BY DEF Subtract_Next, Subtract_initialize, Subtract_create_schedule,
       Subtract_claim_lib, Subtract_claim, CloseLedger, Write, Observe, WriteAnd
<1>8. Cliff_Next => crate = "vesting_cliff_after_end" /\ UNCHANGED <<crate, code>>
    BY DEF Cliff_Next, Cliff_initialize_lib, Cliff_claim, Cliff_initialize,
       CloseLedger, Write, WriteAnd
<1>9. Pool_Next => crate = "underfunded_reward_pool" /\ UNCHANGED <<crate, code>>
    BY DEF Pool_Next, Pool_initialize, Pool_stake, Pool_claim_rewards_lib,
       Pool_claim_rewards, CloseLedger, WriteAnd
<1>10. Rate_Next => crate = "zero_reward_rate" /\ UNCHANGED <<crate, code>>
    BY DEF Rate_Next, Rate_initialize_lib, Rate_set_reward_rate_lib, Rate_stake,
       Rate_claim_rewards, Rate_initialize, Rate_set_reward_rate, CloseLedger,
       WriteAnd, Write
<1>11. Commission_Next => crate = "validator_commission_uncapped" /\ UNCHANGED <<crate, code>>
    BY DEF Commission_Next, Commission_init, Commission_set_commission_lib,
       Commission_distribute_rewards_lib, Commission_set_commission,
       Commission_distribute_rewards, WriteAnd, Write
<1>12. Slash_Next => crate = "slash_without_evidence" /\ UNCHANGED <<crate, code>>
    BY DEF Slash_Next, Slash_initialize, Slash_register_scanner, Slash_slash_lib,
       Slash_slash, Slash_submit_evidence, Slash_finalize_evidence, Write, WriteAnd
<1>13. Checkpoint_Next => crate = "reward_checkpoint_missing" /\ UNCHANGED <<crate, code>>
    BY DEF Checkpoint_Next, Checkpoint_initialize, Checkpoint_add_rewards,
       Checkpoint_stake_lib, Checkpoint_claim_rewards, Checkpoint_stake, WriteAnd,
       Write
<1>14. Grief_Next => crate = "repay_for_reward_grief" /\ UNCHANGED <<crate, code>>
    BY DEF Grief_Next, Grief_initialize, Grief_borrow, Grief_repay_for_lib,
       Grief_claim_rewards, Grief_repay_for, CloseLedger, Write
<1>15. Index_Next => crate = "interest_index_reset" /\ UNCHANGED <<crate, code>>
    BY DEF Index_Next, Index_initialize, Index_borrow, Index_deposit_lib,
       Index_withdraw, Index_borrow_index, Index_deposit, CloseLedger, WriteAnd,
       Write
<1>16. Factor_Next => crate = "collateral_factor_over_100" /\ UNCHANGED <<crate, code>>
    BY DEF Factor_Next, Factor_initialize_vulnerable,
       Factor_set_collateral_factor_vulnerable, Factor_deposit_collateral,
       Factor_borrow, Factor_initialize, Factor_set_collateral_factor, Write
<1>17. Accrual_Next => crate = "borrow_without_accrual" /\ UNCHANGED <<crate, code>>
    BY DEF Accrual_Next, Accrual_initialize, Accrual_borrow_lib, Accrual_borrow,
       CloseLedger, Write
<1>18. Uncapped_Next => crate = "uncapped_rate" /\ UNCHANGED <<crate, code>>
    BY DEF Uncapped_Next, Uncapped_initialize, Uncapped_update_rate_lib,
       Uncapped_stake, Uncapped_claim_rewards, Uncapped_update_rate, CloseLedger,
       WriteAnd, Write
<1>19. Round_Next => crate = "liquidation_dust_rounding" /\ UNCHANGED <<crate, code>>
    BY DEF Round_Next, Round_borrow, Round_liquidate_lib, Round_liquidate,
       WriteAnd, Round_liquidates
<1>20. Mixed_Next => crate = "mixed_collateral_decimals" /\ UNCHANGED <<crate, code>>
    BY DEF Mixed_Next, Mixed_register_token, Mixed_deposit_lib, Mixed_borrow,
       Mixed_deposit, Write, Mixed_deposits, WriteAnd
<1>21. Mixup_Next => crate = "borrow_cap_asset_mixup" /\ UNCHANGED <<crate, code>>
    BY DEF Mixup_Next, Mixup_set_borrow_cap_lib, Mixup_borrow_lib,
       Mixup_set_borrow_cap, Mixup_borrow, Mixup_caps, Mixup_borrows, WriteAnd
<1>22. Health_Next => crate = "collateral_withdraw_no_health_check" /\ UNCHANGED <<crate, code>>
    BY DEF Health_Next, Health_deposit, Health_borrow, Health_withdraw_lib,
       Health_withdraw, WriteAnd, Health_set_debt, Health_set_collateral, Write
<1>23. Skim_Next => crate = "admin_skim_donations" /\ UNCHANGED <<crate, code>>
    BY DEF Skim_Next, Skim_initialize_lib, Skim_deposit, Skim_inject_excess,
       Skim_skim_lib, Skim_initialize, Skim_donate, Skim_skim, Write, WriteAnd
<1>24. Rebase_Next => crate = "rebasing_token_accounting" /\ UNCHANGED <<crate, code>>
    BY DEF Rebase_Next, Rebase_deposit_lib, Rebase_withdraw_lib,
       Rebase_vulnerable_entry_lib, Rebase_deposit, Rebase_withdraw, Rebase_rebase,
       WriteAnd
<1>25. Rescue_Next => crate = "rescue_primary_asset" /\ UNCHANGED <<crate, code>>
    BY DEF Rescue_Next, Rescue_initialize, Rescue_deposit, Rescue_withdraw,
       Rescue_rescue_token_lib, Rescue_rescue_token, Write, WriteAnd, Observe
<1>26. Emergency_Next => crate = "unprotected_emergency_withdraw" /\ UNCHANGED <<crate, code>>
    BY DEF Emergency_Next, Emergency_initialize, Emergency_deposit,
       Emergency_withdraw, Emergency_emergency_withdraw_lib,
       Emergency_emergency_withdraw, CloseLedger, Write, WriteAnd, Emergency_empties
<1>27. Inflation_Next => crate = "empty_vault_share_inflation" /\ UNCHANGED <<crate, code>>
    BY DEF Inflation_Next, Inflation_deposit_lib, Inflation_donate,
       Inflation_deposit, Inflation_mints, Write
<1>28. Donation_Next => crate = "vault_donation_accounting" /\ UNCHANGED <<crate, code>>
    BY DEF Donation_Next, Donation_deposit, Donation_donate_lib, Donation_donate,
       WriteAnd, Write
<1>29. Cap_Next => crate = "deposit_cap_wrong_amount" /\ UNCHANGED <<crate, code>>
    BY DEF Cap_Next, Cap_token_mint, Cap_initialize, Cap_deposit_lib,
       Cap_deposit, Observe, Write, WriteAnd
<1>30. Units_Next => crate = "sequence_as_timestamp" /\ UNCHANGED <<crate, code>>
    BY DEF Units_Next, Units_deposit_lib, Units_withdraw_lib, Units_deposit,
       Units_withdraw, CloseLedger, Units_deposits, Units_withdraws, WriteAnd
<1>31. Leak_Next => crate = "withdraw_rounding_leak" /\ UNCHANGED <<crate, code>>
    BY DEF Leak_Next, Leak_initialize, Leak_seed_shares, Leak_withdraw_lib,
       Leak_withdraw, Seeded, Write, Leak_burns, Exchange
<1>32. ZeroShare_Next => crate = "zero_share_rounding" /\ UNCHANGED <<crate, code>>
    BY DEF ZeroShare_Next, ZeroShare_initialize, ZeroShare_deposit_lib,
       ZeroShare_deposit, Seeded, Exchange, Write
<1>33. FreeShare_Next => crate = "free_share_rounding" /\ UNCHANGED <<crate, code>>
    BY DEF FreeShare_Next, FreeShare_initialize, FreeShare_mint_lib,
       FreeShare_mint, Seeded, FreeShare_issues, Write, Exchange
<1>34. Order_Next => crate = "canceled_listing_fillable" /\ UNCHANGED <<crate, code>>
    BY DEF Order_Next, Order_create_order_lib, Order_cancel_lib,
       Order_fill_order_lib, Order_create_order, Order_cancel, Order_fill_order,
       Write, WriteAnd
<1>35. Buy_Next => crate = "buy_without_listing" /\ UNCHANGED <<crate, code>>
    BY DEF Buy_Next, Buy_mint, Buy_fund, Buy_buy_lib, Buy_list, Buy_buy, Write,
       WriteAnd, Buy_pays
<1>36. Royalty_Next => crate = "royalty_recipient_mutable" /\ UNCHANGED <<crate, code>>
    BY DEF Royalty_Next, Royalty_set_royalty_recipient,
       Royalty_create_listing_lib, Royalty_settle_lib, Royalty_create_listing,
       Royalty_settle, Write, Royalty_lists, Royalty_pays, WriteAnd
<1>37. Self_Next => crate = "seller_self_purchase" /\ UNCHANGED <<crate, code>>
    BY DEF Self_Next, Self_list, Self_buy_lib, Self_buy, Write, WriteAnd
<1>38. Operator_Next => crate = "nft_operator_collection_mixup" /\ UNCHANGED <<crate, code>>
    BY DEF Operator_Next, Operator_mint, Operator_approve_lib,
       Operator_transfer_from_lib, Operator_approve, Operator_transfer_from, Write,
       Operator_grants, Operator_moves, WriteAnd
<1>39. Discount_Next => crate = "royalty_discount_miscalc" /\ UNCHANGED <<crate, code>>
    BY DEF Discount_Next, Discount_settle_lib, Discount_settle, Discount_pays,
       WriteAnd
<1>40. Early_Next => crate = "auction_close_early" /\ UNCHANGED <<crate, code>>
    BY DEF Early_Next, Early_initialize, Early_bid, Early_close_lib, Early_close,
       CloseLedger, Write, WriteAnd
<1>41. Refund_Next => crate = "auction_refund_block" /\ UNCHANGED <<crate, code>>
    BY DEF Refund_Next, Refund_initialize, Refund_set_refund_blocked,
       Refund_bid_lib, Refund_bid, Refund_claim_refund, Write, WriteAnd
<1>42. Increment_Next => crate = "auction_min_increment_missing" /\ UNCHANGED <<crate, code>>
    BY DEF Increment_Next, Increment_initialize, Increment_bid_lib,
       Increment_bid, Write, Increment_accepts, WriteAnd
<1>43. Approval_Next => crate = "single_approval_escrow_release" /\ UNCHANGED <<crate, code>>
    BY DEF Approval_Next, Approval_initialize, Approval_deposit,
       Approval_approve, Approval_release_lib, Approval_release, Write, WriteAnd,
       Approval_pays
<1>44. Overdraw_Next => crate = "escrow_balance_check" /\ UNCHANGED <<crate, code>>
    BY DEF Overdraw_Next, Overdraw_initialize, Overdraw_deposit,
       Overdraw_release_lib, Overdraw_release, Write, WriteAnd
<1>45. Slippage_Next => crate = "no_slippage" /\ UNCHANGED <<crate, code>>
    BY DEF Slippage_Next, Slippage_init, Slippage_quote, Slippage_swap_lib,
       Slippage_swap, Write, Observe, Slippage_apply_swap, WriteAnd
<1>46. Wrap_Next => crate = "unwrap_without_burn" /\ UNCHANGED <<crate, code>>
    BY DEF Wrap_Next, Wrap_initialize, Wrap_wrap, Wrap_unwrap_lib, Wrap_unwrap,
       Write, WriteAnd
<1>47. Validators_Next => crate = "bridge_validator_quorum_missing" /\ UNCHANGED <<crate, code>>
    BY DEF Validators_Next, Validators_initialize,
       Validators_update_validators_lib, Validators_update_validators, Write,
       WriteAnd
<1>48. Chain_Next => crate = "bridge_chainid_missing" /\ UNCHANGED <<crate, code>>
    BY DEF Chain_Next, Chain_relay, Chain_mint_lib, Chain_mint, Observe,
       Chain_credit, Write
<1>49. Nonce_Next => crate = "bridge_nonce_global" /\ UNCHANGED <<crate, code>>
    BY DEF Nonce_Next, Nonce_process_lib, Nonce_process, Nonce_record, WriteAnd
<1>50. Proof_Next => crate = "bridge_partial_mint_replay" /\ UNCHANGED <<crate, code>>
    BY DEF Proof_Next, Proof_initialize, Proof_set_mint_fails, Proof_redeem_lib,
       Proof_redeem, Write, WriteAnd
<1>51. Allow_Next => crate = "wrapped_asset_allowlist_bypass" /\ UNCHANGED <<crate, code>>
    BY DEF Allow_Next, Allow_initialize, Allow_allow_token,
       Allow_register_wrapper_lib, Allow_deposit_lib, Allow_register_wrapper,
       Allow_deposit, Write, Allow_credit, WriteAnd
<1>52. Fake_Next => crate = "fake_token_registration" /\ UNCHANGED <<crate, code>>
    BY DEF Fake_Next, Fake_initialize, Fake_register_token_lib,
       Fake_remove_token_lib, Fake_register_token, Fake_remove_token, Write
<1>53. Supply_Next => crate = "uncapped_supply" /\ UNCHANGED <<crate, code>>
    BY DEF Supply_Next, Supply_initialize_lib, Supply_mint_lib,
       Supply_initialize, Supply_mint, Write, WriteAnd
<1>54. Supplied_Next => crate = "caller_supplied_ledger" /\ UNCHANGED <<crate, code>>
    BY DEF Supplied_Next, CloseLedger, Supplied_deposit, Supplied_withdraw_lib,
       Supplied_withdraw, Write, Supplied_withdrawn, WriteAnd
<1>55. Batch_Next => crate = "batch_pause_bypass" /\ UNCHANGED <<crate, code>>
    BY DEF Batch_Next, Batch_initialize, Batch_pause, Batch_unpause, Batch_mint,
       Batch_transfer_lib, Batch_batch_transfer_lib, Batch_transfer,
       Batch_batch_transfer, Write, WriteAnd, Batch_set
<1>56. Blacklist_Next => crate = "incomplete_blacklist" /\ UNCHANGED <<crate, code>>
    BY DEF Blacklist_Next, Blacklist_mint, Blacklist_blacklist,
       Blacklist_transfer_lib, Blacklist_transfer, WriteAnd, Write
<1>57. Partial_Next => crate = "batch_partial_failure" /\ UNCHANGED <<crate, code>>
    BY DEF Partial_Next, Partial_mint, Partial_execute_batch_lib,
       Partial_execute_batch, WriteAnd
<1>58. Ttl_Next => crate = "ttl_bump_index_only" /\ UNCHANGED <<crate, code>>
    BY DEF Ttl_Next, CloseLedger, Ttl_register, Ttl_refresh_lib, Ttl_refresh,
       Write
<1>59. Lottery_Next => crate = "weak_randomness" /\ UNCHANGED <<crate, code>>
    BY DEF Lottery_Next, CloseLedger, Lottery_enter_lib, Lottery_pick_winner_lib,
       Lottery_draw, Lottery_commit, Lottery_reveal, Write, WriteAnd
<1>60. FeeIn_Next => crate = "fee_on_transfer" /\ UNCHANGED <<crate, code>>
    BY DEF FeeIn_Next, FeeIn_mint, FeeIn_initialize, FeeIn_deposit_lib,
       FeeIn_deposit, Write, FeeIn_deposits, WriteAnd
<1>61. SelfIn_Next => crate = "self_deposit" /\ UNCHANGED <<crate, code>>
    BY DEF SelfIn_Next, SelfIn_mint, SelfIn_approve, SelfIn_transfer_lib,
       SelfIn_transfer_from_lib, SelfIn_transfer, SelfIn_transfer_from, WriteAnd,
       Write
<1>62. Negative_Next => crate = "negative_fee_bps" /\ UNCHANGED <<crate, code>>
    BY DEF Negative_Next, Negative_initialize, Negative_mint,
       Negative_set_fee_lib, Negative_transfer, Negative_set_fee, WriteAnd, Write
<1>63. Precision_Next => crate = "fee_precision_loss" /\ UNCHANGED <<crate, code>>
    BY DEF Precision_Next, Precision_mint, Precision_transfer_lib,
       Precision_transfer, WriteAnd, Precision_transfers
<1>64. Domain_Next => crate = "permit_domain_missing" /\ UNCHANGED <<crate, code>>
    BY DEF Domain_Next, Domain_mint, Domain_permit_lib,
       Domain_permit_elsewhere_lib, Domain_transfer_from, Domain_permit,
       Domain_permit_elsewhere, CloseLedger, Mints, WriteAnd, Observe, Draws
<1>65. Deadline_Next => crate = "permit_deadline_ignored" /\ UNCHANGED <<crate, code>>
    BY DEF Deadline_Next, Deadline_mint, Deadline_permit_lib,
       Deadline_transfer_from, Deadline_permit, CloseLedger, Mints, WriteAnd, Draws
<1>66. Signer_Next => crate = "delegate_signer_mismatch" /\ UNCHANGED <<crate, code>>
    BY DEF Signer_Next, Signer_mint, Signer_approve, Signer_transfer_from_lib,
       Signer_transfer_from, Mints, WriteAnd, Signer_draws
<1>67. Overwrite_Next => crate = "nonzero_allowance_overwrite" /\ UNCHANGED <<crate, code>>
    BY DEF Overwrite_Next, Overwrite_mint, Overwrite_approve_lib,
       Overwrite_transfer_from, Overwrite_approve, Mints, WriteAnd, Draws
<1>68. Before_Next => crate = "allowance_before_balance" /\ UNCHANGED <<crate, code>>
    BY DEF Before_Next, Before_mint, Before_approve, Before_transfer_from_lib,
       Before_transfer_from, Mints, WriteAnd, Draws
<1>69. Decrement_Next => crate = "allowance_not_decremented" /\ UNCHANGED <<crate, code>>
    BY DEF Decrement_Next, Decrement_mint, Decrement_approve,
       Decrement_transfer_from_lib, Decrement_transfer_from, Mints, WriteAnd, Draws
<1>70. Listing_Next => crate = "listing_price_signature_gap" /\ UNCHANGED <<crate, code>>
    BY DEF Listing_Next, Listing_sign, Listing_mint, Listing_fund,
       Listing_fill_listing_lib, Listing_fill_listing, CloseLedger, Observe, Write,
       WriteAnd, Listing_sale
<1>71. Replay_Next => crate = "replay_attack" /\ UNCHANGED <<crate, code>>
    BY DEF Replay_Next, Replay_execute_signed_lib, Replay_execute_signed,
       Replay_run, WriteAnd
<1>72. Delegation_Next => crate = "expired_delegation" /\ UNCHANGED <<crate, code>>
    BY DEF Delegation_Next, Delegation_initialize, Delegation_delegate_admin,
       Delegation_set_value_lib, Delegation_set_value, CloseLedger, Write, WriteAnd
<1>73. Pending_Next => crate = "stale_pending_admin" /\ UNCHANGED <<crate, code>>
    BY DEF Pending_Next, Pending_initialize, Pending_propose_admin_lib,
       Pending_cancel_admin_transfer_lib, Pending_accept_admin_lib,
       Pending_propose_admin, Pending_cancel_admin_transfer, Pending_accept_admin,
       Write, WriteAnd, Observe, Pending_take
<1>74. Accept_Next => crate = "accept_admin_missing_auth" /\ UNCHANGED <<crate, code>>
    BY DEF Accept_Next, Accept_initialize, Accept_propose_admin,
       Accept_cancel_admin_transfer, Accept_accept_admin_lib, Accept_accept_admin,
       Write, WriteAnd
<1>75. Role_Next => crate = "public_role_grant" /\ UNCHANGED <<crate, code>>
    BY DEF Role_Next, Role_operator_only_action, Role_initialize,
       Role_grant_operator_lib, Role_grant_operator, Role_revoke_operator, Observe,
       Write, WriteAnd
<1>76. Enforce_Next => crate = "operator_role_not_enforced" /\ UNCHANGED <<crate, code>>
    BY DEF Enforce_Next, Enforce_init, Enforce_deposit,
       Enforce_emergency_withdraw_lib, Enforce_emergency_withdraw, Write, WriteAnd
<1>77. Plugin_Next => crate = "unvalidated_plugin_call" /\ UNCHANGED <<crate, code>>
    BY DEF Plugin_Next, Plugin_dispatch_lib, Plugin_init, Plugin_approve_plugin,
       Plugin_dispatch, Plugin_run, Write, WriteAnd
<1>78. Collector_Next => crate = "unchecked_fee_collector" /\ UNCHANGED <<crate, code>>
    BY DEF Collector_Next, Collector_initialize, Collector_set_collector_lib,
       Collector_add_approved, Collector_collect_fee, Collector_withdraw_lib,
       Collector_set_collector, Write, WriteAnd
<1>79. Own_Next => crate = "self_fee_collector" /\ UNCHANGED <<crate, code>>
    BY DEF Own_Next, Own_initialize, Own_set_collector_lib, Own_collect_fee,
       Own_set_collector, Write, WriteAnd
<1>80. Sweep_Next => crate = "public_token_sweep" /\ UNCHANGED <<crate, code>>
    BY DEF Sweep_Next, Sweep_initialize, Sweep_deposit, Sweep_sweep_tokens_lib,
       Sweep_sweep_tokens, Write, WriteAnd
<1>81. Rug_Next => crate = "admin_rugpull" /\ UNCHANGED <<crate, code>>
    BY DEF Rug_Next, Rug_initialize, Rug_deposit, Rug_withdraw,
       Rug_admin_withdraw_lib, Rug_admin_withdraw, Write, WriteAnd
<1>82. Beneficiary_Next => crate = "hardcoded_beneficiary" /\ UNCHANGED <<crate, code>>
    BY DEF Beneficiary_Next, Beneficiary_initialize, Beneficiary_fund,
       Beneficiary_create_escrow, Beneficiary_release_lib, Beneficiary_release,
       Write, Beneficiary_release_to, WriteAnd
<1>83. Config_Next => crate = "partial_config_clear" /\ UNCHANGED <<crate, code>>
    BY DEF Config_Next, Config_initialize, Config_update_config_lib,
       Config_update_config, WriteAnd, Config_updates
<1>84. Quorum_Next => crate = "quorum_current_supply" /\ UNCHANGED <<crate, code>>
    BY DEF Quorum_Next, Quorum_init, Quorum_mint, Quorum_burn,
       Quorum_create_proposal_lib, Quorum_vote, Quorum_tally_lib,
       Quorum_create_proposal, Quorum_tally, Write, Quorum_new, Quorum_tallied,
       WriteAnd
<1>85. Weight_Next => crate = "delegation_weight_no_snapshot" /\ UNCHANGED <<crate, code>>
    BY DEF Weight_Next, Weight_init, Weight_set_delegated_balance,
       Weight_create_proposal, Weight_vote, Weight_tally_lib, Weight_tally, Write,
       WriteAnd, Weight_tallied
<1>86. Timelock_Next => crate = "admin_timelock_rewrite" /\ UNCHANGED <<crate, code>>
    BY DEF Timelock_Next, CloseLedger, Timelock_initialize,
       Timelock_queue_action_lib, Timelock_execute_action_lib,
       Timelock_queue_action, Timelock_execute_action, Write, WriteAnd,
       Timelock_execution
<1>87. Target_Next => crate = "governance_target_unvalidated" /\ UNCHANGED <<crate, code>>
    BY DEF Target_Next, Target_propose_lib, Target_vulnerable_entry_lib,
       Target_execute_lib, Target_allow_target, Target_allow_function,
       Target_propose, Target_execute, Write, WriteAnd, Observe
<1>88. Voting_Next => crate = "vote_after_deadline" /\ UNCHANGED <<crate, code>>
    BY DEF Voting_Next, CloseLedger, Voting_create, Voting_vote_lib, Voting_vote,
       WriteAnd
<1>89. Queue_Next => crate = "execute_without_queue" /\ UNCHANGED <<crate, code>>
    BY DEF Queue_Next, CloseLedger, Queue_create, Queue_queue, Queue_execute_lib,
       Queue_execute, WriteAnd, Queue_done
<1>90. Cancel_Next => crate = "public_proposal_cancel" /\ UNCHANGED <<crate, code>>
    BY DEF Cancel_Next, Cancel_init, Cancel_create_proposal,
       Cancel_vulnerable_entry_lib, Cancel_cancel_lib, Cancel_cancel, WriteAnd,
       Write
<1>91. Collision_Next => crate = "proposal_id_collision" /\ UNCHANGED <<crate, code>>
    BY DEF Collision_Next, Collision_propose_lib, Collision_vulnerable_entry_lib,
       Collision_vote_lib, Collision_propose, Collision_vote, WriteAnd, Write
<1>92. Imper_Next => crate = "scanner_impersonation" /\ UNCHANGED <<crate, code>>
    BY DEF Imper_Next, CloseLedger, Imper_initialize, Imper_add_scanner_lib,
       Imper_submit_scan_lib, Imper_add_scanner, Imper_submit_scan, Write, WriteAnd
<1>93. Fee_Next => crate = "scanner_fee_unverified" /\ UNCHANGED <<crate, code>>
    BY DEF Fee_Next, Fee_mint, Fee_initialize, Fee_register_scanner_lib,
       Fee_vulnerable_entry_lib, Fee_register_scanner, Write, Fee_transfer, WriteAnd
<1>94. Archive_Next => crate = "public_archive_restore" /\ UNCHANGED <<crate, code>>
    BY DEF Archive_Next, Archive_initialize, Archive_register, Archive_archive,
       Archive_restore_lib, Archive_restore, Write, Archive_set, WriteAnd
<1>95. Worst_Next => crate = "scan_result_overwrite" /\ UNCHANGED <<crate, code>>
    BY DEF Worst_Next, Worst_submit_lib, Worst_vulnerable_entry_lib,
       Worst_submit, WriteAnd
<1>96. Threshold_Next => crate = "verifier_threshold_ignored" /\ UNCHANGED <<crate, code>>
    BY DEF Threshold_Next, Threshold_set_threshold_lib, Threshold_approve,
       Threshold_finalize_report_lib, Threshold_set_threshold,
       Threshold_finalize_report, Write, Threshold_finalized, WriteAnd
<1>97. Trust_Next => crate = "severity_reporter_trust" /\ UNCHANGED <<crate, code>>
    BY DEF Trust_Next, Trust_add_reputation, Trust_report_lib,
       Trust_vulnerable_entry_lib, Trust_report, Write, WriteAnd
<1>98. Unbound_Next => crate = "report_hash_unbound_contract" /\ UNCHANGED <<crate, code>>
    BY DEF Unbound_Next, Unbound_report_signature, Unbound_submit_report_lib,
       Unbound_submit_report, Observe, Unbound_store, WriteAnd
<1>99. Reenter_Next => crate = "reentrancy" /\ UNCHANGED <<crate, code>>
    BY DEF Reenter_Next, Reenter_configure, Reenter_deposit,
       Reenter_withdraw_lib, Reenter_withdraw, Write, WriteAnd
<1>100. Hook_Next => crate = "recursive_hook_depth" /\ UNCHANGED <<crate, code>>
    BY DEF Hook_Next, Hook_configure, Hook_mint, Hook_transfer_lib,
       Hook_transfer, Write, WriteAnd, Hook_moved
<1>101. Callback_Next => crate = "callback_before_invariant" /\ UNCHANGED <<crate, code>>
    BY DEF Callback_Next, Callback_initialize, Callback_set_callback_inflates,
       Callback_flash_loan_lib, Callback_deposit, Callback_flash_loan, WriteAnd,
       Write
<1>102. Ignored_Next => crate = "ignored_return" /\ UNCHANGED <<crate, code>>
    BY DEF Ignored_Next, Ignored_mint, Ignored_set_fail, Ignored_initialize,
       Ignored_release, WriteAnd, Write
<1>103. Swallow_Next => crate = "cross_call_error_swallowed" /\ UNCHANGED <<crate, code>>
    BY DEF Swallow_Next, Swallow_initialize, Swallow_set_transfer_fails,
       Swallow_deposit_lib, Swallow_deposit, Write, WriteAnd
<1>104. Repay_Next => crate = "flash_repay_wrong_token" /\ UNCHANGED <<crate, code>>
    BY DEF Repay_Next, Repay_deposit, Repay_flash_loan_lib, Repay_flash_loan,
       WriteAnd, Repay_lent
<1>105. FlashFee_Next => crate = "flash_fee_not_collected" /\ UNCHANGED <<crate, code>>
    BY DEF FlashFee_Next, FlashFee_initialize, FlashFee_set_balance,
       FlashFee_flash_loan_lib, FlashFee_flash_loan, WriteAnd, FlashFee_loan
<1>106. Receiver_Next => crate = "flash_receiver_unchecked" /\ UNCHANGED <<crate, code>>
    BY DEF Receiver_Next, Receiver_expire, Receiver_record_repayment,
       Receiver_deposit, Receiver_flash_loan_lib, Receiver_flash_loan, Write,
       WriteAnd
<1>107. NoCheck_Next => crate = "flash_loan_no_check" /\ UNCHANGED <<crate, code>>
    BY DEF NoCheck_Next, NoCheck_record_repayment, NoCheck_deposit,
       NoCheck_flash_loan_lib, NoCheck_flash_loan, Write, WriteAnd
<1>108. Twap_Next => crate = "twap_window_too_short" /\ UNCHANGED <<crate, code>>
    BY DEF Twap_Next, CloseLedger, Twap_initialize_lib, Twap_record_price,
       Twap_initialize, Write, WriteAnd
<1>109. Future_Next => crate = "future_oracle_timestamp" /\ UNCHANGED <<crate, code>>
    BY DEF Future_Next, CloseLedger, Future_init_oracle, Future_set_price,
       Future_set_price_at, Future_init, Future_deposit, Future_get_value_lib,
       Future_get_value, Write, Observe
<1>110. Stale_Next => crate = "stale_oracle" /\ UNCHANGED <<crate, code>>
    BY DEF Stale_Next, CloseLedger, Stale_init_oracle, Stale_set_price,
       Stale_init, Stale_deposit_collateral, Stale_get_collateral_value_lib,
       Stale_get_collateral_value, Write, Observe
<1>111. Scale_Next => crate = "oracle_price_scale_mismatch" /\ UNCHANGED <<crate, code>>
    BY DEF Scale_Next, Scale_set_oracle, Scale_deposit_lib, Scale_borrow,
       Scale_deposit, Write, Scale_credit, WriteAnd
<1>112. Setter_Next => crate = "untrusted_oracle_setter" /\ UNCHANGED <<crate, code>>
    BY DEF Setter_Next, Setter_initialize, Setter_set_oracle_lib,
       Setter_mock_oracle_price_lib, Setter_add_to_allowlist, Setter_set_oracle,
       Write, WriteAnd
<1>113. Breaker_Next => crate = "inactive_circuit_breaker" /\ UNCHANGED <<crate, code>>
    BY DEF Breaker_Next, Breaker_initialize, Breaker_update_price_lib,
       Breaker_update_price, Breaker_force_pause, Breaker_unpause, Write, Observe,
       Breaker_swap_out, Breaker_liquidate, vars
<1>114. Confidence_Next => crate = "oracle_confidence_ignored" /\ UNCHANGED <<crate, code>>
    BY DEF Confidence_Next, Confidence_consume_price_lib,
       Confidence_consume_price, WriteAnd
<1>115. Vault_Next => crate = "secure_vault" /\ UNCHANGED <<crate, code>>
    BY DEF Vault_Next, Vault_mint, Vault_burn, Vault_transfer, WriteAnd
<1>116. Transfer_Next => crate = "secure_transfer" /\ UNCHANGED <<crate, code>>
    BY DEF Transfer_Next, Transfer_mint, Transfer_transfer, WriteAnd, Write
<1>117. Burn_Next => crate = "secure_burn" /\ UNCHANGED <<crate, code>>
    BY DEF Burn_Next, Burn_mint, Burn_burn, WriteAnd
<1>118. Pausable_Next => crate = "secure_pausable" /\ UNCHANGED <<crate, code>>
    BY DEF Pausable_Next, Pausable_initialize, Pausable_mint, Pausable_pause,
       Pausable_unpause, Pausable_transfer, Pausable_set_admin, Write, WriteAnd
<1>119. Escrow_Next => crate = "secure_escrow" /\ UNCHANGED <<crate, code>>
    BY DEF Escrow_Next, Escrow_deposit, Escrow_withdraw, WriteAnd
<1>120. Dust_Next => crate = "dust_griefing" /\ UNCHANGED <<crate, code>>
    BY DEF Dust_Next, Dust_deposit, WriteAnd
<1>121. Staking_Next => crate = "secure_staking" /\ UNCHANGED <<crate, code>>
    BY DEF Staking_Next, CloseLedger, Staking_initialize, Staking_update_rate,
       Staking_stake, Staking_claim_rewards, Write, WriteAnd
<1>122. Position_Next => crate = "secure_lending" /\ UNCHANGED <<crate, code>>
    BY DEF Position_Next, Position_initialize, Position_deposit_collateral,
       Position_borrow, Position_repay, Position_liquidate, Position_clear, Write,
       WriteAnd, vars
<1>123. Airdrop_Next => crate = "secure_airdrop" /\ UNCHANGED <<crate, code>>
    BY DEF Airdrop_Next, Airdrop_claim, Airdrop_initialize, Airdrop_fund,
       Airdrop_transfer, Write, WriteAnd
<1>124. Pages_Next => crate = "paginated_airdrop" /\ UNCHANGED <<crate, code>>
    BY DEF Pages_Next, Pages_register, Pages_distribute_batch,
       Pages_distribute_batch_from, Write, Pages_distribute, WriteAnd
<1> QED BY <1>1, <1>2, <1>3, <1>4, <1>5, <1>6, <1>7, <1>8, <1>9, <1>10, <1>11,
           <1>12, <1>13, <1>14, <1>15, <1>16, <1>17, <1>18, <1>19, <1>20, <1>21,
           <1>22, <1>23, <1>24, <1>25, <1>26, <1>27, <1>28, <1>29, <1>30, <1>31,
           <1>32, <1>33, <1>34, <1>35, <1>36, <1>37, <1>38, <1>39, <1>40, <1>41,
           <1>42, <1>43, <1>44, <1>45, <1>46, <1>47, <1>48, <1>49, <1>50, <1>51,
           <1>52, <1>53, <1>54, <1>55, <1>56, <1>57, <1>58, <1>59, <1>60, <1>61,
           <1>62, <1>63, <1>64, <1>65, <1>66, <1>67, <1>68, <1>69, <1>70, <1>71,
           <1>72, <1>73, <1>74, <1>75, <1>76, <1>77, <1>78, <1>79, <1>80, <1>81,
           <1>82, <1>83, <1>84, <1>85, <1>86, <1>87, <1>88, <1>89, <1>90, <1>91,
           <1>92, <1>93, <1>94, <1>95, <1>96, <1>97, <1>98, <1>99, <1>100,
           <1>101, <1>102, <1>103, <1>104, <1>105, <1>106, <1>107, <1>108,
           <1>109, <1>110, <1>111, <1>112, <1>113, <1>114, <1>115, <1>116,
           <1>117, <1>118, <1>119, <1>120, <1>121, <1>122, <1>123, <1>124

\* In particular, only the deployed crate steps.
LEMMA StepsOwn ==
    /\ Expiry_Next => crate = "airdrop_expiry_ignored"
    /\ Start_Next => crate = "airdrop_claim_before_start"
    /\ Campaign_Next => crate = "airdrop_campaign_collision"
    /\ Leaf_Next => crate = "merkle_leaf_missing_amount"
    /\ Epoch_Next => crate = "epoch_claim_no_advance"
    /\ Revoked_Next => crate = "revoked_vesting_claim"
    /\ Subtract_Next => crate = "vesting_claimed_not_subtracted"
    /\ Cliff_Next => crate = "vesting_cliff_after_end"
    /\ Pool_Next => crate = "underfunded_reward_pool"
    /\ Rate_Next => crate = "zero_reward_rate"
    /\ Commission_Next => crate = "validator_commission_uncapped"
    /\ Slash_Next => crate = "slash_without_evidence"
    /\ Checkpoint_Next => crate = "reward_checkpoint_missing"
    /\ Grief_Next => crate = "repay_for_reward_grief"
    /\ Index_Next => crate = "interest_index_reset"
    /\ Factor_Next => crate = "collateral_factor_over_100"
    /\ Accrual_Next => crate = "borrow_without_accrual"
    /\ Uncapped_Next => crate = "uncapped_rate"
    /\ Round_Next => crate = "liquidation_dust_rounding"
    /\ Mixed_Next => crate = "mixed_collateral_decimals"
    /\ Mixup_Next => crate = "borrow_cap_asset_mixup"
    /\ Health_Next => crate = "collateral_withdraw_no_health_check"
    /\ Skim_Next => crate = "admin_skim_donations"
    /\ Rebase_Next => crate = "rebasing_token_accounting"
    /\ Rescue_Next => crate = "rescue_primary_asset"
    /\ Emergency_Next => crate = "unprotected_emergency_withdraw"
    /\ Inflation_Next => crate = "empty_vault_share_inflation"
    /\ Donation_Next => crate = "vault_donation_accounting"
    /\ Cap_Next => crate = "deposit_cap_wrong_amount"
    /\ Units_Next => crate = "sequence_as_timestamp"
    /\ Leak_Next => crate = "withdraw_rounding_leak"
    /\ ZeroShare_Next => crate = "zero_share_rounding"
    /\ FreeShare_Next => crate = "free_share_rounding"
    /\ Order_Next => crate = "canceled_listing_fillable"
    /\ Buy_Next => crate = "buy_without_listing"
    /\ Royalty_Next => crate = "royalty_recipient_mutable"
    /\ Self_Next => crate = "seller_self_purchase"
    /\ Operator_Next => crate = "nft_operator_collection_mixup"
    /\ Discount_Next => crate = "royalty_discount_miscalc"
    /\ Early_Next => crate = "auction_close_early"
    /\ Refund_Next => crate = "auction_refund_block"
    /\ Increment_Next => crate = "auction_min_increment_missing"
    /\ Approval_Next => crate = "single_approval_escrow_release"
    /\ Overdraw_Next => crate = "escrow_balance_check"
    /\ Slippage_Next => crate = "no_slippage"
    /\ Wrap_Next => crate = "unwrap_without_burn"
    /\ Validators_Next => crate = "bridge_validator_quorum_missing"
    /\ Chain_Next => crate = "bridge_chainid_missing"
    /\ Nonce_Next => crate = "bridge_nonce_global"
    /\ Proof_Next => crate = "bridge_partial_mint_replay"
    /\ Allow_Next => crate = "wrapped_asset_allowlist_bypass"
    /\ Fake_Next => crate = "fake_token_registration"
    /\ Supply_Next => crate = "uncapped_supply"
    /\ Supplied_Next => crate = "caller_supplied_ledger"
    /\ Batch_Next => crate = "batch_pause_bypass"
    /\ Blacklist_Next => crate = "incomplete_blacklist"
    /\ Partial_Next => crate = "batch_partial_failure"
    /\ Ttl_Next => crate = "ttl_bump_index_only"
    /\ Lottery_Next => crate = "weak_randomness"
    /\ FeeIn_Next => crate = "fee_on_transfer"
    /\ SelfIn_Next => crate = "self_deposit"
    /\ Negative_Next => crate = "negative_fee_bps"
    /\ Precision_Next => crate = "fee_precision_loss"
    /\ Domain_Next => crate = "permit_domain_missing"
    /\ Deadline_Next => crate = "permit_deadline_ignored"
    /\ Signer_Next => crate = "delegate_signer_mismatch"
    /\ Overwrite_Next => crate = "nonzero_allowance_overwrite"
    /\ Before_Next => crate = "allowance_before_balance"
    /\ Decrement_Next => crate = "allowance_not_decremented"
    /\ Listing_Next => crate = "listing_price_signature_gap"
    /\ Replay_Next => crate = "replay_attack"
    /\ Delegation_Next => crate = "expired_delegation"
    /\ Pending_Next => crate = "stale_pending_admin"
    /\ Accept_Next => crate = "accept_admin_missing_auth"
    /\ Role_Next => crate = "public_role_grant"
    /\ Enforce_Next => crate = "operator_role_not_enforced"
    /\ Plugin_Next => crate = "unvalidated_plugin_call"
    /\ Collector_Next => crate = "unchecked_fee_collector"
    /\ Own_Next => crate = "self_fee_collector"
    /\ Sweep_Next => crate = "public_token_sweep"
    /\ Rug_Next => crate = "admin_rugpull"
    /\ Beneficiary_Next => crate = "hardcoded_beneficiary"
    /\ Config_Next => crate = "partial_config_clear"
    /\ Quorum_Next => crate = "quorum_current_supply"
    /\ Weight_Next => crate = "delegation_weight_no_snapshot"
    /\ Timelock_Next => crate = "admin_timelock_rewrite"
    /\ Target_Next => crate = "governance_target_unvalidated"
    /\ Voting_Next => crate = "vote_after_deadline"
    /\ Queue_Next => crate = "execute_without_queue"
    /\ Cancel_Next => crate = "public_proposal_cancel"
    /\ Collision_Next => crate = "proposal_id_collision"
    /\ Imper_Next => crate = "scanner_impersonation"
    /\ Fee_Next => crate = "scanner_fee_unverified"
    /\ Archive_Next => crate = "public_archive_restore"
    /\ Worst_Next => crate = "scan_result_overwrite"
    /\ Threshold_Next => crate = "verifier_threshold_ignored"
    /\ Trust_Next => crate = "severity_reporter_trust"
    /\ Unbound_Next => crate = "report_hash_unbound_contract"
    /\ Reenter_Next => crate = "reentrancy"
    /\ Hook_Next => crate = "recursive_hook_depth"
    /\ Callback_Next => crate = "callback_before_invariant"
    /\ Ignored_Next => crate = "ignored_return"
    /\ Swallow_Next => crate = "cross_call_error_swallowed"
    /\ Repay_Next => crate = "flash_repay_wrong_token"
    /\ FlashFee_Next => crate = "flash_fee_not_collected"
    /\ Receiver_Next => crate = "flash_receiver_unchecked"
    /\ NoCheck_Next => crate = "flash_loan_no_check"
    /\ Twap_Next => crate = "twap_window_too_short"
    /\ Future_Next => crate = "future_oracle_timestamp"
    /\ Stale_Next => crate = "stale_oracle"
    /\ Scale_Next => crate = "oracle_price_scale_mismatch"
    /\ Setter_Next => crate = "untrusted_oracle_setter"
    /\ Breaker_Next => crate = "inactive_circuit_breaker"
    /\ Confidence_Next => crate = "oracle_confidence_ignored"
    /\ Vault_Next => crate = "secure_vault"
    /\ Transfer_Next => crate = "secure_transfer"
    /\ Burn_Next => crate = "secure_burn"
    /\ Pausable_Next => crate = "secure_pausable"
    /\ Escrow_Next => crate = "secure_escrow"
    /\ Dust_Next => crate = "dust_griefing"
    /\ Staking_Next => crate = "secure_staking"
    /\ Position_Next => crate = "secure_lending"
    /\ Airdrop_Next => crate = "secure_airdrop"
    /\ Pages_Next => crate = "paginated_airdrop"
BY Steps

\* The crate and the code deployed never change.
LEMMA StaysDeployed == [Next]_vars => UNCHANGED <<crate, code>>
BY Steps, Zenon DEF Next, vars

\* The crates of Decisions are deployed and stepped by their own actions only.
LEMMA DecisionsCrates ==
    /\ crate = "quorum_current_supply" => (Deployed => Quorum_Init) /\ (Next => Quorum_Next)
    /\ crate = "delegation_weight_no_snapshot" => (Deployed => Weight_Init) /\ (Next => Weight_Next)
    /\ crate = "admin_timelock_rewrite" => (Deployed => Timelock_Init) /\ (Next => Timelock_Next)
    /\ crate = "governance_target_unvalidated" => (Deployed => Target_Init) /\ (Next => Target_Next)
    /\ crate = "vote_after_deadline" => (Deployed => Voting_Init) /\ (Next => Voting_Next)
    /\ crate = "execute_without_queue" => (Deployed => Queue_Init) /\ (Next => Queue_Next)
    /\ crate = "proposal_id_collision" => (Deployed => Collision_Init) /\ (Next => Collision_Next)
    /\ crate = "scanner_impersonation" => (Deployed => Imper_Init) /\ (Next => Imper_Next)
    /\ crate = "scanner_fee_unverified" => (Deployed => Fee_Init) /\ (Next => Fee_Next)
    /\ crate = "public_archive_restore" => (Deployed => Archive_Init) /\ (Next => Archive_Next)
    /\ crate = "scan_result_overwrite" => (Deployed => Worst_Init) /\ (Next => Worst_Next)
    /\ crate = "verifier_threshold_ignored" => (Deployed => Threshold_Init) /\
       (Next => Threshold_Next)
    /\ crate = "severity_reporter_trust" => (Deployed => Trust_Init) /\ (Next => Trust_Next)
    /\ crate = "report_hash_unbound_contract" => (Deployed => Unbound_Init) /\
       (Next => Unbound_Next)
<1>1. /\ crate = "quorum_current_supply" => (Deployed => Quorum_Init)
      /\ crate = "delegation_weight_no_snapshot" => (Deployed => Weight_Init)
      /\ crate = "admin_timelock_rewrite" => (Deployed => Timelock_Init)
      /\ crate = "governance_target_unvalidated" => (Deployed => Target_Init)
      /\ crate = "vote_after_deadline" => (Deployed => Voting_Init)
      /\ crate = "execute_without_queue" => (Deployed => Queue_Init)
      /\ crate = "proposal_id_collision" => (Deployed => Collision_Init)
      /\ crate = "scanner_impersonation" => (Deployed => Imper_Init)
      /\ crate = "scanner_fee_unverified" => (Deployed => Fee_Init)
      /\ crate = "public_archive_restore" => (Deployed => Archive_Init)
      /\ crate = "scan_result_overwrite" => (Deployed => Worst_Init)
      /\ crate = "verifier_threshold_ignored" => (Deployed => Threshold_Init)
      /\ crate = "severity_reporter_trust" => (Deployed => Trust_Init)
      /\ crate = "report_hash_unbound_contract" => (Deployed => Unbound_Init)
    BY Deploys DEF Deployed
<1>2. /\ crate = "quorum_current_supply" => (Next => Quorum_Next)
      /\ crate = "delegation_weight_no_snapshot" => (Next => Weight_Next)
      /\ crate = "admin_timelock_rewrite" => (Next => Timelock_Next)
      /\ crate = "governance_target_unvalidated" => (Next => Target_Next)
      /\ crate = "vote_after_deadline" => (Next => Voting_Next)
      /\ crate = "execute_without_queue" => (Next => Queue_Next)
      /\ crate = "proposal_id_collision" => (Next => Collision_Next)
      /\ crate = "scanner_impersonation" => (Next => Imper_Next)
      /\ crate = "scanner_fee_unverified" => (Next => Fee_Next)
      /\ crate = "public_archive_restore" => (Next => Archive_Next)
      /\ crate = "scan_result_overwrite" => (Next => Worst_Next)
      /\ crate = "verifier_threshold_ignored" => (Next => Threshold_Next)
      /\ crate = "severity_reporter_trust" => (Next => Trust_Next)
      /\ crate = "report_hash_unbound_contract" => (Next => Unbound_Next)
    BY StepsOwn DEF Next
<1> QED BY <1>1, <1>2

\* The inductive invariant of DecisionsStand: that of each crate, for its corrected code.
DecisionsInv ==
    /\ Promises("quorum_current_supply", Quorum_Inv)
    /\ Promises("delegation_weight_no_snapshot", Weight_Inv)
    /\ Promises("admin_timelock_rewrite", Timelock_Inv)
    /\ Promises("governance_target_unvalidated", Target_Inv)
    /\ Promises("vote_after_deadline", Voting_Inv)
    /\ Promises("execute_without_queue", Queue_Inv)
    /\ Promises("proposal_id_collision", Collision_Inv)
    /\ Promises("scanner_impersonation", Imper_Inv)
    /\ Promises("scanner_fee_unverified", Fee_Inv)
    /\ Promises("public_archive_restore", Archive_Inv)
    /\ Promises("scan_result_overwrite", Worst_Inv)
    /\ Promises("verifier_threshold_ignored", Threshold_Inv)
    /\ Promises("severity_reporter_trust", Trust_Inv)
    /\ Promises("report_hash_unbound_contract", Unbound_Inv)

\* Every deployment satisfies it.
LEMMA DecisionsInitially == Init => DecisionsInv
<1> SUFFICES ASSUME now = 0, Deployed PROVE DecisionsInv
    BY DEF Init
<1>1. Promises("quorum_current_supply", Quorum_Inv)
    BY Quorum_Correct, DecisionsCrates DEF Promises
<1>2. Promises("delegation_weight_no_snapshot", Weight_Inv)
    BY Weight_Correct, DecisionsCrates DEF Promises
<1>3. Promises("admin_timelock_rewrite", Timelock_Inv)
    BY Timelock_Correct, DecisionsCrates DEF Promises
<1>4. Promises("governance_target_unvalidated", Target_Inv)
    BY Target_Correct, DecisionsCrates DEF Promises
<1>5. Promises("vote_after_deadline", Voting_Inv)
    BY Voting_Correct, DecisionsCrates DEF Promises
<1>6. Promises("execute_without_queue", Queue_Inv)
    BY Queue_Correct, DecisionsCrates DEF Promises
<1>7. Promises("proposal_id_collision", Collision_Inv)
    BY Collision_Correct, DecisionsCrates DEF Promises
<1>8. Promises("scanner_impersonation", Imper_Inv)
    BY Imper_Correct, DecisionsCrates DEF Promises
<1>9. Promises("scanner_fee_unverified", Fee_Inv)
    BY Fee_Correct, DecisionsCrates DEF Promises
<1>10. Promises("public_archive_restore", Archive_Inv)
    BY Archive_Correct, DecisionsCrates DEF Promises
<1>11. Promises("scan_result_overwrite", Worst_Inv)
    BY Worst_Correct, DecisionsCrates DEF Promises
<1>12. Promises("verifier_threshold_ignored", Threshold_Inv)
    BY Threshold_Correct, DecisionsCrates DEF Promises
<1>13. Promises("severity_reporter_trust", Trust_Inv)
    BY Trust_Correct, DecisionsCrates DEF Promises
<1>14. Promises("report_hash_unbound_contract", Unbound_Inv)
    BY Unbound_Correct, DecisionsCrates DEF Promises
<1> QED BY <1>1, <1>2, <1>3, <1>4, <1>5, <1>6, <1>7, <1>8, <1>9, <1>10, <1>11,
           <1>12, <1>13, <1>14 DEF DecisionsInv

\* Every step keeps it.
LEMMA DecisionsKept ==
    ASSUME DecisionsInv, [Next]_vars
    PROVE  DecisionsInv'
<1>1. UNCHANGED <<crate, code>>
    BY StaysDeployed
<1>2. Promises("quorum_current_supply", Quorum_Inv)'
    BY <1>1, Quorum_Correct, DecisionsCrates DEF DecisionsInv, Promises, Secure
<1>3. Promises("delegation_weight_no_snapshot", Weight_Inv)'
    BY <1>1, Weight_Correct, DecisionsCrates DEF DecisionsInv, Promises, Secure
<1>4. Promises("admin_timelock_rewrite", Timelock_Inv)'
    BY <1>1, Timelock_Correct, DecisionsCrates DEF DecisionsInv, Promises, Secure
<1>5. Promises("governance_target_unvalidated", Target_Inv)'
    BY <1>1, Target_Correct, DecisionsCrates DEF DecisionsInv, Promises, Secure
<1>6. Promises("vote_after_deadline", Voting_Inv)'
    BY <1>1, Voting_Correct, DecisionsCrates DEF DecisionsInv, Promises, Secure
<1>7. Promises("execute_without_queue", Queue_Inv)'
    BY <1>1, Queue_Correct, DecisionsCrates DEF DecisionsInv, Promises, Secure
<1>8. Promises("proposal_id_collision", Collision_Inv)'
    BY <1>1, Collision_Correct, DecisionsCrates DEF DecisionsInv, Promises, Secure
<1>9. Promises("scanner_impersonation", Imper_Inv)'
    BY <1>1, Imper_Correct, DecisionsCrates DEF DecisionsInv, Promises, Secure
<1>10. Promises("scanner_fee_unverified", Fee_Inv)'
    BY <1>1, Fee_Correct, DecisionsCrates DEF DecisionsInv, Promises, Secure
<1>11. Promises("public_archive_restore", Archive_Inv)'
    BY <1>1, Archive_Correct, DecisionsCrates DEF DecisionsInv, Promises, Secure
<1>12. Promises("scan_result_overwrite", Worst_Inv)'
    BY <1>1, Worst_Correct, DecisionsCrates DEF DecisionsInv, Promises, Secure
<1>13. Promises("verifier_threshold_ignored", Threshold_Inv)'
    BY <1>1, Threshold_Correct, DecisionsCrates DEF DecisionsInv, Promises, Secure
<1>14. Promises("severity_reporter_trust", Trust_Inv)'
    BY <1>1, Trust_Correct, DecisionsCrates DEF DecisionsInv, Promises, Secure
<1>15. Promises("report_hash_unbound_contract", Unbound_Inv)'
    BY <1>1, Unbound_Correct, DecisionsCrates DEF DecisionsInv, Promises, Secure
<1> QED BY <1>2, <1>3, <1>4, <1>5, <1>6, <1>7, <1>8, <1>9, <1>10, <1>11, <1>12,
           <1>13, <1>14, <1>15 DEF DecisionsInv

\* What the corrected governance contracts execute, and what the corrected
\* scanners publish, is what was decided: by the votes of those entitled, after
\* the delay, on the target voted on, and from reports that count. For every
\* set of accounts and any number of ledgers.
THEOREM DecisionsStandAlways == Spec => []DecisionsStand
<1>1. DecisionsInv => DecisionsStand
    BY DEF DecisionsInv, DecisionsStand, Promises, Quorum_Inv, Weight_Inv,
       Timelock_Inv, Target_Inv, Voting_Inv, Queue_Inv, Collision_Inv, Imper_Inv,
       Fee_Inv, Archive_Inv, Worst_Inv, Threshold_Inv, Trust_Inv, Unbound_Inv
<1> QED BY <1>1, DecisionsInitially, DecisionsKept, PTL DEF Spec


\* The crates of Calls are deployed and stepped by their own actions only.
LEMMA CallsCrates ==
    /\ crate = "reentrancy" => (Deployed => Reenter_Init) /\ (Next => Reenter_Next)
    /\ crate = "recursive_hook_depth" => (Deployed => Hook_Init) /\ (Next => Hook_Next)
    /\ crate = "callback_before_invariant" => (Deployed => Callback_Init) /\ (Next => Callback_Next)
    /\ crate = "ignored_return" => (Deployed => Ignored_Init) /\ (Next => Ignored_Next)
    /\ crate = "cross_call_error_swallowed" => (Deployed => Swallow_Init) /\ (Next => Swallow_Next)
    /\ crate = "flash_repay_wrong_token" => (Deployed => Repay_Init) /\ (Next => Repay_Next)
    /\ crate = "flash_receiver_unchecked" => (Deployed => Receiver_Init) /\ (Next => Receiver_Next)
    /\ crate = "flash_loan_no_check" => (Deployed => NoCheck_Init) /\ (Next => NoCheck_Next)
<1>1. /\ crate = "reentrancy" => (Deployed => Reenter_Init)
      /\ crate = "recursive_hook_depth" => (Deployed => Hook_Init)
      /\ crate = "callback_before_invariant" => (Deployed => Callback_Init)
      /\ crate = "ignored_return" => (Deployed => Ignored_Init)
      /\ crate = "cross_call_error_swallowed" => (Deployed => Swallow_Init)
      /\ crate = "flash_repay_wrong_token" => (Deployed => Repay_Init)
      /\ crate = "flash_receiver_unchecked" => (Deployed => Receiver_Init)
      /\ crate = "flash_loan_no_check" => (Deployed => NoCheck_Init)
    BY Deploys DEF Deployed
<1>2. /\ crate = "reentrancy" => (Next => Reenter_Next)
      /\ crate = "recursive_hook_depth" => (Next => Hook_Next)
      /\ crate = "callback_before_invariant" => (Next => Callback_Next)
      /\ crate = "ignored_return" => (Next => Ignored_Next)
      /\ crate = "cross_call_error_swallowed" => (Next => Swallow_Next)
      /\ crate = "flash_repay_wrong_token" => (Next => Repay_Next)
      /\ crate = "flash_receiver_unchecked" => (Next => Receiver_Next)
      /\ crate = "flash_loan_no_check" => (Next => NoCheck_Next)
    BY StepsOwn DEF Next
<1> QED BY <1>1, <1>2

\* The inductive invariant of CallsLeaveBooksRight: that of each crate, for its corrected code.
CallsInv ==
    /\ Promises("reentrancy", Reenter_Inv)
    /\ Promises("recursive_hook_depth", Hook_Inv)
    /\ Promises("callback_before_invariant", Callback_Inv)
    /\ Promises("ignored_return", Ignored_Inv)
    /\ Promises("cross_call_error_swallowed", Swallow_Inv)
    /\ Promises("flash_repay_wrong_token", Repay_Inv)
    /\ Promises("flash_receiver_unchecked", Receiver_Inv)
    /\ Promises("flash_loan_no_check", NoCheck_Inv)

\* Every deployment satisfies it.
LEMMA CallsInitially == Init => CallsInv
<1> SUFFICES ASSUME now = 0, Deployed PROVE CallsInv
    BY DEF Init
<1>1. Promises("reentrancy", Reenter_Inv)
    BY Reenter_Correct, CallsCrates DEF Promises
<1>2. Promises("recursive_hook_depth", Hook_Inv)
    BY Hook_Correct, CallsCrates DEF Promises
<1>3. Promises("callback_before_invariant", Callback_Inv)
    BY Callback_Correct, CallsCrates DEF Promises
<1>4. Promises("ignored_return", Ignored_Inv)
    BY Ignored_Correct, CallsCrates DEF Promises
<1>5. Promises("cross_call_error_swallowed", Swallow_Inv)
    BY Swallow_Correct, CallsCrates DEF Promises
<1>6. Promises("flash_repay_wrong_token", Repay_Inv)
    BY Repay_Correct, CallsCrates DEF Promises
<1>7. Promises("flash_receiver_unchecked", Receiver_Inv)
    BY Receiver_Correct, CallsCrates DEF Promises
<1>8. Promises("flash_loan_no_check", NoCheck_Inv)
    BY NoCheck_Correct, CallsCrates DEF Promises
<1> QED BY <1>1, <1>2, <1>3, <1>4, <1>5, <1>6, <1>7, <1>8 DEF CallsInv

\* Every step keeps it.
LEMMA CallsKept ==
    ASSUME CallsInv, [Next]_vars
    PROVE  CallsInv'
<1>1. UNCHANGED <<crate, code>>
    BY StaysDeployed
<1>2. Promises("reentrancy", Reenter_Inv)'
    BY <1>1, Reenter_Correct, CallsCrates DEF CallsInv, Promises, Secure
<1>3. Promises("recursive_hook_depth", Hook_Inv)'
    BY <1>1, Hook_Correct, CallsCrates DEF CallsInv, Promises, Secure
<1>4. Promises("callback_before_invariant", Callback_Inv)'
    BY <1>1, Callback_Correct, CallsCrates DEF CallsInv, Promises, Secure
<1>5. Promises("ignored_return", Ignored_Inv)'
    BY <1>1, Ignored_Correct, CallsCrates DEF CallsInv, Promises, Secure
<1>6. Promises("cross_call_error_swallowed", Swallow_Inv)'
    BY <1>1, Swallow_Correct, CallsCrates DEF CallsInv, Promises, Secure
<1>7. Promises("flash_repay_wrong_token", Repay_Inv)'
    BY <1>1, Repay_Correct, CallsCrates DEF CallsInv, Promises, Secure
<1>8. Promises("flash_receiver_unchecked", Receiver_Inv)'
    BY <1>1, Receiver_Correct, CallsCrates DEF CallsInv, Promises, Secure
<1>9. Promises("flash_loan_no_check", NoCheck_Inv)'
    BY <1>1, NoCheck_Correct, CallsCrates DEF CallsInv, Promises, Secure
<1> QED BY <1>2, <1>3, <1>4, <1>5, <1>6, <1>7, <1>8, <1>9 DEF CallsInv

\* A corrected contract that calls out has its books right when the call is
\* over: a withdrawal that is entered again, a hook, a callback, a token that
\* fails, a flash loan. The call stacks may be arbitrarily deep. Of
\* ignored_return it is proved that the release happens once and pays the
\* amount or, when the token fails in silence, nothing: its flag is then set
\* all the same.
THEOREM CallsLeaveBooksRightAlways == Spec => []CallsLeaveBooksRight
<1>1. CallsInv => CallsLeaveBooksRight
    BY DEF CallsInv, CallsLeaveBooksRight, Promises, Reenter_Inv, Hook_Inv,
       Callback_Inv, Ignored_Inv, Swallow_Inv, Repay_Inv, Receiver_Inv, NoCheck_Inv
<1> QED BY <1>1, CallsInitially, CallsKept, PTL DEF Spec


\* The crates of Prices are deployed and stepped by their own actions only.
LEMMA PricesCrates ==
    /\ crate = "twap_window_too_short" => (Deployed => Twap_Init) /\ (Next => Twap_Next)
    /\ crate = "future_oracle_timestamp" => (Deployed => Future_Init) /\ (Next => Future_Next)
    /\ crate = "stale_oracle" => (Deployed => Stale_Init) /\ (Next => Stale_Next)
    /\ crate = "oracle_price_scale_mismatch" => (Deployed => Scale_Init) /\ (Next => Scale_Next)
    /\ crate = "untrusted_oracle_setter" => (Deployed => Setter_Init) /\ (Next => Setter_Next)
    /\ crate = "oracle_confidence_ignored" => (Deployed => Confidence_Init) /\
       (Next => Confidence_Next)
<1>1. /\ crate = "twap_window_too_short" => (Deployed => Twap_Init)
      /\ crate = "future_oracle_timestamp" => (Deployed => Future_Init)
      /\ crate = "stale_oracle" => (Deployed => Stale_Init)
      /\ crate = "oracle_price_scale_mismatch" => (Deployed => Scale_Init)
      /\ crate = "untrusted_oracle_setter" => (Deployed => Setter_Init)
      /\ crate = "oracle_confidence_ignored" => (Deployed => Confidence_Init)
    BY Deploys DEF Deployed
<1>2. /\ crate = "twap_window_too_short" => (Next => Twap_Next)
      /\ crate = "future_oracle_timestamp" => (Next => Future_Next)
      /\ crate = "stale_oracle" => (Next => Stale_Next)
      /\ crate = "oracle_price_scale_mismatch" => (Next => Scale_Next)
      /\ crate = "untrusted_oracle_setter" => (Next => Setter_Next)
      /\ crate = "oracle_confidence_ignored" => (Next => Confidence_Next)
    BY StepsOwn DEF Next
<1> QED BY <1>1, <1>2

\* The inductive invariant of PricesAreSound: that of each crate, for its corrected code.
PricesInv ==
    /\ Promises("twap_window_too_short", Twap_Inv)
    /\ Promises("future_oracle_timestamp", Future_Inv)
    /\ Promises("stale_oracle", Stale_Inv)
    /\ Promises("oracle_price_scale_mismatch", Scale_Inv)
    /\ Promises("untrusted_oracle_setter", Setter_Inv)
    /\ Promises("oracle_confidence_ignored", Confidence_Inv)

\* Every deployment satisfies it.
LEMMA PricesInitially == Init => PricesInv
<1> SUFFICES ASSUME now = 0, Deployed PROVE PricesInv
    BY DEF Init
<1>1. Promises("twap_window_too_short", Twap_Inv)
    BY Twap_Correct, PricesCrates DEF Promises
<1>2. Promises("future_oracle_timestamp", Future_Inv)
    BY Future_Correct, PricesCrates DEF Promises
<1>3. Promises("stale_oracle", Stale_Inv)
    BY Stale_Correct, PricesCrates DEF Promises
<1>4. Promises("oracle_price_scale_mismatch", Scale_Inv)
    BY Scale_Correct, PricesCrates DEF Promises
<1>5. Promises("untrusted_oracle_setter", Setter_Inv)
    BY Setter_Correct, PricesCrates DEF Promises
<1>6. Promises("oracle_confidence_ignored", Confidence_Inv)
    BY Confidence_Correct, PricesCrates DEF Promises
<1> QED BY <1>1, <1>2, <1>3, <1>4, <1>5, <1>6 DEF PricesInv

\* Every step keeps it.
LEMMA PricesKept ==
    ASSUME PricesInv, [Next]_vars
    PROVE  PricesInv'
<1>1. UNCHANGED <<crate, code>>
    BY StaysDeployed
<1>2. Promises("twap_window_too_short", Twap_Inv)'
    BY <1>1, Twap_Correct, PricesCrates DEF PricesInv, Promises, Secure
<1>3. Promises("future_oracle_timestamp", Future_Inv)'
    BY <1>1, Future_Correct, PricesCrates DEF PricesInv, Promises, Secure
<1>4. Promises("stale_oracle", Stale_Inv)'
    BY <1>1, Stale_Correct, PricesCrates DEF PricesInv, Promises, Secure
<1>5. Promises("oracle_price_scale_mismatch", Scale_Inv)'
    BY <1>1, Scale_Correct, PricesCrates DEF PricesInv, Promises, Secure
<1>6. Promises("untrusted_oracle_setter", Setter_Inv)'
    BY <1>1, Setter_Correct, PricesCrates DEF PricesInv, Promises, Secure
<1>7. Promises("oracle_confidence_ignored", Confidence_Inv)'
    BY <1>1, Confidence_Correct, PricesCrates DEF PricesInv, Promises, Secure
<1> QED BY <1>2, <1>3, <1>4, <1>5, <1>6, <1>7 DEF PricesInv

\* A price the corrected oracles use is recent, in scale and from a source on
\* the list that the admin set, and an observation moves the average by its
\* share of the observations averaged: one half when it is the second, one part
\* in the window when the buffer is full, for every number of observations.
THEOREM PricesAreSoundAlways == Spec => []PricesAreSound
<1>1. PricesInv => PricesAreSound
    BY DEF PricesInv, PricesAreSound, Promises, Twap_Inv, Future_Inv, Stale_Inv,
       Scale_Inv, Setter_Inv, Confidence_Inv
<1> QED BY <1>1, PricesInitially, PricesKept, PTL DEF Spec


\* The crates of Minted are deployed and stepped by their own actions only.
LEMMA MintedCrates ==
    /\ crate = "unwrap_without_burn" => (Deployed => Wrap_Init) /\ (Next => Wrap_Next)
    /\ crate = "bridge_chainid_missing" => (Deployed => Chain_Init) /\ (Next => Chain_Next)
    /\ crate = "bridge_nonce_global" => (Deployed => Nonce_Init) /\ (Next => Nonce_Next)
    /\ crate = "bridge_partial_mint_replay" => (Deployed => Proof_Init) /\ (Next => Proof_Next)
    /\ crate = "wrapped_asset_allowlist_bypass" => (Deployed => Allow_Init) /\ (Next => Allow_Next)
    /\ crate = "fake_token_registration" => (Deployed => Fake_Init) /\ (Next => Fake_Next)
    /\ crate = "uncapped_supply" => (Deployed => Supply_Init) /\ (Next => Supply_Next)
<1>1. /\ crate = "unwrap_without_burn" => (Deployed => Wrap_Init)
      /\ crate = "bridge_chainid_missing" => (Deployed => Chain_Init)
      /\ crate = "bridge_nonce_global" => (Deployed => Nonce_Init)
      /\ crate = "bridge_partial_mint_replay" => (Deployed => Proof_Init)
      /\ crate = "wrapped_asset_allowlist_bypass" => (Deployed => Allow_Init)
      /\ crate = "fake_token_registration" => (Deployed => Fake_Init)
      /\ crate = "uncapped_supply" => (Deployed => Supply_Init)
    BY Deploys DEF Deployed
<1>2. /\ crate = "unwrap_without_burn" => (Next => Wrap_Next)
      /\ crate = "bridge_chainid_missing" => (Next => Chain_Next)
      /\ crate = "bridge_nonce_global" => (Next => Nonce_Next)
      /\ crate = "bridge_partial_mint_replay" => (Next => Proof_Next)
      /\ crate = "wrapped_asset_allowlist_bypass" => (Next => Allow_Next)
      /\ crate = "fake_token_registration" => (Next => Fake_Next)
      /\ crate = "uncapped_supply" => (Next => Supply_Next)
    BY StepsOwn DEF Next
<1> QED BY <1>1, <1>2

\* The inductive invariant of MintedIsBacked: that of each crate, for its corrected code.
MintedInv ==
    /\ Promises("unwrap_without_burn", Wrap_Inv)
    /\ Promises("bridge_chainid_missing", Chain_Inv)
    /\ Promises("bridge_nonce_global", Nonce_Inv)
    /\ Promises("bridge_partial_mint_replay", Proof_Inv)
    /\ Promises("wrapped_asset_allowlist_bypass", Allow_Inv)
    /\ Promises("fake_token_registration", Fake_Inv)
    /\ Promises("uncapped_supply", Supply_Inv)

\* Every deployment satisfies it.
LEMMA MintedInitially == Init => MintedInv
<1> SUFFICES ASSUME now = 0, Deployed PROVE MintedInv
    BY DEF Init
<1>1. Promises("unwrap_without_burn", Wrap_Inv)
    BY Wrap_Correct, MintedCrates DEF Promises
<1>2. Promises("bridge_chainid_missing", Chain_Inv)
    BY Chain_Correct, MintedCrates DEF Promises
<1>3. Promises("bridge_nonce_global", Nonce_Inv)
    BY Nonce_Correct, MintedCrates DEF Promises
<1>4. Promises("bridge_partial_mint_replay", Proof_Inv)
    BY Proof_Correct, MintedCrates DEF Promises
<1>5. Promises("wrapped_asset_allowlist_bypass", Allow_Inv)
    BY Allow_Correct, MintedCrates DEF Promises
<1>6. Promises("fake_token_registration", Fake_Inv)
    BY Fake_Correct, MintedCrates DEF Promises
<1>7. Promises("uncapped_supply", Supply_Inv)
    BY Supply_Correct, MintedCrates DEF Promises
<1> QED BY <1>1, <1>2, <1>3, <1>4, <1>5, <1>6, <1>7 DEF MintedInv

\* Every step keeps it.
LEMMA MintedKept ==
    ASSUME MintedInv, [Next]_vars
    PROVE  MintedInv'
<1>1. UNCHANGED <<crate, code>>
    BY StaysDeployed
<1>2. Promises("unwrap_without_burn", Wrap_Inv)'
    BY <1>1, Wrap_Correct, MintedCrates DEF MintedInv, Promises, Secure
<1>3. Promises("bridge_chainid_missing", Chain_Inv)'
    BY <1>1, Chain_Correct, MintedCrates DEF MintedInv, Promises, Secure
<1>4. Promises("bridge_nonce_global", Nonce_Inv)'
    BY <1>1, Nonce_Correct, MintedCrates DEF MintedInv, Promises, Secure
<1>5. Promises("bridge_partial_mint_replay", Proof_Inv)'
    BY <1>1, Proof_Correct, MintedCrates DEF MintedInv, Promises, Secure
<1>6. Promises("wrapped_asset_allowlist_bypass", Allow_Inv)'
    BY <1>1, Allow_Correct, MintedCrates DEF MintedInv, Promises, Secure
<1>7. Promises("fake_token_registration", Fake_Inv)'
    BY <1>1, Fake_Correct, MintedCrates DEF MintedInv, Promises, Secure
<1>8. Promises("uncapped_supply", Supply_Inv)'
    BY <1>1, Supply_Correct, MintedCrates DEF MintedInv, Promises, Secure
<1> QED BY <1>2, <1>3, <1>4, <1>5, <1>6, <1>7, <1>8 DEF MintedInv

\* Wrapped and bridged tokens are minted once, for this chain and against
\* something that backs them, whatever is sent twice, for another bridge or
\* under another symbol.
THEOREM MintedIsBackedAlways == Spec => []MintedIsBacked
<1>1. MintedInv => MintedIsBacked
    BY DEF MintedInv, MintedIsBacked, Promises, Wrap_Inv, Chain_Inv, Nonce_Inv,
       Proof_Inv, Allow_Inv, Fake_Inv, Supply_Inv
<1> QED BY <1>1, MintedInitially, MintedKept, PTL DEF Spec


\* The crates of Signed are deployed and stepped by their own actions only.
LEMMA SignedCrates ==
    /\ crate = "permit_domain_missing" => (Deployed => Domain_Init) /\ (Next => Domain_Next)
    /\ crate = "permit_deadline_ignored" => (Deployed => Deadline_Init) /\ (Next => Deadline_Next)
    /\ crate = "nonzero_allowance_overwrite" => (Deployed => Overwrite_Init) /\
       (Next => Overwrite_Next)
    /\ crate = "allowance_before_balance" => (Deployed => Before_Init) /\ (Next => Before_Next)
    /\ crate = "allowance_not_decremented" => (Deployed => Decrement_Init) /\
       (Next => Decrement_Next)
    /\ crate = "listing_price_signature_gap" => (Deployed => Listing_Init) /\ (Next => Listing_Next)
    /\ crate = "replay_attack" => (Deployed => Replay_Init) /\ (Next => Replay_Next)
    /\ crate = "stale_pending_admin" => (Deployed => Pending_Init) /\ (Next => Pending_Next)
    /\ crate = "accept_admin_missing_auth" => (Deployed => Accept_Init) /\ (Next => Accept_Next)
    /\ crate = "public_role_grant" => (Deployed => Role_Init) /\ (Next => Role_Next)
    /\ crate = "operator_role_not_enforced" => (Deployed => Enforce_Init) /\ (Next => Enforce_Next)
    /\ crate = "unvalidated_plugin_call" => (Deployed => Plugin_Init) /\ (Next => Plugin_Next)
    /\ crate = "unchecked_fee_collector" => (Deployed => Collector_Init) /\ (Next => Collector_Next)
    /\ crate = "self_fee_collector" => (Deployed => Own_Init) /\ (Next => Own_Next)
    /\ crate = "public_token_sweep" => (Deployed => Sweep_Init) /\ (Next => Sweep_Next)
    /\ crate = "admin_rugpull" => (Deployed => Rug_Init) /\ (Next => Rug_Next)
    /\ crate = "hardcoded_beneficiary" => (Deployed => Beneficiary_Init) /\
       (Next => Beneficiary_Next)
    /\ crate = "partial_config_clear" => (Deployed => Config_Init) /\ (Next => Config_Next)
<1>1. /\ crate = "permit_domain_missing" => (Deployed => Domain_Init)
      /\ crate = "permit_deadline_ignored" => (Deployed => Deadline_Init)
      /\ crate = "nonzero_allowance_overwrite" => (Deployed => Overwrite_Init)
      /\ crate = "allowance_before_balance" => (Deployed => Before_Init)
      /\ crate = "allowance_not_decremented" => (Deployed => Decrement_Init)
      /\ crate = "listing_price_signature_gap" => (Deployed => Listing_Init)
      /\ crate = "replay_attack" => (Deployed => Replay_Init)
      /\ crate = "stale_pending_admin" => (Deployed => Pending_Init)
      /\ crate = "accept_admin_missing_auth" => (Deployed => Accept_Init)
      /\ crate = "public_role_grant" => (Deployed => Role_Init)
      /\ crate = "operator_role_not_enforced" => (Deployed => Enforce_Init)
      /\ crate = "unvalidated_plugin_call" => (Deployed => Plugin_Init)
      /\ crate = "unchecked_fee_collector" => (Deployed => Collector_Init)
      /\ crate = "self_fee_collector" => (Deployed => Own_Init)
      /\ crate = "public_token_sweep" => (Deployed => Sweep_Init)
      /\ crate = "admin_rugpull" => (Deployed => Rug_Init)
      /\ crate = "hardcoded_beneficiary" => (Deployed => Beneficiary_Init)
      /\ crate = "partial_config_clear" => (Deployed => Config_Init)
    BY Deploys DEF Deployed
<1>2. /\ crate = "permit_domain_missing" => (Next => Domain_Next)
      /\ crate = "permit_deadline_ignored" => (Next => Deadline_Next)
      /\ crate = "nonzero_allowance_overwrite" => (Next => Overwrite_Next)
      /\ crate = "allowance_before_balance" => (Next => Before_Next)
      /\ crate = "allowance_not_decremented" => (Next => Decrement_Next)
      /\ crate = "listing_price_signature_gap" => (Next => Listing_Next)
      /\ crate = "replay_attack" => (Next => Replay_Next)
      /\ crate = "stale_pending_admin" => (Next => Pending_Next)
      /\ crate = "accept_admin_missing_auth" => (Next => Accept_Next)
      /\ crate = "public_role_grant" => (Next => Role_Next)
      /\ crate = "operator_role_not_enforced" => (Next => Enforce_Next)
      /\ crate = "unvalidated_plugin_call" => (Next => Plugin_Next)
      /\ crate = "unchecked_fee_collector" => (Next => Collector_Next)
      /\ crate = "self_fee_collector" => (Next => Own_Next)
      /\ crate = "public_token_sweep" => (Next => Sweep_Next)
      /\ crate = "admin_rugpull" => (Next => Rug_Next)
      /\ crate = "hardcoded_beneficiary" => (Next => Beneficiary_Next)
      /\ crate = "partial_config_clear" => (Next => Config_Next)
    BY StepsOwn DEF Next
<1> QED BY <1>1, <1>2

\* The inductive invariant of OnlyAsSigned: that of each crate, for its corrected code.
SignedInv ==
    /\ Promises("permit_domain_missing", Domain_Inv)
    /\ Promises("permit_deadline_ignored", Deadline_Inv)
    /\ Promises("nonzero_allowance_overwrite", Overwrite_Inv)
    /\ Promises("allowance_before_balance", Before_Inv)
    /\ Promises("allowance_not_decremented", Decrement_Inv)
    /\ Promises("listing_price_signature_gap", Listing_Inv)
    /\ Promises("replay_attack", Replay_Inv)
    /\ Promises("stale_pending_admin", Pending_Inv)
    /\ Promises("accept_admin_missing_auth", Accept_Inv)
    /\ Promises("public_role_grant", Role_Inv)
    /\ Promises("operator_role_not_enforced", Enforce_Inv)
    /\ Promises("unvalidated_plugin_call", Plugin_Inv)
    /\ Promises("unchecked_fee_collector", Collector_Inv)
    /\ Promises("self_fee_collector", Own_Inv)
    /\ Promises("public_token_sweep", Sweep_Inv)
    /\ Promises("admin_rugpull", Rug_Inv)
    /\ Promises("hardcoded_beneficiary", Beneficiary_Inv)
    /\ Promises("partial_config_clear", Config_Inv)

\* Every deployment satisfies it.
LEMMA SignedInitially == Init => SignedInv
<1> SUFFICES ASSUME now = 0, Deployed PROVE SignedInv
    BY DEF Init
<1>1. Promises("permit_domain_missing", Domain_Inv)
    BY Domain_Correct, SignedCrates DEF Promises
<1>2. Promises("permit_deadline_ignored", Deadline_Inv)
    BY Deadline_Correct, SignedCrates DEF Promises
<1>3. Promises("nonzero_allowance_overwrite", Overwrite_Inv)
    BY Overwrite_Correct, SignedCrates DEF Promises
<1>4. Promises("allowance_before_balance", Before_Inv)
    BY Before_Correct, SignedCrates DEF Promises
<1>5. Promises("allowance_not_decremented", Decrement_Inv)
    BY Decrement_Correct, SignedCrates DEF Promises
<1>6. Promises("listing_price_signature_gap", Listing_Inv)
    BY Listing_Correct, SignedCrates DEF Promises
<1>7. Promises("replay_attack", Replay_Inv)
    BY Replay_Correct, SignedCrates DEF Promises
<1>8. Promises("stale_pending_admin", Pending_Inv)
    BY Pending_Correct, SignedCrates DEF Promises
<1>9. Promises("accept_admin_missing_auth", Accept_Inv)
    BY Accept_Correct, SignedCrates DEF Promises
<1>10. Promises("public_role_grant", Role_Inv)
    BY Role_Correct, SignedCrates DEF Promises
<1>11. Promises("operator_role_not_enforced", Enforce_Inv)
    BY Enforce_Correct, SignedCrates DEF Promises
<1>12. Promises("unvalidated_plugin_call", Plugin_Inv)
    BY Plugin_Correct, SignedCrates DEF Promises
<1>13. Promises("unchecked_fee_collector", Collector_Inv)
    BY Collector_Correct, SignedCrates DEF Promises
<1>14. Promises("self_fee_collector", Own_Inv)
    BY Own_Correct, SignedCrates DEF Promises
<1>15. Promises("public_token_sweep", Sweep_Inv)
    BY Sweep_Correct, SignedCrates DEF Promises
<1>16. Promises("admin_rugpull", Rug_Inv)
    BY Rug_Correct, SignedCrates DEF Promises
<1>17. Promises("hardcoded_beneficiary", Beneficiary_Inv)
    BY Beneficiary_Correct, SignedCrates DEF Promises
<1>18. Promises("partial_config_clear", Config_Inv)
    BY Config_Correct, SignedCrates DEF Promises
<1> QED BY <1>1, <1>2, <1>3, <1>4, <1>5, <1>6, <1>7, <1>8, <1>9, <1>10, <1>11,
           <1>12, <1>13, <1>14, <1>15, <1>16, <1>17, <1>18 DEF SignedInv

\* Every step keeps it.
LEMMA SignedKept ==
    ASSUME SignedInv, [Next]_vars
    PROVE  SignedInv'
<1>1. UNCHANGED <<crate, code>>
    BY StaysDeployed
<1>2. Promises("permit_domain_missing", Domain_Inv)'
    BY <1>1, Domain_Correct, SignedCrates DEF SignedInv, Promises, Secure
<1>3. Promises("permit_deadline_ignored", Deadline_Inv)'
    BY <1>1, Deadline_Correct, SignedCrates DEF SignedInv, Promises, Secure
<1>4. Promises("nonzero_allowance_overwrite", Overwrite_Inv)'
    BY <1>1, Overwrite_Correct, SignedCrates DEF SignedInv, Promises, Secure
<1>5. Promises("allowance_before_balance", Before_Inv)'
    BY <1>1, Before_Correct, SignedCrates DEF SignedInv, Promises, Secure
<1>6. Promises("allowance_not_decremented", Decrement_Inv)'
    BY <1>1, Decrement_Correct, SignedCrates DEF SignedInv, Promises, Secure
<1>7. Promises("listing_price_signature_gap", Listing_Inv)'
    BY <1>1, Listing_Correct, SignedCrates DEF SignedInv, Promises, Secure
<1>8. Promises("replay_attack", Replay_Inv)'
    BY <1>1, Replay_Correct, SignedCrates DEF SignedInv, Promises, Secure
<1>9. Promises("stale_pending_admin", Pending_Inv)'
    BY <1>1, Pending_Correct, SignedCrates DEF SignedInv, Promises, Secure
<1>10. Promises("accept_admin_missing_auth", Accept_Inv)'
    BY <1>1, Accept_Correct, SignedCrates DEF SignedInv, Promises, Secure
<1>11. Promises("public_role_grant", Role_Inv)'
    BY <1>1, Role_Correct, SignedCrates DEF SignedInv, Promises, Secure
<1>12. Promises("operator_role_not_enforced", Enforce_Inv)'
    BY <1>1, Enforce_Correct, SignedCrates DEF SignedInv, Promises, Secure
<1>13. Promises("unvalidated_plugin_call", Plugin_Inv)'
    BY <1>1, Plugin_Correct, SignedCrates DEF SignedInv, Promises, Secure
<1>14. Promises("unchecked_fee_collector", Collector_Inv)'
    BY <1>1, Collector_Correct, SignedCrates DEF SignedInv, Promises, Secure
<1>15. Promises("self_fee_collector", Own_Inv)'
    BY <1>1, Own_Correct, SignedCrates DEF SignedInv, Promises, Secure
<1>16. Promises("public_token_sweep", Sweep_Inv)'
    BY <1>1, Sweep_Correct, SignedCrates DEF SignedInv, Promises, Secure
<1>17. Promises("admin_rugpull", Rug_Inv)'
    BY <1>1, Rug_Correct, SignedCrates DEF SignedInv, Promises, Secure
<1>18. Promises("hardcoded_beneficiary", Beneficiary_Inv)'
    BY <1>1, Beneficiary_Correct, SignedCrates DEF SignedInv, Promises, Secure
<1>19. Promises("partial_config_clear", Config_Inv)'
    BY <1>1, Config_Correct, SignedCrates DEF SignedInv, Promises, Secure
<1> QED BY <1>2, <1>3, <1>4, <1>5, <1>6, <1>7, <1>8, <1>9, <1>10, <1>11, <1>12,
           <1>13, <1>14, <1>15, <1>16, <1>17, <1>18, <1>19 DEF SignedInv

\* Whatever was drawn, handed over, swept or called was signed for by the
\* account it needed, in time and for this very use: permits (at every
\* deployment and network), allowances, payloads, roles and offers of the admin
\* role. Of nonzero_allowance_overwrite it is proved that all grants are
\* accounted for, not that a spender draws only one of them.
THEOREM OnlyAsSignedAlways == Spec => []OnlyAsSigned
<1>1. SignedInv => OnlyAsSigned
    BY Overwrite_Promise DEF SignedInv, OnlyAsSigned, Promises, Domain_Inv,
       Deadline_Inv, Before_Inv, Decrement_Inv, Listing_Inv, Replay_Inv,
       Pending_Inv, Accept_Inv, Role_Inv, Enforce_Inv, Plugin_Inv, Collector_Inv,
       Own_Inv, Sweep_Inv, Rug_Inv, Beneficiary_Inv, Config_Inv
<1> QED BY <1>1, SignedInitially, SignedKept, PTL DEF Spec


\* The crates of Sales are deployed and stepped by their own actions only.
LEMMA SalesCrates ==
    /\ crate = "canceled_listing_fillable" => (Deployed => Order_Init) /\ (Next => Order_Next)
    /\ crate = "buy_without_listing" => (Deployed => Buy_Init) /\ (Next => Buy_Next)
    /\ crate = "royalty_recipient_mutable" => (Deployed => Royalty_Init) /\ (Next => Royalty_Next)
    /\ crate = "seller_self_purchase" => (Deployed => Self_Init) /\ (Next => Self_Next)
    /\ crate = "nft_operator_collection_mixup" => (Deployed => Operator_Init) /\
       (Next => Operator_Next)
    /\ crate = "royalty_discount_miscalc" => (Deployed => Discount_Init) /\ (Next => Discount_Next)
    /\ crate = "auction_close_early" => (Deployed => Early_Init) /\ (Next => Early_Next)
    /\ crate = "auction_refund_block" => (Deployed => Refund_Init) /\ (Next => Refund_Next)
    /\ crate = "auction_min_increment_missing" => (Deployed => Increment_Init) /\
       (Next => Increment_Next)
    /\ crate = "single_approval_escrow_release" => (Deployed => Approval_Init) /\
       (Next => Approval_Next)
    /\ crate = "escrow_balance_check" => (Deployed => Overdraw_Init) /\ (Next => Overdraw_Next)
    /\ crate = "no_slippage" => (Deployed => Slippage_Init) /\ (Next => Slippage_Next)
<1>1. /\ crate = "canceled_listing_fillable" => (Deployed => Order_Init)
      /\ crate = "buy_without_listing" => (Deployed => Buy_Init)
      /\ crate = "royalty_recipient_mutable" => (Deployed => Royalty_Init)
      /\ crate = "seller_self_purchase" => (Deployed => Self_Init)
      /\ crate = "nft_operator_collection_mixup" => (Deployed => Operator_Init)
      /\ crate = "royalty_discount_miscalc" => (Deployed => Discount_Init)
      /\ crate = "auction_close_early" => (Deployed => Early_Init)
      /\ crate = "auction_refund_block" => (Deployed => Refund_Init)
      /\ crate = "auction_min_increment_missing" => (Deployed => Increment_Init)
      /\ crate = "single_approval_escrow_release" => (Deployed => Approval_Init)
      /\ crate = "escrow_balance_check" => (Deployed => Overdraw_Init)
      /\ crate = "no_slippage" => (Deployed => Slippage_Init)
    BY Deploys DEF Deployed
<1>2. /\ crate = "canceled_listing_fillable" => (Next => Order_Next)
      /\ crate = "buy_without_listing" => (Next => Buy_Next)
      /\ crate = "royalty_recipient_mutable" => (Next => Royalty_Next)
      /\ crate = "seller_self_purchase" => (Next => Self_Next)
      /\ crate = "nft_operator_collection_mixup" => (Next => Operator_Next)
      /\ crate = "royalty_discount_miscalc" => (Next => Discount_Next)
      /\ crate = "auction_close_early" => (Next => Early_Next)
      /\ crate = "auction_refund_block" => (Next => Refund_Next)
      /\ crate = "auction_min_increment_missing" => (Next => Increment_Next)
      /\ crate = "single_approval_escrow_release" => (Next => Approval_Next)
      /\ crate = "escrow_balance_check" => (Next => Overdraw_Next)
      /\ crate = "no_slippage" => (Next => Slippage_Next)
    BY StepsOwn DEF Next
<1> QED BY <1>1, <1>2

\* The inductive invariant of SalesAreAsAgreed: that of each crate, for its corrected code.
SalesInv ==
    /\ Promises("canceled_listing_fillable", Order_Inv)
    /\ Promises("buy_without_listing", Buy_Inv)
    /\ Promises("royalty_recipient_mutable", Royalty_Inv)
    /\ Promises("seller_self_purchase", Self_Inv)
    /\ Promises("nft_operator_collection_mixup", Operator_Inv)
    /\ Promises("royalty_discount_miscalc", Discount_Inv)
    /\ Promises("auction_close_early", Early_Inv)
    /\ Promises("auction_refund_block", Refund_Inv)
    /\ Promises("auction_min_increment_missing", Increment_Inv)
    /\ Promises("single_approval_escrow_release", Approval_Inv)
    /\ Promises("escrow_balance_check", Overdraw_Inv)
    /\ Promises("no_slippage", Slippage_Inv)

\* Every deployment satisfies it.
LEMMA SalesInitially == Init => SalesInv
<1> SUFFICES ASSUME now = 0, Deployed PROVE SalesInv
    BY DEF Init
<1>1. Promises("canceled_listing_fillable", Order_Inv)
    BY Order_Correct, SalesCrates DEF Promises
<1>2. Promises("buy_without_listing", Buy_Inv)
    BY Buy_Correct, SalesCrates DEF Promises
<1>3. Promises("royalty_recipient_mutable", Royalty_Inv)
    BY Royalty_Correct, SalesCrates DEF Promises
<1>4. Promises("seller_self_purchase", Self_Inv)
    BY Self_Correct, SalesCrates DEF Promises
<1>5. Promises("nft_operator_collection_mixup", Operator_Inv)
    BY Operator_Correct, SalesCrates DEF Promises
<1>6. Promises("royalty_discount_miscalc", Discount_Inv)
    BY Discount_Correct, SalesCrates DEF Promises
<1>7. Promises("auction_close_early", Early_Inv)
    BY Early_Correct, SalesCrates DEF Promises
<1>8. Promises("auction_refund_block", Refund_Inv)
    BY Refund_Correct, SalesCrates DEF Promises
<1>9. Promises("auction_min_increment_missing", Increment_Inv)
    BY Increment_Correct, SalesCrates DEF Promises
<1>10. Promises("single_approval_escrow_release", Approval_Inv)
    BY Approval_Correct, SalesCrates DEF Promises
<1>11. Promises("escrow_balance_check", Overdraw_Inv)
    BY Overdraw_Correct, SalesCrates DEF Promises
<1>12. Promises("no_slippage", Slippage_Inv)
    BY Slippage_Correct, SalesCrates DEF Promises
<1> QED BY <1>1, <1>2, <1>3, <1>4, <1>5, <1>6, <1>7, <1>8, <1>9, <1>10, <1>11,
           <1>12 DEF SalesInv

\* Every step keeps it.
LEMMA SalesKept ==
    ASSUME SalesInv, [Next]_vars
    PROVE  SalesInv'
<1>1. UNCHANGED <<crate, code>>
    BY StaysDeployed
<1>2. Promises("canceled_listing_fillable", Order_Inv)'
    BY <1>1, Order_Correct, SalesCrates DEF SalesInv, Promises, Secure
<1>3. Promises("buy_without_listing", Buy_Inv)'
    BY <1>1, Buy_Correct, SalesCrates DEF SalesInv, Promises, Secure
<1>4. Promises("royalty_recipient_mutable", Royalty_Inv)'
    BY <1>1, Royalty_Correct, SalesCrates DEF SalesInv, Promises, Secure
<1>5. Promises("seller_self_purchase", Self_Inv)'
    BY <1>1, Self_Correct, SalesCrates DEF SalesInv, Promises, Secure
<1>6. Promises("nft_operator_collection_mixup", Operator_Inv)'
    BY <1>1, Operator_Correct, SalesCrates DEF SalesInv, Promises, Secure
<1>7. Promises("royalty_discount_miscalc", Discount_Inv)'
    BY <1>1, Discount_Correct, SalesCrates DEF SalesInv, Promises, Secure
<1>8. Promises("auction_close_early", Early_Inv)'
    BY <1>1, Early_Correct, SalesCrates DEF SalesInv, Promises, Secure
<1>9. Promises("auction_refund_block", Refund_Inv)'
    BY <1>1, Refund_Correct, SalesCrates DEF SalesInv, Promises, Secure
<1>10. Promises("auction_min_increment_missing", Increment_Inv)'
    BY <1>1, Increment_Correct, SalesCrates DEF SalesInv, Promises, Secure
<1>11. Promises("single_approval_escrow_release", Approval_Inv)'
    BY <1>1, Approval_Correct, SalesCrates DEF SalesInv, Promises, Secure
<1>12. Promises("escrow_balance_check", Overdraw_Inv)'
    BY <1>1, Overdraw_Correct, SalesCrates DEF SalesInv, Promises, Secure
<1>13. Promises("no_slippage", Slippage_Inv)'
    BY <1>1, Slippage_Correct, SalesCrates DEF SalesInv, Promises, Secure
<1> QED BY <1>2, <1>3, <1>4, <1>5, <1>6, <1>7, <1>8, <1>9, <1>10, <1>11, <1>12,
           <1>13 DEF SalesInv

\* A sale, an auction or an escrow of the corrected market contracts ends as
\* both sides agreed to it, in whatever order listings, bids, cancellations and
\* claims arrive.
THEOREM SalesAreAsAgreedAlways == Spec => []SalesAreAsAgreed
<1>1. SalesInv => SalesAreAsAgreed
    BY DEF SalesInv, SalesAreAsAgreed, Promises, Order_Inv, Buy_Inv,
       Royalty_Inv, Self_Inv, Operator_Inv, Discount_Inv, Early_Inv, Refund_Inv,
       Increment_Inv, Approval_Inv, Overdraw_Inv, Slippage_Inv
<1> QED BY <1>1, SalesInitially, SalesKept, PTL DEF Spec


\* The crates of Claims are deployed and stepped by their own actions only.
LEMMA ClaimsCrates ==
    /\ crate = "airdrop_claim_before_start" => (Deployed => Start_Init) /\ (Next => Start_Next)
    /\ crate = "airdrop_campaign_collision" => (Deployed => Campaign_Init) /\
       (Next => Campaign_Next)
    /\ crate = "merkle_leaf_missing_amount" => (Deployed => Leaf_Init) /\ (Next => Leaf_Next)
    /\ crate = "epoch_claim_no_advance" => (Deployed => Epoch_Init) /\ (Next => Epoch_Next)
    /\ crate = "revoked_vesting_claim" => (Deployed => Revoked_Init) /\ (Next => Revoked_Next)
    /\ crate = "vesting_claimed_not_subtracted" => (Deployed => Subtract_Init) /\
       (Next => Subtract_Next)
    /\ crate = "vesting_cliff_after_end" => (Deployed => Cliff_Init) /\ (Next => Cliff_Next)
    /\ crate = "underfunded_reward_pool" => (Deployed => Pool_Init) /\ (Next => Pool_Next)
    /\ crate = "zero_reward_rate" => (Deployed => Rate_Init) /\ (Next => Rate_Next)
    /\ crate = "validator_commission_uncapped" => (Deployed => Commission_Init) /\
       (Next => Commission_Next)
    /\ crate = "slash_without_evidence" => (Deployed => Slash_Init) /\ (Next => Slash_Next)
    /\ crate = "reward_checkpoint_missing" => (Deployed => Checkpoint_Init) /\
       (Next => Checkpoint_Next)
<1>1. /\ crate = "airdrop_claim_before_start" => (Deployed => Start_Init)
      /\ crate = "airdrop_campaign_collision" => (Deployed => Campaign_Init)
      /\ crate = "merkle_leaf_missing_amount" => (Deployed => Leaf_Init)
      /\ crate = "epoch_claim_no_advance" => (Deployed => Epoch_Init)
      /\ crate = "revoked_vesting_claim" => (Deployed => Revoked_Init)
      /\ crate = "vesting_claimed_not_subtracted" => (Deployed => Subtract_Init)
      /\ crate = "vesting_cliff_after_end" => (Deployed => Cliff_Init)
      /\ crate = "underfunded_reward_pool" => (Deployed => Pool_Init)
      /\ crate = "zero_reward_rate" => (Deployed => Rate_Init)
      /\ crate = "validator_commission_uncapped" => (Deployed => Commission_Init)
      /\ crate = "slash_without_evidence" => (Deployed => Slash_Init)
      /\ crate = "reward_checkpoint_missing" => (Deployed => Checkpoint_Init)
    BY Deploys DEF Deployed
<1>2. /\ crate = "airdrop_claim_before_start" => (Next => Start_Next)
      /\ crate = "airdrop_campaign_collision" => (Next => Campaign_Next)
      /\ crate = "merkle_leaf_missing_amount" => (Next => Leaf_Next)
      /\ crate = "epoch_claim_no_advance" => (Next => Epoch_Next)
      /\ crate = "revoked_vesting_claim" => (Next => Revoked_Next)
      /\ crate = "vesting_claimed_not_subtracted" => (Next => Subtract_Next)
      /\ crate = "vesting_cliff_after_end" => (Next => Cliff_Next)
      /\ crate = "underfunded_reward_pool" => (Next => Pool_Next)
      /\ crate = "zero_reward_rate" => (Next => Rate_Next)
      /\ crate = "validator_commission_uncapped" => (Next => Commission_Next)
      /\ crate = "slash_without_evidence" => (Next => Slash_Next)
      /\ crate = "reward_checkpoint_missing" => (Next => Checkpoint_Next)
    BY StepsOwn DEF Next
<1> QED BY <1>1, <1>2

\* The inductive invariant of ClaimsAreEarned: that of each crate, for its corrected code.
ClaimsInv ==
    /\ Promises("airdrop_claim_before_start", Start_Inv)
    /\ Promises("airdrop_campaign_collision", Campaign_Inv)
    /\ Promises("merkle_leaf_missing_amount", Leaf_Inv)
    /\ Promises("epoch_claim_no_advance", Epoch_Inv)
    /\ Promises("revoked_vesting_claim", Revoked_Inv)
    /\ Promises("vesting_claimed_not_subtracted", Subtract_Inv)
    /\ Promises("vesting_cliff_after_end", Cliff_Inv)
    /\ Promises("underfunded_reward_pool", Pool_Inv)
    /\ Promises("zero_reward_rate", Rate_Inv)
    /\ Promises("validator_commission_uncapped", Commission_Inv)
    /\ Promises("slash_without_evidence", Slash_Inv)
    /\ Promises("reward_checkpoint_missing", Checkpoint_Inv)

\* Every deployment satisfies it.
LEMMA ClaimsInitially == Init => ClaimsInv
<1> SUFFICES ASSUME now = 0, Deployed PROVE ClaimsInv
    BY DEF Init
<1>1. Promises("airdrop_claim_before_start", Start_Inv)
    BY Start_Correct, ClaimsCrates DEF Promises
<1>2. Promises("airdrop_campaign_collision", Campaign_Inv)
    BY Campaign_Correct, ClaimsCrates DEF Promises
<1>3. Promises("merkle_leaf_missing_amount", Leaf_Inv)
    BY Leaf_Correct, ClaimsCrates DEF Promises
<1>4. Promises("epoch_claim_no_advance", Epoch_Inv)
    BY Epoch_Correct, ClaimsCrates DEF Promises
<1>5. Promises("revoked_vesting_claim", Revoked_Inv)
    BY Revoked_Correct, ClaimsCrates DEF Promises
<1>6. Promises("vesting_claimed_not_subtracted", Subtract_Inv)
    BY Subtract_Correct, ClaimsCrates DEF Promises
<1>7. Promises("vesting_cliff_after_end", Cliff_Inv)
    BY Cliff_Correct, ClaimsCrates DEF Promises
<1>8. Promises("underfunded_reward_pool", Pool_Inv)
    BY Pool_Correct, ClaimsCrates DEF Promises
<1>9. Promises("zero_reward_rate", Rate_Inv)
    BY Rate_Correct, ClaimsCrates DEF Promises
<1>10. Promises("validator_commission_uncapped", Commission_Inv)
    BY Commission_Correct, ClaimsCrates DEF Promises
<1>11. Promises("slash_without_evidence", Slash_Inv)
    BY Slash_Correct, ClaimsCrates DEF Promises
<1>12. Promises("reward_checkpoint_missing", Checkpoint_Inv)
    BY Checkpoint_Correct, ClaimsCrates DEF Promises
<1> QED BY <1>1, <1>2, <1>3, <1>4, <1>5, <1>6, <1>7, <1>8, <1>9, <1>10, <1>11,
           <1>12 DEF ClaimsInv

\* Every step keeps it.
LEMMA ClaimsKept ==
    ASSUME ClaimsInv, [Next]_vars
    PROVE  ClaimsInv'
<1>1. UNCHANGED <<crate, code>>
    BY StaysDeployed
<1>2. Promises("airdrop_claim_before_start", Start_Inv)'
    BY <1>1, Start_Correct, ClaimsCrates DEF ClaimsInv, Promises, Secure
<1>3. Promises("airdrop_campaign_collision", Campaign_Inv)'
    BY <1>1, Campaign_Correct, ClaimsCrates DEF ClaimsInv, Promises, Secure
<1>4. Promises("merkle_leaf_missing_amount", Leaf_Inv)'
    BY <1>1, Leaf_Correct, ClaimsCrates DEF ClaimsInv, Promises, Secure
<1>5. Promises("epoch_claim_no_advance", Epoch_Inv)'
    BY <1>1, Epoch_Correct, ClaimsCrates DEF ClaimsInv, Promises, Secure
<1>6. Promises("revoked_vesting_claim", Revoked_Inv)'
    BY <1>1, Revoked_Correct, ClaimsCrates DEF ClaimsInv, Promises, Secure
<1>7. Promises("vesting_claimed_not_subtracted", Subtract_Inv)'
    BY <1>1, Subtract_Correct, ClaimsCrates DEF ClaimsInv, Promises, Secure
<1>8. Promises("vesting_cliff_after_end", Cliff_Inv)'
    BY <1>1, Cliff_Correct, ClaimsCrates DEF ClaimsInv, Promises, Secure
<1>9. Promises("underfunded_reward_pool", Pool_Inv)'
    BY <1>1, Pool_Correct, ClaimsCrates DEF ClaimsInv, Promises, Secure
<1>10. Promises("zero_reward_rate", Rate_Inv)'
    BY <1>1, Rate_Correct, ClaimsCrates DEF ClaimsInv, Promises, Secure
<1>11. Promises("validator_commission_uncapped", Commission_Inv)'
    BY <1>1, Commission_Correct, ClaimsCrates DEF ClaimsInv, Promises, Secure
<1>12. Promises("slash_without_evidence", Slash_Inv)'
    BY <1>1, Slash_Correct, ClaimsCrates DEF ClaimsInv, Promises, Secure
<1>13. Promises("reward_checkpoint_missing", Checkpoint_Inv)'
    BY <1>1, Checkpoint_Correct, ClaimsCrates DEF ClaimsInv, Promises, Secure
<1> QED BY <1>2, <1>3, <1>4, <1>5, <1>6, <1>7, <1>8, <1>9, <1>10, <1>11, <1>12,
           <1>13 DEF ClaimsInv

\* Airdrops, vesting and staking pay what was earned, once, and out of what was
\* set aside for it, whatever is revoked, repeated or late.
THEOREM ClaimsAreEarnedAlways == Spec => []ClaimsAreEarned
<1>1. ClaimsInv => ClaimsAreEarned
    BY Epoch_Promise, Revoked_Promise, Subtract_Promise, Cliff_Promise,
       Checkpoint_Promise DEF ClaimsInv, ClaimsAreEarned, Promises, Start_Inv,
       Campaign_Inv, Leaf_Inv, Pool_Inv, Rate_Inv, Commission_Inv, Slash_Inv
<1> QED BY <1>1, ClaimsInitially, ClaimsKept, PTL DEF Spec


\* The crates of Mirror are deployed and stepped by their own actions only.
LEMMA MirrorCrates ==
    /\ crate = "secure_vault" => (Deployed => Vault_Init) /\ (Next => Vault_Next)
    /\ crate = "secure_transfer" => (Deployed => Transfer_Init) /\ (Next => Transfer_Next)
    /\ crate = "secure_burn" => (Deployed => Burn_Init) /\ (Next => Burn_Next)
    /\ crate = "secure_pausable" => (Deployed => Pausable_Init) /\ (Next => Pausable_Next)
    /\ crate = "secure_escrow" => (Deployed => Escrow_Init) /\ (Next => Escrow_Next)
    /\ crate = "dust_griefing" => (Deployed => Dust_Init) /\ (Next => Dust_Next)
    /\ crate = "secure_staking" => (Deployed => Staking_Init) /\ (Next => Staking_Next)
    /\ crate = "secure_lending" => (Deployed => Position_Init) /\ (Next => Position_Next)
    /\ crate = "secure_airdrop" => (Deployed => Airdrop_Init) /\ (Next => Airdrop_Next)
    /\ crate = "paginated_airdrop" => (Deployed => Pages_Init) /\ (Next => Pages_Next)
<1>1. /\ crate = "secure_vault" => (Deployed => Vault_Init)
      /\ crate = "secure_transfer" => (Deployed => Transfer_Init)
      /\ crate = "secure_burn" => (Deployed => Burn_Init)
      /\ crate = "secure_pausable" => (Deployed => Pausable_Init)
      /\ crate = "secure_escrow" => (Deployed => Escrow_Init)
      /\ crate = "dust_griefing" => (Deployed => Dust_Init)
      /\ crate = "secure_staking" => (Deployed => Staking_Init)
      /\ crate = "secure_lending" => (Deployed => Position_Init)
      /\ crate = "secure_airdrop" => (Deployed => Airdrop_Init)
      /\ crate = "paginated_airdrop" => (Deployed => Pages_Init)
    BY Deploys DEF Deployed
<1>2. /\ crate = "secure_vault" => (Next => Vault_Next)
      /\ crate = "secure_transfer" => (Next => Transfer_Next)
      /\ crate = "secure_burn" => (Next => Burn_Next)
      /\ crate = "secure_pausable" => (Next => Pausable_Next)
      /\ crate = "secure_escrow" => (Next => Escrow_Next)
      /\ crate = "dust_griefing" => (Next => Dust_Next)
      /\ crate = "secure_staking" => (Next => Staking_Next)
      /\ crate = "secure_lending" => (Next => Position_Next)
      /\ crate = "secure_airdrop" => (Next => Airdrop_Next)
      /\ crate = "paginated_airdrop" => (Next => Pages_Next)
    BY StepsOwn DEF Next
<1> QED BY <1>1, <1>2

\* The inductive invariant of MirrorsAddUp: that of each crate, for its corrected code.
MirrorInv ==
    /\ Promises("secure_vault", Vault_Inv)
    /\ Promises("secure_transfer", Transfer_Inv)
    /\ Promises("secure_burn", Burn_Inv)
    /\ Promises("secure_pausable", Pausable_Inv)
    /\ Promises("secure_escrow", Escrow_Inv)
    /\ Promises("dust_griefing", Dust_Inv)
    /\ Promises("secure_staking", Staking_Inv)
    /\ Promises("secure_lending", Position_Inv)
    /\ Promises("secure_airdrop", Airdrop_Inv)
    /\ Promises("paginated_airdrop", Pages_Inv)

\* Every deployment satisfies it.
LEMMA MirrorInitially == Init => MirrorInv
<1> SUFFICES ASSUME now = 0, Deployed PROVE MirrorInv
    BY DEF Init
<1>1. Promises("secure_vault", Vault_Inv)
    BY Vault_Correct, MirrorCrates DEF Promises
<1>2. Promises("secure_transfer", Transfer_Inv)
    BY Transfer_Correct, MirrorCrates DEF Promises
<1>3. Promises("secure_burn", Burn_Inv)
    BY Burn_Correct, MirrorCrates DEF Promises
<1>4. Promises("secure_pausable", Pausable_Inv)
    BY Pausable_Correct, MirrorCrates DEF Promises
<1>5. Promises("secure_escrow", Escrow_Inv)
    BY Escrow_Correct, MirrorCrates DEF Promises
<1>6. Promises("dust_griefing", Dust_Inv)
    BY Dust_Correct, MirrorCrates DEF Promises
<1>7. Promises("secure_staking", Staking_Inv)
    BY Staking_Correct, MirrorCrates DEF Promises
<1>8. Promises("secure_lending", Position_Inv)
    BY Position_Correct, MirrorCrates DEF Promises
<1>9. Promises("secure_airdrop", Airdrop_Inv)
    BY Airdrop_Correct, MirrorCrates DEF Promises
<1>10. Promises("paginated_airdrop", Pages_Inv)
    BY Pages_Correct, MirrorCrates DEF Promises
<1> QED BY <1>1, <1>2, <1>3, <1>4, <1>5, <1>6, <1>7, <1>8, <1>9, <1>10 DEF MirrorInv

\* Every step keeps it.
LEMMA MirrorKept ==
    ASSUME MirrorInv, [Next]_vars
    PROVE  MirrorInv'
<1>1. UNCHANGED <<crate, code>>
    BY StaysDeployed
<1>2. Promises("secure_vault", Vault_Inv)'
    BY <1>1, Vault_Correct, MirrorCrates DEF MirrorInv, Promises, Secure
<1>3. Promises("secure_transfer", Transfer_Inv)'
    BY <1>1, Transfer_Correct, MirrorCrates DEF MirrorInv, Promises, Secure
<1>4. Promises("secure_burn", Burn_Inv)'
    BY <1>1, Burn_Correct, MirrorCrates DEF MirrorInv, Promises, Secure
<1>5. Promises("secure_pausable", Pausable_Inv)'
    BY <1>1, Pausable_Correct, MirrorCrates DEF MirrorInv, Promises, Secure
<1>6. Promises("secure_escrow", Escrow_Inv)'
    BY <1>1, Escrow_Correct, MirrorCrates DEF MirrorInv, Promises, Secure
<1>7. Promises("dust_griefing", Dust_Inv)'
    BY <1>1, Dust_Correct, MirrorCrates DEF MirrorInv, Promises, Secure
<1>8. Promises("secure_staking", Staking_Inv)'
    BY <1>1, Staking_Correct, MirrorCrates DEF MirrorInv, Promises, Secure
<1>9. Promises("secure_lending", Position_Inv)'
    BY <1>1, Position_Correct, MirrorCrates DEF MirrorInv, Promises, Secure
<1>10. Promises("secure_airdrop", Airdrop_Inv)'
    BY <1>1, Airdrop_Correct, MirrorCrates DEF MirrorInv, Promises, Secure
<1>11. Promises("paginated_airdrop", Pages_Inv)'
    BY <1>1, Pages_Correct, MirrorCrates DEF MirrorInv, Promises, Secure
<1> QED BY <1>2, <1>3, <1>4, <1>5, <1>6, <1>7, <1>8, <1>9, <1>10, <1>11 DEF MirrorInv

\* What the balances, stakes, positions and rounds of the small contracts add
\* up to over any sequence of calls, by any number of accounts. In secure_vault
\* and secure_pausable the balances exceed the issue by what was transferred to
\* oneself; in secure_lending the debts a borrower walks away from are covered
\* by the collateral left behind.
THEOREM MirrorsAddUpAlways == Spec => []MirrorsAddUp
<1>1. MirrorInv => MirrorsAddUp
    BY DEF MirrorInv, MirrorsAddUp, Promises, Vault_Inv, Transfer_Inv, Burn_Inv,
       Pausable_Inv, Escrow_Inv, Dust_Inv, Staking_Inv, Position_Inv, Airdrop_Inv,
       Pages_Inv
<1> QED BY <1>1, MirrorInitially, MirrorKept, PTL DEF Spec


\* The crates of Rights are deployed and stepped by their own actions only.
LEMMA RightsCrates ==
    /\ crate = "delegate_signer_mismatch" => (Deployed => Signer_Init) /\ (Next => Signer_Next)
    /\ crate = "expired_delegation" => (Deployed => Delegation_Init) /\ (Next => Delegation_Next)
    /\ crate = "public_proposal_cancel" => (Deployed => Cancel_Init) /\ (Next => Cancel_Next)
    /\ crate = "flash_fee_not_collected" => (Deployed => FlashFee_Init) /\ (Next => FlashFee_Next)
    /\ crate = "inactive_circuit_breaker" => (Deployed => Breaker_Init) /\ (Next => Breaker_Next)
    /\ crate = "secure_pausable" => (Deployed => Pausable_Init) /\ (Next => Pausable_Next)
<1>1. /\ crate = "delegate_signer_mismatch" => (Deployed => Signer_Init)
      /\ crate = "expired_delegation" => (Deployed => Delegation_Init)
      /\ crate = "public_proposal_cancel" => (Deployed => Cancel_Init)
      /\ crate = "flash_fee_not_collected" => (Deployed => FlashFee_Init)
      /\ crate = "inactive_circuit_breaker" => (Deployed => Breaker_Init)
      /\ crate = "secure_pausable" => (Deployed => Pausable_Init)
    BY Deploys DEF Deployed
<1>2. /\ crate = "delegate_signer_mismatch" => (Next => Signer_Next)
      /\ crate = "expired_delegation" => (Next => Delegation_Next)
      /\ crate = "public_proposal_cancel" => (Next => Cancel_Next)
      /\ crate = "flash_fee_not_collected" => (Next => FlashFee_Next)
      /\ crate = "inactive_circuit_breaker" => (Next => Breaker_Next)
      /\ crate = "secure_pausable" => (Next => Pausable_Next)
    BY StepsOwn DEF Next
<1> QED BY <1>1, <1>2

\* The inductive invariant of StepsWithinRights: that of each crate, for its corrected code.
RightsInv ==
    /\ Promises("delegate_signer_mismatch", Signer_Inv)
    /\ Promises("expired_delegation", Delegation_Inv)
    /\ Promises("public_proposal_cancel", Cancel_Inv)
    /\ Promises("flash_fee_not_collected", FlashFee_Inv)
    /\ Promises("inactive_circuit_breaker", Breaker_Inv)
    /\ Promises("secure_pausable", Pausable_Inv)

\* Every deployment satisfies it.
LEMMA RightsInitially == Init => RightsInv
<1> SUFFICES ASSUME now = 0, Deployed PROVE RightsInv
    BY DEF Init
<1>1. Promises("delegate_signer_mismatch", Signer_Inv)
    BY Signer_Correct, RightsCrates DEF Promises
<1>2. Promises("expired_delegation", Delegation_Inv)
    BY Delegation_Correct, RightsCrates DEF Promises
<1>3. Promises("public_proposal_cancel", Cancel_Inv)
    BY Cancel_Correct, RightsCrates DEF Promises
<1>4. Promises("flash_fee_not_collected", FlashFee_Inv)
    BY FlashFee_Correct, RightsCrates DEF Promises
<1>5. Promises("inactive_circuit_breaker", Breaker_Inv)
    BY Breaker_Correct, RightsCrates DEF Promises
<1>6. Promises("secure_pausable", Pausable_Inv)
    BY Pausable_Correct, RightsCrates DEF Promises
<1> QED BY <1>1, <1>2, <1>3, <1>4, <1>5, <1>6 DEF RightsInv

\* Every step keeps it, and is a step the promises allow.
LEMMA RightsKept ==
    ASSUME RightsInv, [Next]_vars
    PROVE  RightsInv'
<1>1. UNCHANGED <<crate, code>>
    BY StaysDeployed
<1>2. Promises("delegate_signer_mismatch", Signer_Inv)'
    BY <1>1, Signer_Correct, RightsCrates DEF RightsInv, Promises, Secure
<1>3. Promises("expired_delegation", Delegation_Inv)'
    BY <1>1, Delegation_Correct, RightsCrates DEF RightsInv, Promises, Secure
<1>4. Promises("public_proposal_cancel", Cancel_Inv)'
    BY <1>1, Cancel_Correct, RightsCrates DEF RightsInv, Promises, Secure
<1>5. Promises("flash_fee_not_collected", FlashFee_Inv)'
    BY <1>1, FlashFee_Correct, RightsCrates DEF RightsInv, Promises, Secure
<1>6. Promises("inactive_circuit_breaker", Breaker_Inv)'
    BY <1>1, Breaker_Correct, RightsCrates DEF RightsInv, Promises, Secure
<1>7. Promises("secure_pausable", Pausable_Inv)'
    BY <1>1, Pausable_Correct, RightsCrates DEF RightsInv, Promises, Secure
<1> QED BY <1>2, <1>3, <1>4, <1>5, <1>6, <1>7 DEF RightsInv

LEMMA RightsSteps ==
    ASSUME RightsInv, [Next]_vars
    PROVE
      /\ Promises("delegate_signer_mismatch", Signer_DelegateDraws)
      /\ Promises("expired_delegation", Delegation_Ends)
      /\ Promises("public_proposal_cancel", Cancel_ByItsOwn)
      /\ Promises("flash_fee_not_collected", FlashFee_NothingLeaves)
      /\ Promises("inactive_circuit_breaker", Breaker_MovesAreBounded)
      /\ Promises("secure_pausable", Pausable_PauseHolds)
<1>1. Promises("delegate_signer_mismatch", Signer_DelegateDraws)
    BY Signer_Correct, RightsCrates DEF RightsInv, Promises
<1>2. Promises("expired_delegation", Delegation_Ends)
    BY Delegation_Correct, RightsCrates DEF RightsInv, Promises
<1>3. Promises("public_proposal_cancel", Cancel_ByItsOwn)
    BY Cancel_Correct, RightsCrates DEF RightsInv, Promises
<1>4. Promises("flash_fee_not_collected", FlashFee_NothingLeaves)
    BY FlashFee_Correct, RightsCrates DEF RightsInv, Promises
<1>5. Promises("inactive_circuit_breaker", Breaker_MovesAreBounded)
    BY Breaker_Correct, RightsCrates DEF RightsInv, Promises
<1>6. Promises("secure_pausable", Pausable_PauseHolds)
    BY Pausable_Correct, RightsCrates DEF RightsInv, Promises
<1> QED BY <1>1, <1>2, <1>3, <1>4, <1>5, <1>6

\* No step of a corrected contract exceeds the rights it is taken under: a
\* delegation ends, a cancellation is the proposer's or the admin's, a loan
\* costs nothing, a price that is stored lies within the band around the one
\* before it, a pause that was made holds. A breach of the band is refused,
\* which takes the pause it asks for back with it.
THEOREM StepsWithinRightsAlways == Spec => StepsWithinRights
<1>1. RightsInv /\ [Next]_vars => [
    /\ Promises("delegate_signer_mismatch", Signer_DelegateDraws)
    /\ Promises("expired_delegation", Delegation_Ends)
    /\ Promises("public_proposal_cancel", Cancel_ByItsOwn)
    /\ Promises("flash_fee_not_collected", FlashFee_NothingLeaves)
    /\ Promises("inactive_circuit_breaker", Breaker_MovesAreBounded)
    /\ Promises("secure_pausable", Pausable_PauseHolds)
    ]_vars
    BY RightsSteps
<1> QED BY <1>1, RightsInitially, RightsKept, PTL DEF Spec, StepsWithinRights


\* The crates of Books are deployed and stepped by their own actions only.
LEMMA BooksCrates ==
    /\ crate = "admin_skim_donations" => (Deployed => Skim_Init) /\ (Next => Skim_Next)
    /\ crate = "rebasing_token_accounting" => (Deployed => Rebase_Init) /\ (Next => Rebase_Next)
    /\ crate = "rescue_primary_asset" => (Deployed => Rescue_Init) /\ (Next => Rescue_Next)
    /\ crate = "vault_donation_accounting" => (Deployed => Donation_Init) /\ (Next => Donation_Next)
    /\ crate = "deposit_cap_wrong_amount" => (Deployed => Cap_Init) /\ (Next => Cap_Next)
    /\ crate = "sequence_as_timestamp" => (Deployed => Units_Init) /\ (Next => Units_Next)
    /\ crate = "collateral_factor_over_100" => (Deployed => Factor_Init) /\ (Next => Factor_Next)
    /\ crate = "uncapped_rate" => (Deployed => Uncapped_Init) /\ (Next => Uncapped_Next)
    /\ crate = "liquidation_dust_rounding" => (Deployed => Round_Init) /\ (Next => Round_Next)
    /\ crate = "mixed_collateral_decimals" => (Deployed => Mixed_Init) /\ (Next => Mixed_Next)
    /\ crate = "collateral_withdraw_no_health_check" => (Deployed => Health_Init) /\
       (Next => Health_Next)
    /\ crate = "caller_supplied_ledger" => (Deployed => Supplied_Init) /\ (Next => Supplied_Next)
    /\ crate = "batch_partial_failure" => (Deployed => Partial_Init) /\ (Next => Partial_Next)
    /\ crate = "ttl_bump_index_only" => (Deployed => Ttl_Init) /\ (Next => Ttl_Next)
    /\ crate = "weak_randomness" => (Deployed => Lottery_Init) /\ (Next => Lottery_Next)
    /\ crate = "fee_on_transfer" => (Deployed => FeeIn_Init) /\ (Next => FeeIn_Next)
    /\ crate = "self_deposit" => (Deployed => SelfIn_Init) /\ (Next => SelfIn_Next)
    /\ crate = "negative_fee_bps" => (Deployed => Negative_Init) /\ (Next => Negative_Next)
    /\ crate = "fee_precision_loss" => (Deployed => Precision_Init) /\ (Next => Precision_Next)
<1>1. /\ crate = "admin_skim_donations" => (Deployed => Skim_Init)
      /\ crate = "rebasing_token_accounting" => (Deployed => Rebase_Init)
      /\ crate = "rescue_primary_asset" => (Deployed => Rescue_Init)
      /\ crate = "vault_donation_accounting" => (Deployed => Donation_Init)
      /\ crate = "deposit_cap_wrong_amount" => (Deployed => Cap_Init)
      /\ crate = "sequence_as_timestamp" => (Deployed => Units_Init)
      /\ crate = "collateral_factor_over_100" => (Deployed => Factor_Init)
      /\ crate = "uncapped_rate" => (Deployed => Uncapped_Init)
      /\ crate = "liquidation_dust_rounding" => (Deployed => Round_Init)
      /\ crate = "mixed_collateral_decimals" => (Deployed => Mixed_Init)
      /\ crate = "collateral_withdraw_no_health_check" => (Deployed => Health_Init)
      /\ crate = "caller_supplied_ledger" => (Deployed => Supplied_Init)
      /\ crate = "batch_partial_failure" => (Deployed => Partial_Init)
      /\ crate = "ttl_bump_index_only" => (Deployed => Ttl_Init)
      /\ crate = "weak_randomness" => (Deployed => Lottery_Init)
      /\ crate = "fee_on_transfer" => (Deployed => FeeIn_Init)
      /\ crate = "self_deposit" => (Deployed => SelfIn_Init)
      /\ crate = "negative_fee_bps" => (Deployed => Negative_Init)
      /\ crate = "fee_precision_loss" => (Deployed => Precision_Init)
    BY Deploys DEF Deployed
<1>2. /\ crate = "admin_skim_donations" => (Next => Skim_Next)
      /\ crate = "rebasing_token_accounting" => (Next => Rebase_Next)
      /\ crate = "rescue_primary_asset" => (Next => Rescue_Next)
      /\ crate = "vault_donation_accounting" => (Next => Donation_Next)
      /\ crate = "deposit_cap_wrong_amount" => (Next => Cap_Next)
      /\ crate = "sequence_as_timestamp" => (Next => Units_Next)
      /\ crate = "collateral_factor_over_100" => (Next => Factor_Next)
      /\ crate = "uncapped_rate" => (Next => Uncapped_Next)
      /\ crate = "liquidation_dust_rounding" => (Next => Round_Next)
      /\ crate = "mixed_collateral_decimals" => (Next => Mixed_Next)
      /\ crate = "collateral_withdraw_no_health_check" => (Next => Health_Next)
      /\ crate = "caller_supplied_ledger" => (Next => Supplied_Next)
      /\ crate = "batch_partial_failure" => (Next => Partial_Next)
      /\ crate = "ttl_bump_index_only" => (Next => Ttl_Next)
      /\ crate = "weak_randomness" => (Next => Lottery_Next)
      /\ crate = "fee_on_transfer" => (Next => FeeIn_Next)
      /\ crate = "self_deposit" => (Next => SelfIn_Next)
      /\ crate = "negative_fee_bps" => (Next => Negative_Next)
      /\ crate = "fee_precision_loss" => (Next => Precision_Next)
    BY StepsOwn DEF Next
<1> QED BY <1>1, <1>2

\* The inductive invariant of BooksAreHeld: that of each crate, for its corrected code.
BooksInv ==
    /\ Promises("admin_skim_donations", Skim_Inv)
    /\ Promises("rebasing_token_accounting", Rebase_Inv)
    /\ Promises("rescue_primary_asset", Rescue_Inv)
    /\ Promises("vault_donation_accounting", Donation_Inv)
    /\ Promises("deposit_cap_wrong_amount", Cap_Inv)
    /\ Promises("sequence_as_timestamp", Units_Inv)
    /\ Promises("collateral_factor_over_100", Factor_Inv)
    /\ Promises("uncapped_rate", Uncapped_Inv)
    /\ Promises("liquidation_dust_rounding", Round_Inv)
    /\ Promises("mixed_collateral_decimals", Mixed_Inv)
    /\ Promises("collateral_withdraw_no_health_check", Health_Inv)
    /\ Promises("caller_supplied_ledger", Supplied_Inv)
    /\ Promises("batch_partial_failure", Partial_Inv)
    /\ Promises("ttl_bump_index_only", Ttl_Inv)
    /\ Promises("weak_randomness", Lottery_Inv)
    /\ Promises("fee_on_transfer", FeeIn_Inv)
    /\ Promises("self_deposit", SelfIn_Inv)
    /\ Promises("negative_fee_bps", Negative_Inv)
    /\ Promises("fee_precision_loss", Precision_Inv)

\* Every deployment satisfies it.
LEMMA BooksInitially == Init => BooksInv
<1> SUFFICES ASSUME now = 0, Deployed PROVE BooksInv
    BY DEF Init
<1>1. Promises("admin_skim_donations", Skim_Inv)
    BY Skim_Correct, BooksCrates DEF Promises
<1>2. Promises("rebasing_token_accounting", Rebase_Inv)
    BY Rebase_Correct, BooksCrates DEF Promises
<1>3. Promises("rescue_primary_asset", Rescue_Inv)
    BY Rescue_Correct, BooksCrates DEF Promises
<1>4. Promises("vault_donation_accounting", Donation_Inv)
    BY Donation_Correct, BooksCrates DEF Promises
<1>5. Promises("deposit_cap_wrong_amount", Cap_Inv)
    BY Cap_Correct, BooksCrates DEF Promises
<1>6. Promises("sequence_as_timestamp", Units_Inv)
    BY Units_Correct, BooksCrates DEF Promises
<1>7. Promises("collateral_factor_over_100", Factor_Inv)
    BY Factor_Correct, BooksCrates DEF Promises
<1>8. Promises("uncapped_rate", Uncapped_Inv)
    BY Uncapped_Correct, BooksCrates DEF Promises
<1>9. Promises("liquidation_dust_rounding", Round_Inv)
    BY Round_Correct, BooksCrates DEF Promises
<1>10. Promises("mixed_collateral_decimals", Mixed_Inv)
    BY Mixed_Correct, BooksCrates DEF Promises
<1>11. Promises("collateral_withdraw_no_health_check", Health_Inv)
    BY Health_Correct, BooksCrates DEF Promises
<1>12. Promises("caller_supplied_ledger", Supplied_Inv)
    BY Supplied_Correct, BooksCrates DEF Promises
<1>13. Promises("batch_partial_failure", Partial_Inv)
    BY Partial_Correct, BooksCrates DEF Promises
<1>14. Promises("ttl_bump_index_only", Ttl_Inv)
    BY Ttl_Correct, BooksCrates DEF Promises
<1>15. Promises("weak_randomness", Lottery_Inv)
    BY Lottery_Correct, BooksCrates DEF Promises
<1>16. Promises("fee_on_transfer", FeeIn_Inv)
    BY FeeIn_Correct, BooksCrates DEF Promises
<1>17. Promises("self_deposit", SelfIn_Inv)
    BY SelfIn_Correct, BooksCrates DEF Promises
<1>18. Promises("negative_fee_bps", Negative_Inv)
    BY Negative_Correct, BooksCrates DEF Promises
<1>19. Promises("fee_precision_loss", Precision_Inv)
    BY Precision_Correct, BooksCrates DEF Promises
<1> QED BY <1>1, <1>2, <1>3, <1>4, <1>5, <1>6, <1>7, <1>8, <1>9, <1>10, <1>11,
           <1>12, <1>13, <1>14, <1>15, <1>16, <1>17, <1>18, <1>19 DEF BooksInv

\* Every step keeps it.
LEMMA BooksKept ==
    ASSUME BooksInv, [Next]_vars
    PROVE  BooksInv'
<1>1. UNCHANGED <<crate, code>>
    BY StaysDeployed
<1>2. Promises("admin_skim_donations", Skim_Inv)'
    BY <1>1, Skim_Correct, BooksCrates DEF BooksInv, Promises, Secure
<1>3. Promises("rebasing_token_accounting", Rebase_Inv)'
    BY <1>1, Rebase_Correct, BooksCrates DEF BooksInv, Promises, Secure
<1>4. Promises("rescue_primary_asset", Rescue_Inv)'
    BY <1>1, Rescue_Correct, BooksCrates DEF BooksInv, Promises, Secure
<1>5. Promises("vault_donation_accounting", Donation_Inv)'
    BY <1>1, Donation_Correct, BooksCrates DEF BooksInv, Promises, Secure
<1>6. Promises("deposit_cap_wrong_amount", Cap_Inv)'
    BY <1>1, Cap_Correct, BooksCrates DEF BooksInv, Promises, Secure
<1>7. Promises("sequence_as_timestamp", Units_Inv)'
    BY <1>1, Units_Correct, BooksCrates DEF BooksInv, Promises, Secure
<1>8. Promises("collateral_factor_over_100", Factor_Inv)'
    BY <1>1, Factor_Correct, BooksCrates DEF BooksInv, Promises, Secure
<1>9. Promises("uncapped_rate", Uncapped_Inv)'
    BY <1>1, Uncapped_Correct, BooksCrates DEF BooksInv, Promises, Secure
<1>10. Promises("liquidation_dust_rounding", Round_Inv)'
    BY <1>1, Round_Correct, BooksCrates DEF BooksInv, Promises, Secure
<1>11. Promises("mixed_collateral_decimals", Mixed_Inv)'
    BY <1>1, Mixed_Correct, BooksCrates DEF BooksInv, Promises, Secure
<1>12. Promises("collateral_withdraw_no_health_check", Health_Inv)'
    BY <1>1, Health_Correct, BooksCrates DEF BooksInv, Promises, Secure
<1>13. Promises("caller_supplied_ledger", Supplied_Inv)'
    BY <1>1, Supplied_Correct, BooksCrates DEF BooksInv, Promises, Secure
<1>14. Promises("batch_partial_failure", Partial_Inv)'
    BY <1>1, Partial_Correct, BooksCrates DEF BooksInv, Promises, Secure
<1>15. Promises("ttl_bump_index_only", Ttl_Inv)'
    BY <1>1, Ttl_Correct, BooksCrates DEF BooksInv, Promises, Secure
<1>16. Promises("weak_randomness", Lottery_Inv)'
    BY <1>1, Lottery_Correct, BooksCrates DEF BooksInv, Promises, Secure
<1>17. Promises("fee_on_transfer", FeeIn_Inv)'
    BY <1>1, FeeIn_Correct, BooksCrates DEF BooksInv, Promises, Secure
<1>18. Promises("self_deposit", SelfIn_Inv)'
    BY <1>1, SelfIn_Correct, BooksCrates DEF BooksInv, Promises, Secure
<1>19. Promises("negative_fee_bps", Negative_Inv)'
    BY <1>1, Negative_Correct, BooksCrates DEF BooksInv, Promises, Secure
<1>20. Promises("fee_precision_loss", Precision_Inv)'
    BY <1>1, Precision_Correct, BooksCrates DEF BooksInv, Promises, Secure
<1> QED BY <1>2, <1>3, <1>4, <1>5, <1>6, <1>7, <1>8, <1>9, <1>10, <1>11, <1>12,
           <1>13, <1>14, <1>15, <1>16, <1>17, <1>18, <1>19, <1>20 DEF BooksInv

\* The books of the corrected vaults, pools, loans and tokens account for all
\* that their callers put in and took out, whatever was rebased, rescued,
\* rounded or only partly carried out. Where the code lets an account go below
\* zero or skims what it never took in, the books say by how much; that the
\* deposits stay covered is not claimed of admin_skim_donations
\* (MCFixtures_skim refutes it).
THEOREM BooksAreHeldAlways == Spec => []BooksAreHeld
<1>1. BooksInv => BooksAreHeld
    BY Rebase_Promise, Rescue_Promise, Units_Promise, Partial_Promise DEF
       BooksInv, BooksAreHeld, Promises, Skim_Inv, Donation_Inv, Cap_Inv,
       Factor_Inv, Uncapped_Inv, Round_Inv, Mixed_Inv, Health_Inv, Supplied_Inv,
       Ttl_Inv, Lottery_Inv, FeeIn_Inv, SelfIn_Inv, Negative_Inv, Precision_Inv
<1> QED BY <1>1, BooksInitially, BooksKept, PTL DEF Spec


\* The crates of Shares are deployed and stepped by their own actions only.
LEMMA SharesCrates ==
    /\ crate = "rebasing_token_accounting" => (Deployed => Rebase_Init) /\ (Next => Rebase_Next)
    /\ crate = "unprotected_emergency_withdraw" => (Deployed => Emergency_Init) /\
       (Next => Emergency_Next)
    /\ crate = "withdraw_rounding_leak" => (Deployed => Leak_Init) /\ (Next => Leak_Next)
    /\ crate = "zero_share_rounding" => (Deployed => ZeroShare_Init) /\ (Next => ZeroShare_Next)
    /\ crate = "free_share_rounding" => (Deployed => FreeShare_Init) /\ (Next => FreeShare_Next)
    /\ crate = "empty_vault_share_inflation" => (Deployed => Inflation_Init) /\
       (Next => Inflation_Next)
<1>1. /\ crate = "rebasing_token_accounting" => (Deployed => Rebase_Init)
      /\ crate = "unprotected_emergency_withdraw" => (Deployed => Emergency_Init)
      /\ crate = "withdraw_rounding_leak" => (Deployed => Leak_Init)
      /\ crate = "zero_share_rounding" => (Deployed => ZeroShare_Init)
      /\ crate = "free_share_rounding" => (Deployed => FreeShare_Init)
      /\ crate = "empty_vault_share_inflation" => (Deployed => Inflation_Init)
    BY Deploys DEF Deployed
<1>2. /\ crate = "rebasing_token_accounting" => (Next => Rebase_Next)
      /\ crate = "unprotected_emergency_withdraw" => (Next => Emergency_Next)
      /\ crate = "withdraw_rounding_leak" => (Next => Leak_Next)
      /\ crate = "zero_share_rounding" => (Next => ZeroShare_Next)
      /\ crate = "free_share_rounding" => (Next => FreeShare_Next)
      /\ crate = "empty_vault_share_inflation" => (Next => Inflation_Next)
    BY StepsOwn DEF Next
<1> QED BY <1>1, <1>2

\* The inductive invariant of SharesKeepTheirWorth: that of each crate, for its corrected code.
SharesInv ==
    /\ Promises("rebasing_token_accounting", Rebase_Inv)
    /\ Promises("unprotected_emergency_withdraw", Emergency_Inv)
    /\ Promises("withdraw_rounding_leak", Leak_Inv)
    /\ Promises("zero_share_rounding", ZeroShare_Inv)
    /\ Promises("free_share_rounding", FreeShare_Inv)
    /\ Promises("empty_vault_share_inflation", Inflation_Inv)

\* Every deployment satisfies it.
LEMMA SharesInitially == Init => SharesInv
<1> SUFFICES ASSUME now = 0, Deployed PROVE SharesInv
    BY DEF Init
<1>1. Promises("rebasing_token_accounting", Rebase_Inv)
    BY Rebase_Correct, SharesCrates DEF Promises
<1>2. Promises("unprotected_emergency_withdraw", Emergency_Inv)
    BY Emergency_Correct, SharesCrates DEF Promises
<1>3. Promises("withdraw_rounding_leak", Leak_Inv)
    BY Leak_Correct, SharesCrates DEF Promises
<1>4. Promises("zero_share_rounding", ZeroShare_Inv)
    BY ZeroShare_Correct, SharesCrates DEF Promises
<1>5. Promises("free_share_rounding", FreeShare_Inv)
    BY FreeShare_Correct, SharesCrates DEF Promises
<1>6. Promises("empty_vault_share_inflation", Inflation_Inv)
    BY Inflation_Correct, SharesCrates DEF Promises
<1> QED BY <1>1, <1>2, <1>3, <1>4, <1>5, <1>6 DEF SharesInv

\* Every step keeps it, and is a step the promises allow.
LEMMA SharesKept ==
    ASSUME SharesInv, [Next]_vars
    PROVE  SharesInv'
<1>1. UNCHANGED <<crate, code>>
    BY StaysDeployed
<1>2. Promises("rebasing_token_accounting", Rebase_Inv)'
    BY <1>1, Rebase_Correct, SharesCrates DEF SharesInv, Promises, Secure
<1>3. Promises("unprotected_emergency_withdraw", Emergency_Inv)'
    BY <1>1, Emergency_Correct, SharesCrates DEF SharesInv, Promises, Secure
<1>4. Promises("withdraw_rounding_leak", Leak_Inv)'
    BY <1>1, Leak_Correct, SharesCrates DEF SharesInv, Promises, Secure
<1>5. Promises("zero_share_rounding", ZeroShare_Inv)'
    BY <1>1, ZeroShare_Correct, SharesCrates DEF SharesInv, Promises, Secure
<1>6. Promises("free_share_rounding", FreeShare_Inv)'
    BY <1>1, FreeShare_Correct, SharesCrates DEF SharesInv, Promises, Secure
<1>7. Promises("empty_vault_share_inflation", Inflation_Inv)'
    BY <1>1, Inflation_Correct, SharesCrates DEF SharesInv, Promises, Secure
<1> QED BY <1>2, <1>3, <1>4, <1>5, <1>6, <1>7 DEF SharesInv

LEMMA SharesSteps ==
    ASSUME SharesInv, [Next]_vars
    PROVE
      /\ Promises("rebasing_token_accounting", Rebase_OthersKeepTheirs)
      /\ Promises("unprotected_emergency_withdraw", Emergency_ByOwnerOrAdmin)
      /\ Promises("withdraw_rounding_leak", PriceKept)
      /\ Promises("zero_share_rounding", ZeroShare_DepositorGains)
      /\ Promises("free_share_rounding", FreeShare_PriceKept)
      /\ Promises("empty_vault_share_inflation", Inflation_PriceKept)
<1>1. Promises("rebasing_token_accounting", Rebase_OthersKeepTheirs)
    BY Rebase_Correct, SharesCrates DEF SharesInv, Promises
<1>2. Promises("unprotected_emergency_withdraw", Emergency_ByOwnerOrAdmin)
    BY Emergency_Correct, SharesCrates DEF SharesInv, Promises
<1>3. Promises("withdraw_rounding_leak", PriceKept)
    BY Leak_Correct, SharesCrates DEF SharesInv, Promises
<1>4. Promises("zero_share_rounding", ZeroShare_DepositorGains)
    BY ZeroShare_Correct, SharesCrates DEF SharesInv, Promises
<1>5. Promises("free_share_rounding", FreeShare_PriceKept)
    BY FreeShare_Correct, SharesCrates DEF SharesInv, Promises
<1>6. Promises("empty_vault_share_inflation", Inflation_PriceKept)
    BY Inflation_Correct, SharesCrates DEF SharesInv, Promises
<1> QED BY <1>1, <1>2, <1>3, <1>4, <1>5, <1>6

\* No step of a corrected vault takes from those who did not take part in it:
\* with rounding down of what is paid and up of what is burned, a share is
\* worth after a deposit, a withdrawal or a donation at least what it was worth
\* before. A rebase changes no share, so all bear it in proportion. A lock of
\* unprotected_emergency_withdraw is moved by its owner or the admin only.
THEOREM SharesKeepTheirWorthAlways == Spec => SharesKeepTheirWorth
<1>1. SharesInv /\ [Next]_vars => [
    /\ Promises("rebasing_token_accounting", Rebase_OthersKeepTheirs)
    /\ Promises("unprotected_emergency_withdraw", Emergency_ByOwnerOrAdmin)
    /\ Promises("withdraw_rounding_leak", PriceKept)
    /\ Promises("zero_share_rounding", ZeroShare_DepositorGains)
    /\ Promises("free_share_rounding", FreeShare_PriceKept)
    /\ Promises("empty_vault_share_inflation", Inflation_PriceKept)
    ]_vars
    BY SharesSteps
<1> QED BY <1>1, SharesInitially, SharesKept, PTL DEF Spec, SharesKeepTheirWorth


\* The crates of Terms are deployed and stepped by their own actions only.
LEMMA TermsCrates ==
    /\ crate = "airdrop_expiry_ignored" => (Deployed => Expiry_Init) /\ (Next => Expiry_Next)
    /\ crate = "underfunded_reward_pool" => (Deployed => Pool_Init) /\ (Next => Pool_Next)
    /\ crate = "repay_for_reward_grief" => (Deployed => Grief_Init) /\ (Next => Grief_Next)
    /\ crate = "interest_index_reset" => (Deployed => Index_Init) /\ (Next => Index_Next)
    /\ crate = "borrow_without_accrual" => (Deployed => Accrual_Init) /\ (Next => Accrual_Next)
    /\ crate = "borrow_cap_asset_mixup" => (Deployed => Mixup_Init) /\ (Next => Mixup_Next)
    /\ crate = "bridge_validator_quorum_missing" => (Deployed => Validators_Init) /\
       (Next => Validators_Next)
    /\ crate = "batch_pause_bypass" => (Deployed => Batch_Init) /\ (Next => Batch_Next)
    /\ crate = "incomplete_blacklist" => (Deployed => Blacklist_Init) /\ (Next => Blacklist_Next)
<1>1. /\ crate = "airdrop_expiry_ignored" => (Deployed => Expiry_Init)
      /\ crate = "underfunded_reward_pool" => (Deployed => Pool_Init)
      /\ crate = "repay_for_reward_grief" => (Deployed => Grief_Init)
      /\ crate = "interest_index_reset" => (Deployed => Index_Init)
      /\ crate = "borrow_without_accrual" => (Deployed => Accrual_Init)
      /\ crate = "borrow_cap_asset_mixup" => (Deployed => Mixup_Init)
      /\ crate = "bridge_validator_quorum_missing" => (Deployed => Validators_Init)
      /\ crate = "batch_pause_bypass" => (Deployed => Batch_Init)
      /\ crate = "incomplete_blacklist" => (Deployed => Blacklist_Init)
    BY Deploys DEF Deployed
<1>2. /\ crate = "airdrop_expiry_ignored" => (Next => Expiry_Next)
      /\ crate = "underfunded_reward_pool" => (Next => Pool_Next)
      /\ crate = "repay_for_reward_grief" => (Next => Grief_Next)
      /\ crate = "interest_index_reset" => (Next => Index_Next)
      /\ crate = "borrow_without_accrual" => (Next => Accrual_Next)
      /\ crate = "borrow_cap_asset_mixup" => (Next => Mixup_Next)
      /\ crate = "bridge_validator_quorum_missing" => (Next => Validators_Next)
      /\ crate = "batch_pause_bypass" => (Next => Batch_Next)
      /\ crate = "incomplete_blacklist" => (Next => Blacklist_Next)
    BY StepsOwn DEF Next
<1> QED BY <1>1, <1>2

\* The inductive invariant of TermsHold: that of each crate, for its corrected code.
TermsInv ==
    /\ Promises("airdrop_expiry_ignored", Expiry_Inv)
    /\ Promises("underfunded_reward_pool", Pool_Inv)
    /\ Promises("repay_for_reward_grief", Grief_Inv)
    /\ Promises("interest_index_reset", Index_Inv)
    /\ Promises("borrow_without_accrual", Accrual_Inv)
    /\ Promises("borrow_cap_asset_mixup", Mixup_Inv)
    /\ Promises("bridge_validator_quorum_missing", Validators_Inv)
    /\ Promises("batch_pause_bypass", Batch_Inv)
    /\ Promises("incomplete_blacklist", Blacklist_Inv)

\* Every deployment satisfies it.
LEMMA TermsInitially == Init => TermsInv
<1> SUFFICES ASSUME now = 0, Deployed PROVE TermsInv
    BY DEF Init
<1>1. Promises("airdrop_expiry_ignored", Expiry_Inv)
    BY Expiry_Correct, TermsCrates DEF Promises
<1>2. Promises("underfunded_reward_pool", Pool_Inv)
    BY Pool_Correct, TermsCrates DEF Promises
<1>3. Promises("repay_for_reward_grief", Grief_Inv)
    BY Grief_Correct, TermsCrates DEF Promises
<1>4. Promises("interest_index_reset", Index_Inv)
    BY Index_Correct, TermsCrates DEF Promises
<1>5. Promises("borrow_without_accrual", Accrual_Inv)
    BY Accrual_Correct, TermsCrates DEF Promises
<1>6. Promises("borrow_cap_asset_mixup", Mixup_Inv)
    BY Mixup_Correct, TermsCrates DEF Promises
<1>7. Promises("bridge_validator_quorum_missing", Validators_Inv)
    BY Validators_Correct, TermsCrates DEF Promises
<1>8. Promises("batch_pause_bypass", Batch_Inv)
    BY Batch_Correct, TermsCrates DEF Promises
<1>9. Promises("incomplete_blacklist", Blacklist_Inv)
    BY Blacklist_Correct, TermsCrates DEF Promises
<1> QED BY <1>1, <1>2, <1>3, <1>4, <1>5, <1>6, <1>7, <1>8, <1>9 DEF TermsInv

\* Every step keeps it, and is a step the promises allow.
LEMMA TermsKept ==
    ASSUME TermsInv, [Next]_vars
    PROVE  TermsInv'
<1>1. UNCHANGED <<crate, code>>
    BY StaysDeployed
<1>2. Promises("airdrop_expiry_ignored", Expiry_Inv)'
    BY <1>1, Expiry_Correct, TermsCrates DEF TermsInv, Promises, Secure
<1>3. Promises("underfunded_reward_pool", Pool_Inv)'
    BY <1>1, Pool_Correct, TermsCrates DEF TermsInv, Promises, Secure
<1>4. Promises("repay_for_reward_grief", Grief_Inv)'
    BY <1>1, Grief_Correct, TermsCrates DEF TermsInv, Promises, Secure
<1>5. Promises("interest_index_reset", Index_Inv)'
    BY <1>1, Index_Correct, TermsCrates DEF TermsInv, Promises, Secure
<1>6. Promises("borrow_without_accrual", Accrual_Inv)'
    BY <1>1, Accrual_Correct, TermsCrates DEF TermsInv, Promises, Secure
<1>7. Promises("borrow_cap_asset_mixup", Mixup_Inv)'
    BY <1>1, Mixup_Correct, TermsCrates DEF TermsInv, Promises, Secure
<1>8. Promises("bridge_validator_quorum_missing", Validators_Inv)'
    BY <1>1, Validators_Correct, TermsCrates DEF TermsInv, Promises, Secure
<1>9. Promises("batch_pause_bypass", Batch_Inv)'
    BY <1>1, Batch_Correct, TermsCrates DEF TermsInv, Promises, Secure
<1>10. Promises("incomplete_blacklist", Blacklist_Inv)'
    BY <1>1, Blacklist_Correct, TermsCrates DEF TermsInv, Promises, Secure
<1> QED BY <1>2, <1>3, <1>4, <1>5, <1>6, <1>7, <1>8, <1>9, <1>10 DEF TermsInv

LEMMA TermsSteps ==
    ASSUME TermsInv, [Next]_vars
    PROVE
      /\ Promises("airdrop_expiry_ignored", Expiry_ClosedPaysNobody)
      /\ Promises("underfunded_reward_pool", Pool_WindowEnds)
      /\ Promises("repay_for_reward_grief", Grief_RepaymentKeepsReward)
      /\ Promises("interest_index_reset", Index_DebtKeepsGrowing)
      /\ Promises("borrow_without_accrual", Accrual_WithinLimit)
      /\ Promises("borrow_cap_asset_mixup", Mixup_LoansWithinOwnCap)
      /\ Promises("bridge_validator_quorum_missing", Validators_QuorumReplaces)
      /\ Promises("batch_pause_bypass", Batch_PausedMovesNothing)
      /\ Promises("incomplete_blacklist", Blacklist_ListedIsFrozen)
<1>1. Promises("airdrop_expiry_ignored", Expiry_ClosedPaysNobody)
    BY Expiry_Correct, TermsCrates DEF TermsInv, Promises
<1>2. Promises("underfunded_reward_pool", Pool_WindowEnds)
    BY Pool_Correct, TermsCrates DEF TermsInv, Promises
<1>3. Promises("repay_for_reward_grief", Grief_RepaymentKeepsReward)
    BY Grief_Correct, TermsCrates DEF TermsInv, Promises
<1>4. Promises("interest_index_reset", Index_DebtKeepsGrowing)
    BY Index_Correct, TermsCrates DEF TermsInv, Promises
<1>5. Promises("borrow_without_accrual", Accrual_WithinLimit)
    BY Accrual_Correct, TermsCrates DEF TermsInv, Promises
<1>6. Promises("borrow_cap_asset_mixup", Mixup_LoansWithinOwnCap)
    BY Mixup_Correct, TermsCrates DEF TermsInv, Promises
<1>7. Promises("bridge_validator_quorum_missing", Validators_QuorumReplaces)
    BY Validators_Correct, TermsCrates DEF TermsInv, Promises
<1>8. Promises("batch_pause_bypass", Batch_PausedMovesNothing)
    BY Batch_Correct, TermsCrates DEF TermsInv, Promises
<1>9. Promises("incomplete_blacklist", Blacklist_ListedIsFrozen)
    BY Blacklist_Correct, TermsCrates DEF TermsInv, Promises
<1> QED BY <1>1, <1>2, <1>3, <1>4, <1>5, <1>6, <1>7, <1>8, <1>9

\* Debts grow, claim windows close, borrow caps, pauses and listings hold, and
\* validators are replaced, only by the rules in force before the step. A
\* reward window ends in a claim that pays all of it or in a new stake of the
\* staker, which forfeits it.
THEOREM TermsHoldAlways == Spec => TermsHold
<1>1. TermsInv /\ [Next]_vars => [
    /\ Promises("airdrop_expiry_ignored", Expiry_ClosedPaysNobody)
    /\ Promises("underfunded_reward_pool", Pool_WindowEnds)
    /\ Promises("repay_for_reward_grief", Grief_RepaymentKeepsReward)
    /\ Promises("interest_index_reset", Index_DebtKeepsGrowing)
    /\ Promises("borrow_without_accrual", Accrual_WithinLimit)
    /\ Promises("borrow_cap_asset_mixup", Mixup_LoansWithinOwnCap)
    /\ Promises("bridge_validator_quorum_missing", Validators_QuorumReplaces)
    /\ Promises("batch_pause_bypass", Batch_PausedMovesNothing)
    /\ Promises("incomplete_blacklist", Blacklist_ListedIsFrozen)
    ]_vars
    BY TermsSteps
<1> QED BY <1>1, TermsInitially, TermsKept, PTL DEF Spec, TermsHold
=============================================================================

----------------------------- MODULE MCFixtures -----------------------------
(***************************************************************************)
(* All fixture families and the small contracts of secure/, side by side.  *)
(* A behaviour deploys one contract of one crate.  The properties gather   *)
(* the promises of the corrected code by what they protect.                *)
(***************************************************************************)
EXTENDS Claims, Rewards, Lending, Vaults, Markets, Bridges, Tokens, Permits, Admins, Governance, Scanners, Calls, Oracles, Mirrors

Deployed ==
    \/ Expiry_Init \/ Start_Init \/ Campaign_Init \/ Leaf_Init \/ Epoch_Init
    \/ Revoked_Init \/ Subtract_Init \/ Cliff_Init \/ Pool_Init \/ Rate_Init
    \/ Commission_Init \/ Slash_Init \/ Checkpoint_Init
    \/ Grief_Init \/ Index_Init \/ Factor_Init \/ Accrual_Init \/ Uncapped_Init
    \/ Round_Init \/ Mixed_Init \/ Mixup_Init \/ Health_Init
    \/ Skim_Init \/ Rebase_Init \/ Rescue_Init \/ Emergency_Init \/ Inflation_Init
    \/ Donation_Init \/ Cap_Init \/ Units_Init \/ Leak_Init \/ ZeroShare_Init
    \/ FreeShare_Init
    \/ Order_Init \/ Buy_Init \/ Royalty_Init \/ Self_Init \/ Operator_Init
    \/ Discount_Init \/ Early_Init \/ Refund_Init \/ Increment_Init \/ Approval_Init
    \/ Overdraw_Init \/ Slippage_Init
    \/ Wrap_Init \/ Validators_Init \/ Chain_Init \/ Nonce_Init \/ Proof_Init
    \/ Allow_Init \/ Fake_Init \/ Supply_Init
    \/ Supplied_Init \/ Batch_Init \/ Blacklist_Init \/ Partial_Init \/ Ttl_Init
    \/ Lottery_Init \/ FeeIn_Init \/ SelfIn_Init \/ Negative_Init \/ Precision_Init
    \/ Domain_Init \/ Deadline_Init \/ Signer_Init \/ Overwrite_Init \/ Before_Init
    \/ Decrement_Init \/ Listing_Init \/ Replay_Init \/ Delegation_Init
    \/ Pending_Init \/ Accept_Init \/ Role_Init \/ Enforce_Init \/ Plugin_Init
    \/ Collector_Init \/ Own_Init \/ Sweep_Init \/ Rug_Init \/ Beneficiary_Init
    \/ Config_Init
    \/ Quorum_Init \/ Weight_Init \/ Timelock_Init \/ Target_Init \/ Voting_Init
    \/ Queue_Init \/ Cancel_Init \/ Collision_Init
    \/ Imper_Init \/ Fee_Init \/ Archive_Init \/ Worst_Init \/ Threshold_Init
    \/ Trust_Init \/ Unbound_Init
    \/ Reenter_Init \/ Hook_Init \/ Callback_Init \/ Ignored_Init \/ Swallow_Init
    \/ Repay_Init \/ FlashFee_Init \/ Receiver_Init \/ NoCheck_Init
    \/ Twap_Init \/ Future_Init \/ Stale_Init \/ Scale_Init \/ Setter_Init
    \/ Breaker_Init \/ Confidence_Init
    \/ Vault_Init \/ Transfer_Init \/ Burn_Init \/ Pausable_Init \/ Escrow_Init
    \/ Dust_Init \/ Staking_Init \/ Position_Init \/ Airdrop_Init \/ Pages_Init

Init == now = 0 /\ code \in {"lib", "secure"} /\ Deployed

Next ==
    \/ Expiry_Next \/ Start_Next \/ Campaign_Next \/ Leaf_Next \/ Epoch_Next
    \/ Revoked_Next \/ Subtract_Next \/ Cliff_Next \/ Pool_Next \/ Rate_Next
    \/ Commission_Next \/ Slash_Next \/ Checkpoint_Next
    \/ Grief_Next \/ Index_Next \/ Factor_Next \/ Accrual_Next \/ Uncapped_Next
    \/ Round_Next \/ Mixed_Next \/ Mixup_Next \/ Health_Next
    \/ Skim_Next \/ Rebase_Next \/ Rescue_Next \/ Emergency_Next \/ Inflation_Next
    \/ Donation_Next \/ Cap_Next \/ Units_Next \/ Leak_Next \/ ZeroShare_Next
    \/ FreeShare_Next
    \/ Order_Next \/ Buy_Next \/ Royalty_Next \/ Self_Next \/ Operator_Next
    \/ Discount_Next \/ Early_Next \/ Refund_Next \/ Increment_Next \/ Approval_Next
    \/ Overdraw_Next \/ Slippage_Next
    \/ Wrap_Next \/ Validators_Next \/ Chain_Next \/ Nonce_Next \/ Proof_Next
    \/ Allow_Next \/ Fake_Next \/ Supply_Next
    \/ Supplied_Next \/ Batch_Next \/ Blacklist_Next \/ Partial_Next \/ Ttl_Next
    \/ Lottery_Next \/ FeeIn_Next \/ SelfIn_Next \/ Negative_Next \/ Precision_Next
    \/ Domain_Next \/ Deadline_Next \/ Signer_Next \/ Overwrite_Next \/ Before_Next
    \/ Decrement_Next \/ Listing_Next \/ Replay_Next \/ Delegation_Next
    \/ Pending_Next \/ Accept_Next \/ Role_Next \/ Enforce_Next \/ Plugin_Next
    \/ Collector_Next \/ Own_Next \/ Sweep_Next \/ Rug_Next \/ Beneficiary_Next
    \/ Config_Next
    \/ Quorum_Next \/ Weight_Next \/ Timelock_Next \/ Target_Next \/ Voting_Next
    \/ Queue_Next \/ Cancel_Next \/ Collision_Next
    \/ Imper_Next \/ Fee_Next \/ Archive_Next \/ Worst_Next \/ Threshold_Next
    \/ Trust_Next \/ Unbound_Next
    \/ Reenter_Next \/ Hook_Next \/ Callback_Next \/ Ignored_Next \/ Swallow_Next
    \/ Repay_Next \/ FlashFee_Next \/ Receiver_Next \/ NoCheck_Next
    \/ Twap_Next \/ Future_Next \/ Stale_Next \/ Scale_Next \/ Setter_Next
    \/ Breaker_Next \/ Confidence_Next
    \/ Vault_Next \/ Transfer_Next \/ Burn_Next \/ Pausable_Next \/ Escrow_Next
    \/ Dust_Next \/ Staking_Next \/ Position_Next \/ Airdrop_Next \/ Pages_Next

Spec == Init /\ [][Next]_vars

\* What the corrected code of a crate promises; nothing is promised of the
\* fixture beside it.
Promises(c, promise) == (Secure /\ crate = c) => promise

\* Airdrops, vesting and staking pay what was earned, once, and out of what
\* was set aside for it, whatever is revoked, repeated or late.
ClaimsAreEarned ==
    /\ Promises("airdrop_claim_before_start", Start_PaidAfterStart)
    /\ Promises("airdrop_campaign_collision", Campaign_OwedIsClaimable)
    /\ Promises("merkle_leaf_missing_amount", Leaf_PaidAsListed)
    /\ Promises("epoch_claim_no_advance", Epoch_PaidOnce)
    /\ Promises("revoked_vesting_claim", Revoked_PaidIsVested)
    /\ Promises("vesting_claimed_not_subtracted", Subtract_PaidIsClaimed)
    /\ Promises("vesting_cliff_after_end", Cliff_CompleteAtEnd)
    /\ Promises("underfunded_reward_pool", Pool_Solvent)
    /\ Promises("zero_reward_rate", Rate_IsAnnounced)
    /\ Promises("validator_commission_uncapped", Commission_IsAPart)
    /\ Promises("slash_without_evidence", Slash_OnlyProven)
    /\ Promises("reward_checkpoint_missing", Checkpoint_EarnsFromDeposit)

\* A sale, an auction or an escrow ends as both sides agreed to it.
SalesAreAsAgreed ==
    /\ Promises("canceled_listing_fillable", Order_CanceledIsFinal)
    /\ Promises("buy_without_listing", Buy_AtListedPrice)
    /\ Promises("royalty_recipient_mutable", Royalty_ToListedRecipient)
    /\ Promises("seller_self_purchase", Self_RewardsAreTrade)
    /\ Promises("nft_operator_collection_mixup", Operator_MovesApproved)
    /\ Promises("royalty_discount_miscalc", Discount_RoyaltyOfPrice)
    /\ Promises("auction_close_early", Early_ClosedAfterEnd)
    /\ Promises("auction_refund_block", Refund_NoBidLost)
    /\ Promises("auction_min_increment_missing", Increment_EachBidRaises)
    /\ Promises("single_approval_escrow_release", Approval_BothAgreed)
    /\ Promises("escrow_balance_check", Overdraw_WithinDeposits)
    /\ Promises("no_slippage", Slippage_PaidAsQuoted)

\* Wrapped and bridged tokens are minted once, for this chain, and against
\* something that backs them.
MintedIsBacked ==
    /\ Promises("unwrap_without_burn", Wrap_Backed)
    /\ Promises("bridge_chainid_missing", Chain_MintedForHere)
    /\ Promises("bridge_nonce_global", Nonce_PerChain)
    /\ Promises("bridge_partial_mint_replay", Proof_MintsOnce)
    /\ Promises("wrapped_asset_allowlist_bypass", Allow_BackedByAllowed)
    /\ Promises("fake_token_registration", Fake_SymbolNamesOneToken)
    /\ Promises("uncapped_supply", Supply_Capped)

\* The books of a vault, a pool or a token account for all that its callers put
\* in and took out.  Accounting is not covering: a skimmed donation was never
\* added to what the vault holds, and an overdrawn account is owed by the others.
BooksAreHeld ==
    /\ Promises("admin_skim_donations", Skim_OnlyDonations)
    /\ Promises("rebasing_token_accounting", Rebase_SharesOwnTheBalance)
    /\ Promises("rescue_primary_asset", Rescue_OwedIsHeld)
    /\ Promises("vault_donation_accounting", Donation_SharesAreDeposits)
    /\ Promises("deposit_cap_wrong_amount", Cap_WithinCap)
    /\ Promises("sequence_as_timestamp", Units_OpenWhenDue)
    /\ Promises("collateral_factor_over_100", Factor_Covered)
    /\ Promises("uncapped_rate", Uncapped_PaysWithinCap)
    /\ Promises("liquidation_dust_rounding", Round_EachHalves)
    /\ Promises("mixed_collateral_decimals", Mixed_DebtIsCovered)
    /\ Promises("collateral_withdraw_no_health_check", Health_DebtIsCovered)
    /\ Promises("caller_supplied_ledger", Supplied_VestsByRealLedgers)
    /\ Promises("batch_partial_failure", Partial_AllOrNothing)
    /\ Promises("ttl_bump_index_only", Ttl_IndexedHasRecord)
    /\ Promises("weak_randomness", Lottery_DrawnFromReveals)
    /\ Promises("fee_on_transfer", FeeIn_OwedIsHeld)
    /\ Promises("self_deposit", SelfIn_NothingStranded)
    /\ Promises("negative_fee_bps", Negative_FeesNeverPay)
    /\ Promises("fee_precision_loss", Precision_EachTransferPays)

\* No step takes from those who did not take part in it: rounding, a donation
\* or an exit leaves the others' shares worth what they were, a rebase is borne
\* by all in proportion, and only its owner or the admin ends a lock.
SharesKeepTheirWorth == [][
    /\ Promises("rebasing_token_accounting", Rebase_OthersKeepTheirs)
    /\ Promises("unprotected_emergency_withdraw", Emergency_ByOwnerOrAdmin)
    /\ Promises("withdraw_rounding_leak", PriceKept)
    /\ Promises("zero_share_rounding", ZeroShare_DepositorGains)
    /\ Promises("free_share_rounding", FreeShare_PriceKept)
    /\ Promises("empty_vault_share_inflation", Inflation_PriceKept)
    ]_vars

\* Debts grow, windows end, pauses and listings hold and validators are
\* replaced only by the rules in force before the step.
TermsHold == [][
    /\ Promises("airdrop_expiry_ignored", Expiry_ClosedPaysNobody)
    /\ Promises("underfunded_reward_pool", Pool_WindowEnds)
    /\ Promises("repay_for_reward_grief", Grief_RepaymentKeepsReward)
    /\ Promises("interest_index_reset", Index_DebtKeepsGrowing)
    /\ Promises("borrow_without_accrual", Accrual_WithinLimit)
    /\ Promises("borrow_cap_asset_mixup", Mixup_LoansWithinOwnCap)
    /\ Promises("bridge_validator_quorum_missing", Validators_QuorumReplaces)
    /\ Promises("batch_pause_bypass", Batch_PausedMovesNothing)
    /\ Promises("incomplete_blacklist", Blacklist_ListedIsFrozen)
    ]_vars

\* Whatever was drawn, handed over, swept or called was signed for by the
\* account it needed, in time and for this very use.
OnlyAsSigned ==
    /\ Promises("permit_domain_missing", Domain_DigestsDistinct)
    /\ Promises("permit_deadline_ignored", Deadline_PermitsInTime)
    /\ Promises("nonzero_allowance_overwrite", Overwrite_GrantsAccountedFor)
    /\ Promises("allowance_before_balance", GrantsAddUp)
    /\ Promises("allowance_not_decremented", GrantsAddUp)
    /\ Promises("listing_price_signature_gap", Listing_AtSignedPrice)
    /\ Promises("replay_attack", Replay_ExecutedOnce)
    /\ Promises("stale_pending_admin", Pending_OfferStands)
    /\ Promises("accept_admin_missing_auth", Accept_AdminConsents)
    /\ Promises("public_role_grant", Role_OperatorsAreGranted)
    /\ Promises("operator_role_not_enforced", Enforce_OnlyTheOperatorTakes)
    /\ Promises("unvalidated_plugin_call", Plugin_RanWereApproved)
    /\ Promises("unchecked_fee_collector", Collector_IsApproved)
    /\ Promises("self_fee_collector", Own_FeesHaveAnOwner)
    /\ Promises("public_token_sweep", Sweep_ByTheAdmin)
    /\ Promises("admin_rugpull", Rug_NothingTaken)
    /\ Promises("hardcoded_beneficiary", Beneficiary_PaidAsNamed)
    /\ Promises("partial_config_clear", Config_KeepsWhatIsNotNamed)

\* What governance executes and what scanners publish is what was decided,
\* by the votes, delays and reports that count.
DecisionsStand ==
    /\ Promises("quorum_current_supply", Quorum_OfItsCreation)
    /\ Promises("delegation_weight_no_snapshot", Weight_OfItsVotes)
    /\ Promises("admin_timelock_rewrite", Timelock_RunsWhatWasReviewed)
    /\ Promises("governance_target_unvalidated", Target_CallsAllowed)
    /\ Promises("vote_after_deadline", Voting_TallyInTime)
    /\ Promises("execute_without_queue", Queue_ExecutedAfterDelay)
    /\ Promises("proposal_id_collision", Collision_EachKeepsItsVotes)
    /\ Promises("scanner_impersonation", Imper_HistoryIsSigned)
    /\ Promises("scanner_fee_unverified", Fee_ArrivedInFull)
    /\ Promises("public_archive_restore", Archive_ActiveByAdmin)
    /\ Promises("scan_result_overwrite", Worst_NeverForgotten)
    /\ Promises("verifier_threshold_ignored", Threshold_FinalIsApproved)
    /\ Promises("severity_reporter_trust", Trust_RiskFromReputed)
    /\ Promises("report_hash_unbound_contract", Unbound_ReportsAsSigned)

\* A contract that calls out has its books right when the call is over, also
\* when the callee calls back or fails.  The escrow of ignored_return is the
\* exception: a transfer that fails in silence leaves it released and unpaid.
CallsLeaveBooksRight ==
    /\ Promises("reentrancy", Reenter_WithdrawalsCharged)
    /\ Promises("recursive_hook_depth", Hook_Flat)
    /\ Promises("callback_before_invariant", Callback_BalanceIsReal)
    /\ Promises("ignored_return", Ignored_ReleasedOnce)
    /\ Promises("cross_call_error_swallowed", Swallow_CreditIsMoved)
    /\ Promises("flash_repay_wrong_token", Repay_HeldInKind)
    /\ Promises("flash_receiver_unchecked", Receiver_FeesCollected)
    /\ Promises("flash_loan_no_check", NoCheck_PoolKept)

\* A price that is used is recent, in scale and from a listed source, and one
\* observation counts for one share of those averaged.
PricesAreSound ==
    /\ Promises("twap_window_too_short", Twap_OneObservationIsOneShare)
    /\ Promises("future_oracle_timestamp", Future_PriceOfRecentPast)
    /\ Promises("stale_oracle", Stale_PriceOfRecentPast)
    /\ Promises("oracle_price_scale_mismatch", Scale_CreditedAtWorth)
    /\ Promises("untrusted_oracle_setter", Setter_OracleIsListed)
    /\ Promises("oracle_confidence_ignored", Confidence_BandsArePositive)

\* What the balances, stakes, positions and rounds of the small contracts add
\* up to over any sequence of calls, the calls the code should refuse included.
MirrorsAddUp ==
    /\ Promises("secure_vault", Vault_SumIsExplained)
    /\ Promises("secure_transfer", Transfer_Conserves)
    /\ Promises("secure_burn", Burn_Conserves)
    /\ Promises("secure_pausable", Pausable_SumIsExplained)
    /\ Promises("secure_escrow", Escrow_Conserves)
    /\ Promises("dust_griefing", Dust_EntriesAreWorthIt)
    /\ Promises("secure_staking", Staking_LedgersPaidOnce)
    /\ Promises("secure_lending", Position_DebtsAreCovered)
    /\ Promises("secure_airdrop", Airdrop_OneLeafPaid)
    /\ Promises("paginated_airdrop", Pages_WalksCreditOnce)

\* A delegation ends, a cancellation is the proposer's or the admin's, a loan
\* costs nothing, a price moves within its band, a pause that was made holds.
StepsWithinRights == [][
    /\ Promises("delegate_signer_mismatch", Signer_DelegateDraws)
    /\ Promises("expired_delegation", Delegation_Ends)
    /\ Promises("public_proposal_cancel", Cancel_ByItsOwn)
    /\ Promises("flash_fee_not_collected", FlashFee_NothingLeaves)
    /\ Promises("inactive_circuit_breaker", Breaker_MovesAreBounded)
    /\ Promises("secure_pausable", Pausable_PauseHolds)
    ]_vars

\* The corrected lottery alone.
LotterySpec == now = 0 /\ Secure /\ Lottery_Init /\ [][Lottery_Next]_vars

\* The corrected vault of admin_skim_donations alone.
SkimSpec == now = 0 /\ Secure /\ Skim_Init /\ [][Skim_Next]_vars
=============================================================================

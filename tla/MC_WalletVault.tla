--------------------------- MODULE MC_WalletVault ----------------------------
(* Small instances of the wallet vault.                                    *)
EXTENDS WalletVault, TLC

\* Wallets, keys and calls are only ever compared.
SymmetricVault == Permutations(Wallet) \cup Permutations(Key) \cup Permutations(Call)
=============================================================================

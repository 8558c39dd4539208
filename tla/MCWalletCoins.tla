--------------------------- MODULE MCWalletCoins ---------------------------
(* A wallet with one coin, which pays and stakes. *)
EXTENDS WalletCoins

(* CoinsNotLost, without the one cause: violated when a branch with a stake *)
(* of the wallet is connected and then given up.                            *)
NoCoinLost ==
    op = Idle => vfSpent \subseteq Spends(Pays \cup Confirmed(chain))

(* SpentCoinsKnown, without the exception for the other half of a split     *)
(* stake: violated when a restart skips the coinstake.                      *)
EverySpentCoinKnown ==
    op = Idle /\ "badreorg" \notin faults => Spends(Confirmed(chain)) \subseteq vfSpent
=============================================================================

----------------------- MODULE MCInventoryReservations -----------------------
(* Small instances of InventoryReservations for TLC.                         *)
EXTENDS InventoryReservations, TLC

CONSTANTS vid1, vid2, plain, vid3, acc1, acc2, fam, none, k1

(* vid1, vid2 and vid3 are siblings of one source family; plain carries no   *)
(* identity.                                                                 *)
Siblings == (vid1 :> fam) @@ (vid2 :> fam)
ThreeSiblings == (vid3 :> fam) @@ Siblings
PairAndUnidentified == (plain :> none) @@ Siblings

MCPair == [first |-> vid1, second |-> vid2, firstTo |-> acc1, secondTo |-> acc2]
MCPairs == {MCPair}
NoPairs == {}
Hashed == Assets

Ask(a, to, k) == [asset |-> a, account |-> to, key |-> k]
SiblingRequests == {Ask(vid1, acc1, NoKey), Ask(vid1, NoAccount, NoKey), Ask(vid2, acc2, NoKey)}
ThirdRequests == {Ask(vid3, acc1, NoKey)}
OriginRequests == {Ask(plain, acc1, k1), Ask(plain, acc2, NoKey), Ask(vid2, acc1, k1)}
HashedFirst == {vid1}
HashedButSecond == {vid1, vid3}
SameWorkers == Permutations(Workers)
=============================================================================

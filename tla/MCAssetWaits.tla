---------------------------- MODULE MCAssetWaits ----------------------------
(* An instance of AssetWaits: a planned run of a and b, and a run without  *)
(* a plan of c and, after it, of an asset a of the same name.              *)
EXTENDS AssetWaitsInvariant, TLC

CONSTANTS r1, r2, a, b, c, t1, t2, t3, t4

MCRunOf == t1 :> r1 @@ t2 :> r1 @@ t3 :> r2 @@ t4 :> r2
MCAssetOf == t1 :> a @@ t2 :> b @@ t3 :> c @@ t4 :> a
MCAfter == t1 :> {} @@ t2 :> {} @@ t3 :> {} @@ t4 :> {t3}
=============================================================================

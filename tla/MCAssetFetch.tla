----------------------------- MODULE MCAssetFetch -----------------------------
(***************************************************************************)
(* The instance of AssetFetch that TLC checks: everything may go wrong.    *)
(***************************************************************************)
EXTENDS AssetFetch

AllFaults == {"hang", "garbage", "crash", "sql"}
================================================================================

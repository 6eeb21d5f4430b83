---------------------------- MODULE MCPrepareStat ---------------------------
(***************************************************************************)
(* The instance of PrepareStat for TLC: three ids, one of them of no sku,  *)
(* in two batches, on the database and the events of MCStockService.       *)
(***************************************************************************)
EXTENDS PrepareStat, MCStockService
=============================================================================

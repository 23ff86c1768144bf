-------------------------- MODULE MCBackfillValidation --------------------------
(***************************************************************************)
(* A backfill of one clean batch, validated while two jobs merge it and a  *)
(* second batch, which is newer on one key by extraction though ingested   *)
(* earlier, older on another by ingestion and on a third by extraction,    *)
(* tied up to the hash on the fourth, and holds an older row before a      *)
(* winner, identical occurrences and a rejected row.  The instance of the  *)
(* report has one job and an earlier ingestion of the backfill's content,  *)
(* whose rows count as exact.                                              *)
(***************************************************************************)
EXTENDS BackfillValidation, TLC

CONSTANTS k1, k2, k3, k4, m1, m2, m3

R(k, version, extract, ingested, hash, manifest, locator, reason) ==
  [ key |-> k, version |-> version, extract |-> extract, ingested |-> ingested,
    hash |-> hash, manifest |-> manifest, locator |-> locator, reason |-> reason ]

Backfill ==
  [ manifest |-> m1,
    rows |-> { R(k1, 2, 1, 2, 3, m1, 1, "none"),
               R(k2, 2, 0, 2, 4, m1, 2, "none"),
               R(k3, 1, 1, 1, 1, m1, 3, "none"),
               R(k4, 1, 1, 1, 1, m1, 4, "none") } ]

Correction ==
  [ manifest |-> m2,
    rows |-> { R(k1, 1, 4, 1, 6, m2, 1, "none"),
               R(k1, 2, 3, 1, 2, m2, 2, "none"),
               R(k1, 2, 3, 1, 2, m2, 3, "none"),
               R(k1, 2, 3, 1, 2, m2, 4, "none"),
               R(k2, 2, 0, 1, 5, m2, 5, "none"),
               R(k2, 3, 1, 1, 7, m2, 6, "unknown_country_reference"),
               R(k3, 1, 1, 1, 2, m2, 7, "none"),
               R(k4, 1, 0, 1, 2, m2, 8, "none") } ]

Earlier ==
  [ manifest |-> m3,
    rows |-> { R(k1, 2, 1, 0, 3, m3, 1, "none"),
               R(k2, 2, 0, 0, 4, m3, 2, "none"),
               R(k3, 1, 1, 0, 1, m3, 3, "none"),
               R(k4, 1, 1, 0, 1, m3, 4, "none") } ]

MCBatches == {Backfill, Correction}

MCRequests == {{Backfill}, {Backfill, Correction}}

MCReportBatches == {Backfill, Correction, Earlier}

MCReportRequests == {{Backfill}, {Backfill, Earlier}}

Symmetry == Permutations(Jobs)
================================================================================

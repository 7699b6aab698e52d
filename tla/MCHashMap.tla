------------------------------ MODULE MCHashMap ------------------------------
(***************************************************************************)
(* The hash map on a table of four buckets that grows to eight and to      *)
(* sixteen.  Items 1 and 2 have the same hash; the others meet in a home   *)
(* bucket of the small table and part in a larger one, and the last homes  *)
(* make runs wrap around the end.                                          *)
(***************************************************************************)
EXTENDS HashMap

mcHash(item) == <<3, 3, 7, 15, 0, 4, 2, 6>>[item]
=============================================================================

--------------------------- MODULE MCCatalogFish ----------------------------
(* The discovery and two queries: the list of children grows once while an *)
(* earlier query runs, and the file with the PIDs is written twice.        *)
EXTENDS CatalogFish

=============================================================================

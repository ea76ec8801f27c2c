------------------------- MODULE MCStoragePreflight -------------------------
(* A small machine for StoragePreflight: integers of five bits, a gibibyte *)
(* of four units, disks of up to three gibibytes.                          *)
EXTENDS StoragePreflight

MCValues == {0, 1, 3, 4, 9, 12, 13}
MCMultipliers == {1, 4}
MCISOSizes == {2, 7}
MCStorages == {1, 2}
=============================================================================

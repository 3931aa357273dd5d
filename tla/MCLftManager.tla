---------------------------- MODULE MCLftManager ----------------------------
(* A partition with two mount points and two files.                        *)
EXTENDS LftManager

MCMountPoint == 1..2
MCInit == {"f"}
MCDisk == {"f"}
=============================================================================

--------------------------- MODULE MCHwBufAllocator ---------------------------
(* HwBufAllocator for TLC: two zones so that one can be recycled for the   *)
(* other, two threads, three buffers so that a zone can have one buffer    *)
(* out and one free while the other zone has one too.                      *)
EXTENDS HwBufAllocator
===============================================================================

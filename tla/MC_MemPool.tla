----------------------------- MODULE MC_MemPool -----------------------------
(* A small pool: 48 usable bytes a block, three blocks, two large chunks.    *)
EXTENDS MemPool, TLC

MCPoolSize == 80
MCHeaderSize == 32
MCLargeHdrSize == 24
MCPageSize == 4096
MCWord == 65536
MCSizes == {0, 12, 48, 49}
=============================================================================

--------------------------- MODULE MCFileTransfer ---------------------------
(* Instance of FileTransfer for TLC: a frame is shorter and longer than the  *)
(* bytes a truncated file can lack, and the longest file is over the limit.  *)
EXTENDS FileTransfer
=============================================================================

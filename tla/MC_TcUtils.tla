---------------------------- MODULE MC_TcUtils ----------------------------
(* Model values and bounds for checking TcUtils; MAX_READ_COUNT and      *)
(* MAX_WRITE_COUNT (10 in the code) are scaled down with the batches.     *)
EXTENDS TcUtils

CONSTANTS f1, NoPath, NOENT, EIO
MCFiles  == {f1}
MCErrors == {NOENT, EIO}
=============================================================================

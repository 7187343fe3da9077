------------------------------ MODULE MCManager ------------------------------
(* The program's own source, which keeps to its timeout, and its sink,     *)
(* which never fails; and a source that may hang, a sink that may fail.    *)
EXTENDS Manager

AllSettings == [mayHang : BOOLEAN, sinkFails : BOOLEAN]
OwnSetting == [mayHang : {FALSE}, sinkFails : {FALSE}]
=============================================================================

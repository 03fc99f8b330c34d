---------------------------- MODULE MCFtpClient ----------------------------
(***************************************************************************)
(* A client in front of a server that says what it pleases.                *)
(***************************************************************************)
EXTENDS FtpClient

Numbers == [good |-> 1, zero |-> 0, wide |-> 5, bad |-> -1]

TransferInputs == {Request("RETR")}
=============================================================================

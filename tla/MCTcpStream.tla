---------------------------- MODULE MCTcpStream ----------------------------
(***************************************************************************)
(* Finite instances of TcpStream.                                          *)
(***************************************************************************)
EXTENDS TcpStream

MCByte == ((1 .. MaxMsgs) \X (1 .. MsgLen)) \cup {Blank}
=============================================================================

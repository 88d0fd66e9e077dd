---------------------------- MODULE MCWebSocket ----------------------------
(***************************************************************************)
(* Lengths on both sides of every limit of the frame format and of         *)
(* MAX_BINARY_FRAME_SIZE, and every opcode the reader tells apart.         *)
(***************************************************************************)
EXTENDS WebSocket

MCLengths ==
  {0, 1, 2, 125, 126, 127, 128, 255, 256, 257, 4096, 16383, 16384, 16385,
   16509, 16510, 32768, 32769, 65535, 65536, 65537, 100000}
MCMessages == [op : {TEXT, BINARY}, len : MCLengths]
MCClientFrames ==
  [fin : BOOLEAN, op : {CONTINUATION, TEXT, BINARY, 3, CLOSE, PING, PONG},
   len : {1}, masked : {TRUE}]
  \cup [fin : {TRUE}, op : {TEXT}, len : {0, 125, 126, 65535, 65536},
        masked : {FALSE}]
MCNone == {}
=============================================================================

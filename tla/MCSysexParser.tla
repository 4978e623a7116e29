----------------------------- MODULE MCSysexParser -----------------------------
(* Other makers' messages: empty, short, and longer than the buffer; and   *)
(* two for the device that the editor does not send: one cut before the    *)
(* checksum, and one too long.                                             *)
EXTENDS SysexParser

MCOthers == {<<>>, <<1, Save, 1, 1>>, <<1, Save, 3, 4, 5, 6, 7>>,
             <<Id, SetMode, 1>>, <<Id, SetMode, 1, 1, 1, 1, 1>>}
================================================================================

----------------------------- MODULE MCSerialQueue -----------------------------
(* Two producers (a frame handler and the main loop) and the write thread of *)
(* a port, on a ring of a few rows.                                          *)
EXTENDS SerialQueue

CONSTANTS handler, mainloop, writer, l1, l2

MCProducers == {handler, mainloop}
MCConsumers == {writer}
MCLines     == {l1, l2}

================================================================================

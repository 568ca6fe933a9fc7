----------------------------- MODULE MCCapture -----------------------------
(***************************************************************************)
(* A small instance of Capture: two sequence numbers, chunks of two        *)
(* instants, and three different chunks a client may send.                 *)
(***************************************************************************)
EXTENDS Capture, TLC

Kind(id, len, package, text) ==
  [id |-> id, len |-> len, package |-> package, speech |-> TRUE, text |-> text]

SmallSent == (0 :> {Kind(1, 2, "valid", TRUE), Kind(2, 1, "invalid", FALSE)}) @@
             (1 :> {Kind(3, 2, "other", FALSE)})
=============================================================================

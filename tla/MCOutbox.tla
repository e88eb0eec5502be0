------------------------------ MODULE MCOutbox ------------------------------
(***************************************************************************)
(* Outbox on small instances.                                              *)
(***************************************************************************)
EXTENDS Outbox

\* The last message carries an attachment.
MCWithFile == {Messages}
MCNoFile == {}
=============================================================================

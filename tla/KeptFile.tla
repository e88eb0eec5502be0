------------------------------ MODULE KeptFile ------------------------------
(***************************************************************************)
(* What noxd promises of a file, without requests, parts, records or the   *)
(* steps of a sweep.  Bytes held change only by a request that writes, and *)
(* a power loss takes none of them; the row follows the bytes when a file  *)
(* is finished and outlives whatever is left of it when it is swept; only  *)
(* a file no message claimed within a day is swept, before the endpoints   *)
(* open.  A power loss may take the row back, to what it was since the     *)
(* last commit that is safe.                                               *)
(***************************************************************************)
EXTENDS Integers

CONSTANT Size   \* plaintext size of the file

VARIABLES
    row,     \* none, declared, uploaded, bound, gone, lost
    past,    \* the rows a power loss may bring back
    due,     \* older than the sweep's cutoff
    open,    \* the endpoints are open
    held,    \* plaintext a device is told is held
    whole,   \* the finished file is there
    onDisk   \* anything at all under its name is on disk

keptVars == <<row, past, due, open, held, whole, onDisk>>

KeptInit ==
    /\ row = "none" /\ past = {} /\ due = FALSE /\ open = TRUE
    /\ held = 0 /\ whole = FALSE /\ onDisk = FALSE

Becomes(r) ==
    /\ row' = r
    /\ past' = past \cup {IF row = "none" THEN "lost" ELSE row}

Declare ==
    /\ open /\ row = "none"
    /\ Becomes("declared")
    /\ UNCHANGED <<due, open, held, whole, onDisk>>

\* A request adds to what is held, or starts again from less.
Write ==
    /\ open /\ row = "declared" /\ ~whole
    /\ held' \in 0 .. Size /\ onDisk' \in BOOLEAN
    /\ UNCHANGED <<row, past, due, open, whole>>

Finish ==
    /\ open /\ row = "declared" /\ ~whole
    /\ whole' = TRUE /\ onDisk' = TRUE /\ held' = 0
    /\ UNCHANGED <<row, past, due, open>>

Commit ==
    /\ open /\ row = "declared" /\ whole
    /\ Becomes("uploaded")
    /\ UNCHANGED <<due, open, held, whole, onDisk>>

Bind ==
    /\ open /\ row = "uploaded" /\ whole
    /\ Becomes("bound")
    /\ UNCHANGED <<due, open, held, whole, onDisk>>

Age ==
    /\ row \in {"declared", "uploaded", "bound"}
    /\ due' = TRUE
    /\ UNCHANGED <<row, past, open, held, whole, onDisk>>

Settle ==
    /\ past' = {}
    /\ UNCHANGED <<row, due, open, held, whole, onDisk>>

\* The server stops, or the power fails with it: the row may go back, and nothing
\* held is lost.
Close ==
    /\ open' = FALSE
    /\ \/ UNCHANGED <<row, past>>
       \/ row' \in {row} \cup past /\ past' = {}
    /\ UNCHANGED <<due, held, whole, onDisk>>

Unclaimed == row \in {"declared", "uploaded"} /\ due

Forget ==
    /\ ~open /\ Unclaimed
    /\ held' \in {held, 0} /\ whole' \in {whole, FALSE} /\ onDisk' \in {onDisk, FALSE}
    /\ UNCHANGED <<row, past, due, open>>

Delete ==
    /\ ~open /\ Unclaimed /\ held = 0 /\ ~whole /\ ~onDisk
    /\ Becomes("gone") /\ open' = TRUE
    /\ UNCHANGED <<due, held, whole, onDisk>>

Open ==
    /\ ~open /\ ~Unclaimed
    /\ open' = TRUE
    /\ UNCHANGED <<row, past, due, held, whole, onDisk>>

KeptNext ==
    \/ Declare \/ Write \/ Finish \/ Commit \/ Bind \/ Age
    \/ Settle \/ Close \/ Forget \/ Delete \/ Open

KeptSpec == KeptInit /\ [][KeptNext]_keptVars
=============================================================================

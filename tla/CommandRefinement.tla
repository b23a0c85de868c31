-------------------------- MODULE CommandRefinement --------------------------
(***************************************************************************)
(* The concurrent executions of CommandExecution implement Escrow, cell by  *)
(* cell: the stream is the cell's rows, the state what evolve makes of them. *)
(***************************************************************************)
EXTENDS CommandExecution

(* Each cell implements the serial kernel: whatever was loaded, waited for    *)
(* and retried, a commit is one command handler applied to the current state. *)
OfferedTerms == {r.command.terms : r \in {q \in Requests : q.command.type = "CreateCell"}}
Serial(c) == INSTANCE Escrow WITH stream <- rows[c], state <- Evolve(rows[c]),
                                  Terms <- OfferedTerms
StepsLikeEscrow == \A c \in Cell : rows[c]' # rows[c] => Serial(c)!Next
CommitsLikeKernel == [][StepsLikeEscrow]_vars
=============================================================================

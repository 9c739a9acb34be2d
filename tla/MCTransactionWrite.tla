------------------------- MODULE MCTransactionWrite -------------------------
(***************************************************************************)
(* Instances of TransactionWrite for TLC.                                  *)
(***************************************************************************)
EXTENDS TransactionWrite

CONSTANTS chunk, full, incremental, webhook, webhook2

SomeWriters == {chunk, incremental, webhook, webhook2}

WriterKind == [w \in Writers |->
    CASE w = chunk -> "chunk"
      [] w = full -> "full"
      [] w = incremental -> "incremental"
      [] w \in {webhook, webhook2} -> "upsert"]
=============================================================================

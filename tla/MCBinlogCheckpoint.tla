------------------------ MODULE MCBinlogCheckpoint ------------------------
(* Instances of BinlogCheckpoint for TLC.                                  *)
EXTENDS BinlogCheckpoint, TLC

CONSTANTS t1, t2, t3

\* An InnoDB transaction: binlog_hton is registered after the engine, and
\* trans_register_ha() puts the last one registered first.
CkptOnly == <<"binlog", "ckpt">>
\* A multi-statement transaction whose last statement opened a TokuDB table.
PlainLast == <<"plain", "binlog", "ckpt">>
\* A transaction that only uses an engine without commit_checkpoint_request.
PlainFirst == <<"binlog", "plain">>

HaListThree == t1 :> PlainLast @@ t2 :> CkptOnly @@ t3 :> CkptOnly
HaListTwo == t1 :> PlainLast @@ t2 :> CkptOnly
HaListCkpt == t1 :> CkptOnly @@ t2 :> CkptOnly
HaListPlain == t1 :> PlainFirst @@ t2 :> CkptOnly

Symmetric == Permutations({t2, t3})
=============================================================================

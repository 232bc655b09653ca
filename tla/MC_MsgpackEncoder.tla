------------------------- MODULE MC_MsgpackEncoder -------------------------
(* Model-checking instance of MsgpackEncoder: the thread set and the      *)
(* sizes are given in the cfg files.  t1 is the single consumer spec 5    *)
(* describes; it also puts, like t2.                                       *)
EXTENDS MsgpackEncoder

CONSTANTS t1, t2

MCThreads1 == {t1}
MCThreads2 == {t1, t2}
MCConsumers == {t1}
=============================================================================

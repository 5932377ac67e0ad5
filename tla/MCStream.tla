------------------------------ MODULE MCStream ------------------------------
(***************************************************************************)
(* Both ends of the datagrams in one run: what is put on the wire          *)
(* (MCDatagrams) and what the assembler makes of what arrives              *)
(* (MCReceiver).  A behaviour is about one end; ImtTransport joins them    *)
(* over a network.                                                         *)
(***************************************************************************)
EXTENDS MCReceiver, MCDatagrams

VARIABLE end   \* the end this behaviour is about

receiverVars == << traffic, restartVars >>

-----------------------------------------------------------------------------
StreamInit ==
  /\ PartsInit /\ MCInit
  /\ \/ end = "sender" /\ traffic = "once"
     \/ end = "receiver" /\ part = "mpq"

StreamNext ==
  \/ end = "sender" /\ MCNext /\ UNCHANGED << end, receiverVars >>
  \/ end = "receiver" /\ PartsNext /\ UNCHANGED << end, allVars >>

(* The fairness of MCSpec and of PartsSpec; each is of a part that only    *)
(* one end plays.                                                          *)
StreamSpec ==
  /\ StreamInit /\ [][StreamNext]_<< end, allVars, receiverVars >>
  /\ WF_eyeVars(part = "eye" /\ Eye!Worker)
  /\ WF_eyeVars(part = "eye" /\ Eye!Submit)
  /\ WF_restartVars(traffic = "restart" /\ SendFrame)
  /\ WF_restartVars(traffic = "restart" /\ Deliver)
=============================================================================

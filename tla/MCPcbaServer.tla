---------------------------- MODULE MCPcbaServer ----------------------------
(* Instances of PcbaServer for TLC. *)
EXTENDS PcbaServer

MCItems == {"echo_key_test", "write_storage"}

\* grep for the key test also finds a program whose name contains its name.
MCLike == {<<"echo_key_test", "write_storage">>}

\* Every command; those that need no item carry one all the same, and one
\* answered parse error stands for the three.
MCCrowd ==
  {m \in Commands : /\ m.name \in {"START", "STOP", "QUERY"} \/ m.item = "write_storage"
                    /\ m.parse \notin {"CMD_ERR", "CMD_OVERLONG"}}
=============================================================================

------------------------ MODULE MCCoordinatorRefresh ------------------------
(***************************************************************************)
(* One register for each group that is only published, two temporary ones, *)
(* and intervals in the order of the real ones.                            *)
(***************************************************************************)
EXTENDS CoordinatorRefresh

MCMembers == [general |-> <<>>, power |-> <<"active_power">>, energy |-> <<>>,
              temporary |-> <<"port_1", "port_2">>, permanent |-> <<"permanent_1">>]
MCPeriod == [general |-> 1, power |-> 1, energy |-> 1, temporary |-> 2, permanent |-> 3]
=============================================================================

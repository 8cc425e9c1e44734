--------------------------- MODULE MCSourceLanes ----------------------------
(* The drives, and the configurations that come into force: drives taken    *)
(* by choice, one of which needs approval; a configured folder that names   *)
(* none; one drive excluded; and a folder on a drive that needs approval.   *)
EXTENDS SourceLanes
CONSTANTS d1, d2
MCConfigs ==
  {[scope |-> "all", mode |-> "automatic", in |-> {d1, d2}, out |-> {}, manual |-> {d1}, policy |-> 0],
   [scope |-> "configured", mode |-> "automatic", in |-> {}, out |-> {}, manual |-> {}, policy |-> 0],
   [scope |-> "all", mode |-> "automatic", in |-> {}, out |-> {d1}, manual |-> {}, policy |-> 1],
   [scope |-> "configured", mode |-> "automatic", in |-> {d1}, out |-> {}, manual |-> {d1}, policy |-> 0]}
=============================================================================

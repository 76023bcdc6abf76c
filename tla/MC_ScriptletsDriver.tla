------------------------- MODULE MC_ScriptletsDriver -------------------------
(* Peers and scriptlet bodies for the composed scriptlets inspection. *)
EXTENDS ScriptletsDriver

(* Two of the seven hooks of scriptlet_types[]: each hook is handled alike. *)
MC_Hooks == <<"%pre", "%post">>

L(ws) == [w |-> ws, cont |-> FALSE]

(* One-line bodies, one per row of the decision table on which the code *)
(* and the table agree, and a body without useradd.                     *)
MC_Bodies ==
    { << L(<<"echo">>) >>,
      << L(<<"useradd", "svc">>) >>,
      << L(<<"useradd", "-s", "/sbin/nologin", "svc">>) >>,
      << L(<<"useradd", "-r", "-s", "/bin/bash", "svc">>) >> }

MC_UidWords == {"500"}
MC_UidValue == [w \in MC_UidWords |-> 500]
=============================================================================

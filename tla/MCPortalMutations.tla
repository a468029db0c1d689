------------------------- MODULE MCPortalMutations --------------------------
(***************************************************************************)
(* A small instance of PortalMutations: two attempts in flight, of one     *)
(* form or of two, in combinations of kinds that share a fragment or page. *)
(***************************************************************************)
EXTENDS PortalMutations

MCPair(k, l) == [f \in Forms |-> IF f = "f1" THEN k ELSE l]

MCKinds == {MCPair("create_key", "rotate_key"), MCPair("rotate_key", "revoke_key"),
            MCPair("api_create_key", "create_schedule"), MCPair("trigger", "function_action"),
            MCPair("create_function", "schedule_action"), MCPair("api_rotate_key", "api_revoke_key"),
            MCPair("api_trigger", "api_function"), MCPair("api_schedule", "api_function")}

(* Two sessions of one customer, one of another. *)
MCAccountOf == [s \in Sessions |-> IF s = "s3" THEN "bob" ELSE "ann"]

MCOneForm == [h \in Handlers |-> "f1"]

MCTwoForms == [h \in Handlers |-> IF h = "h1" THEN "f1" ELSE "f2"]

MCFormsOfHandlers == {MCOneForm, MCTwoForms}
=============================================================================

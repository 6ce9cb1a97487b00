---------------------------- MODULE MCToolCalls ----------------------------
(***************************************************************************)
(* A plain tool, an unsafe one, a debugger one (unsafe and in a group) and *)
(* a name nobody registered; requests with and without the flags and the   *)
(* token they need, two of them from clients that chose the same id.       *)
(***************************************************************************)
EXTENDS ToolCalls, TLC

CONSTANTS w1, w2, w3, tkn

MCNames == {"read", "patch", "step", "typo"}
MCRegistered == {"read", "patch", "step"}
MCUnsafe == {"patch", "step"}
MCGroupOf == [t \in MCNames |-> IF t = "step" THEN "dbg" ELSE NoGroup]

F(u, e, t) == [unsafe |-> u, exts |-> e, token |-> t,
               filtered |-> FALSE, profile |-> {}]
R(i, t, f) == [id |-> i, tool |-> t, flags |-> f]

Plain == F(FALSE, {}, NoToken)
Full == F(TRUE, {"dbg"}, tkn)

Symmetry == Permutations(Workers)

(* One client sends an array as its id. *)
MCRequests == { R("1", "read", Plain), R("1", "patch", Full), R("2", "step", Full),
                R(NoId, "typo", Plain), R("2", "step", [Full EXCEPT !.token = NoToken]),
                R("2", "read", [Plain EXCEPT !.filtered = TRUE,
                                                 !.profile = {"patch"}]),
                R("[7]", "read", Plain) }

(* All ids hashable, for the run with liveness and refinement. *)
MCFewRequests == { R("1", "read", Plain), R(NoId, "patch", Full),
                   R("2", "step", Plain) }
============================================================================

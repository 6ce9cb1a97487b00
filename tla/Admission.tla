----------------------------- MODULE Admission -----------------------------
(***************************************************************************)
(* Which tools a request may see and call.  A request carries the flags    *)
(* `_parse_request_flags` reads from the URL and the headers: ?unsafe=,    *)
(* ?ext=, the auth token and the tool set its ?profile= resolved to.       *)
(* `_mcp_tools_list` and `_mcp_tools_call` decide separately, each with    *)
(* its own code, so that the two agree is a theorem (ListedIffAdmitted in  *)
(* ToolCalls_proofs), not a definition.                                    *)
(***************************************************************************)
CONSTANTS
    Names,        \* every tool name a client may send
    Registered,   \* names in MCP_SERVER.tools.methods
    UnsafeTools,  \* names marked @unsafe (MCP_UNSAFE)
    Groups,       \* extension groups, e.g. "dbg"
    NoGroup,      \* not a group
    GroupOf,      \* the group whose @ext registry entry holds the name
    Tokens,       \* auth tokens
    NoToken,      \* no token sent / auth disabled
    AuthToken     \* McpServer.auth_token

ASSUME AdmissionAssumption ==
    /\ Registered \subseteq Names
    /\ UnsafeTools \subseteq Names
    /\ NoGroup \notin Groups
    /\ GroupOf \in [Names -> Groups \union {NoGroup}]
    /\ NoToken \notin Tokens
    /\ AuthToken \in Tokens \union {NoToken}

(* The thread-local flags of one request; `filtered` says that ?profile=   *)
(* named a profile that exists, and `profile` is then its tool set.        *)
Flags == [unsafe : BOOLEAN, exts : SUBSET Groups,
          token : Tokens \union {NoToken},
          filtered : BOOLEAN, profile : SUBSET Names]

(* `_auth_ok`: open when the server has no token, else the tokens match. *)
AuthOk(f) == AuthToken = NoToken \/ f.token = AuthToken

UnsafeAllowed(f) == f.unsafe /\ AuthOk(f)

EnabledGroups(f) == IF AuthOk(f) THEN f.exts ELSE {}

(* `_mcp_tools_list`: the names the reply lists. *)
Listed(f) ==
    { t \in Registered :
        /\ GroupOf[t] = NoGroup \/ GroupOf[t] \in EnabledGroups(f)
        /\ t \in UnsafeTools => UnsafeAllowed(f)
        /\ f.filtered => t \in f.profile }

(* The refusals of `_mcp_tools_call`, in the order the handler tries them. *)
RefusedUnsafe(f, t) == t \in UnsafeTools /\ ~UnsafeAllowed(f)

RefusedGroup(f, t) ==
    GroupOf[t] # NoGroup /\ GroupOf[t] \notin EnabledGroups(f)

(* Mutant: a tool outside every group skips the profile. *)
RefusedProfileGroupOnly(f, t) ==
    f.filtered /\ t \notin f.profile /\ GroupOf[t] # NoGroup

RefusedProfile(f, t) == f.filtered /\ t \notin f.profile

(* The reply a refused call gets; "admitted" goes on to the gate. *)
Verdict(f, t) ==
    CASE RefusedUnsafe(f, t) ->
           IF f.unsafe /\ ~AuthOk(f) THEN "needs token" ELSE "needs unsafe"
      [] ~RefusedUnsafe(f, t) /\ RefusedGroup(f, t) ->
           IF GroupOf[t] \in f.exts /\ ~AuthOk(f)
           THEN "needs token" ELSE "needs ext"
      [] ~RefusedUnsafe(f, t) /\ ~RefusedGroup(f, t)
           /\ RefusedProfile(f, t) -> "not in profile"
      [] OTHER -> "admitted"
============================================================================

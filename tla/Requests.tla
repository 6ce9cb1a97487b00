------------------------------ MODULE Requests ------------------------------
(***************************************************************************)
(* What the server does with one request between the socket and the tool,   *)
(* as operators on records: the headers that admit it, its body, the JSON-  *)
(* RPC envelope, the arguments, the result, and what is kept of it.         *)
(***************************************************************************)
EXTENDS Series, FiniteSets, FiniteSetsExt, SequencesExt

CONSTANTS
    BodyLimit,      \* post_body_limit
    OutputCap,      \* max_output_chars
    SessionTtl,     \* http_session_ttl_sec, 0 for no limit
    SessionMax,     \* http_session_max_count, 0 for no limit
    AuditValue,     \* _AUDIT_VALUE_MAX
    AuditBlob,      \* _AUDIT_BLOB_MAX
    Underscored     \* names of parameters that begin with an underscore

ASSUME RequestsAssumption ==
    {BodyLimit, OutputCap, SessionTtl, SessionMax, AuditValue, AuditBlob} \subseteq Nat

(***************************************************************************)
(* Admission of a request by its headers.                                   *)
(***************************************************************************)
Loopback == {"localhost", "127.0.0.1", "::1"}

(* _parse_host_header; form is how the header is written. *)
HostName(h) ==
    CASE h.form \in {"absent", "blank", "unclosed"} -> "none"
      [] OTHER -> h.name                \* bare, with a port, or in brackets

(* Mutant: a header that names no host is let through. *)
HostAllowedBlank(bound, h) ==
    HostName(h) = "none" \/ bound \notin Loopback \/ HostName(h) \in Loopback

(* _host_header_allowed_for_bind *)
HostAllowed(bound, h) ==
    \/ h.form = "absent"
    \/ HostName(h) # "none" /\ (bound \notin Loopback \/ HostName(h) \in Loopback)

(* _origin_allowed with cors_localhost, a list, or everything. *)
LocalPolicy == {"cors_localhost"}
OriginAllowed(policy, origin) ==
    /\ origin # "none"
    /\ \/ policy = LocalPolicy /\ origin \in Loopback
       \/ policy # LocalPolicy /\ ({"*", origin} \intersect policy) # {}

(* _check_api_request, do_POST, do_OPTIONS: the status, 0 to go on. *)
ApiRefusal(r) ==
    CASE ~ HostAllowed(r.bound, r.host) -> 403
      [] HostAllowed(r.bound, r.host) /\ r.origin # "none" /\ ~ OriginAllowed(r.policy, r.origin) -> 403
      [] OTHER -> IF r.verb = "POST" /\ r.path \notin {"/mcp", "/sse"} THEN 404
                  ELSE IF r.verb = "OPTIONS" THEN 204 ELSE 0

(* send_cors_headers: the origin that may read the reply. *)
CorsOrigin(r) == IF OriginAllowed(r.policy, r.origin) THEN r.origin ELSE "none"

(***************************************************************************)
(* The body.  A message has `size` bytes on the wire and `inflated` bytes   *)
(* when its encoding is undone; chunks are sizes, BadChunk is no size.      *)
(***************************************************************************)
BadChunk == -1
BodyOf(status, size) == [status |-> status, size |-> size]

(* _read_chunked: chunk after chunk, cut one byte past the limit. *)
Chunked(chunks) ==
    LET stop == {i \in DOMAIN chunks : chunks[i] <= 0}
        upTo == IF stop = {} THEN Len(chunks) ELSE Min(stop) - 1
        sum == Sums(chunks)
        over == {i \in 0..upTo : sum[i] > BodyLimit}
    IN  IF over # {} THEN BodyLimit + 1
        ELSE IF upTo < Len(chunks) /\ chunks[upTo + 1] = 0 THEN sum[upTo] ELSE BadChunk

(* Mutant: only the bytes on the wire are limited. *)
InflatedUnbounded(encoding, raw, inflated) ==
    CASE encoding \in {"gzip", "x-gzip", "deflate"} ->
            IF inflated = BadChunk THEN BodyOf(400, 0) ELSE BodyOf(0, inflated)
      [] OTHER -> BodyOf(0, raw)

(* _decompress_body: stops one byte past the limit. *)
Inflated(encoding, raw, inflated) ==
    CASE encoding \in {"gzip", "x-gzip", "deflate"} ->
            IF inflated = BadChunk THEN BodyOf(400, 0)
            ELSE IF inflated > BodyLimit THEN BodyOf(413, 0) ELSE BodyOf(0, inflated)
      [] OTHER -> BodyOf(0, raw)

(* _read_body; a Content-Length that is no number counts as 0. *)
ReadBody(m) ==
    LET raw == IF m.chunked THEN Chunked(m.chunks) ELSE Max({0, m.length})
    IN  CASE raw = BadChunk -> BodyOf(400, 0)
          [] raw > BodyLimit -> BodyOf(413, 0)
          [] OTHER -> Inflated(m.encoding, raw, m.inflated)

(***************************************************************************)
(* JSON-RPC.  A text is what it parses to; a method is a record of what     *)
(* calling it with the parameters does.                                     *)
(***************************************************************************)
NoReply == [kind |-> "no_reply"]
ErrorReply(id, code) == [kind |-> "error", id |-> id, code |-> code]
ResultReply(id, result) == [kind |-> "result", id |-> id, result |-> result]

(* _call with map_exception: what a method gives, by what it does. *)
Called(req) ==
    CASE req.does = "unknown" -> [code |-> -32601]
      [] req.does = "rejects" -> [code |-> -32602]      \* a JsonRpcException of its own
      [] req.does = "cancelled" -> [code |-> -32800]
      [] req.does = "tool_error" -> [code |-> -32000]
      [] req.does \in {"raises", "bad_params"} -> [code |-> -32603]
      [] OTHER -> [code |-> 0]

(* Mutant: the errors of a notification are answered. *)
DispatchAnswersErrors(text, req) ==
    CASE text = "garbage" -> ErrorReply("null", -32700)
      [] text = "other" \/ (text = "object" /\ req.envelope # "ok") -> ErrorReply("null", -32600)
      [] OTHER -> LET id == IF req.id = "absent" THEN "null" ELSE req.id
                      r == Called(req)
                  IN  IF req.id = "absent" /\ r.code = 0 THEN NoReply
                      ELSE IF r.code # 0 THEN ErrorReply(id, r.code) ELSE ResultReply(id, req.result)

(* dispatch *)
Dispatch(text, req) ==
    CASE text = "garbage" -> ErrorReply("null", -32700)
      [] text = "other" \/ (text = "object" /\ req.envelope # "ok") -> ErrorReply("null", -32600)
      [] OTHER -> LET r == Called(req)
                  IN  IF req.id = "absent" THEN NoReply
                      ELSE IF r.code # 0 THEN ErrorReply(req.id, r.code) ELSE ResultReply(req.id, req.result)

(* The three ways in.  POST /mcp parses the text itself, and takes what     *)
(* does not parse, or an empty body, for {}, so that a JSON string that     *)
(* holds a request is parsed twice; an initialize is given a session        *)
(* whatever came of it.                                                     *)
Post(text, req) ==
    LET reply == CASE text \in {"garbage", "empty"} -> Dispatch("other", req)
                   [] text = "quoted" -> Dispatch("object", req)
                   [] OTHER -> Dispatch(text, req)
    IN  [reply |-> reply, status |-> IF reply = NoReply THEN 202 ELSE 200,
         session |-> text = "object" /\ req.method = "initialize"]
SsePost(text, req) == Dispatch(IF text \in {"empty", "quoted"} THEN "other" ELSE text, req)
StdioLine(text, req) == IF text = "empty" THEN NoReply ELSE SsePost(text, req)

(***************************************************************************)
(* tools/call: arguments and schema.  A parameter is annotated with a type, *)
(* possibly optional, annotated or a literal of values of one type or more. *)
(***************************************************************************)

(* _unwrap_annotation: the type that counts, and the enum. *)
Unwrapped(a) ==
    [type |-> IF a.shape = "literal" /\ Cardinality(a.kinds) # 1 THEN "str"
              ELSE IF a.shape = "literal" THEN CHOOSE k \in a.kinds : TRUE ELSE a.type,
     enum |-> a.shape = "literal"]

(* _json_type_for *)
JsonType(type) == CASE type = "int" -> "integer" [] type = "float" -> "number"
                    [] type = "bool" -> "boolean" [] OTHER -> "string"

(* _generate_tool_schema: _meta is not shown, what has no default is required. *)
Schema(params) ==
    LET shown == {p \in DOMAIN params : p # "_meta"}
    IN  [properties |-> [p \in shown |-> [type |-> JsonType(Unwrapped(params[p]).type),
                                          enum |-> Unwrapped(params[p]).enum]],
         required |-> {p \in shown : ~ params[p].default}]

(* A text as bool(), int(text, 0) and float(text) read it; Unread if not.  *)
Unread == 99
Texts == ("true" :> [bool |-> 1, int |-> Unread, float |-> Unread]) @@
         ("off" :> [bool |-> 0, int |-> Unread, float |-> Unread]) @@
         ("1" :> [bool |-> 1, int |-> 1, float |-> 1]) @@
         ("7" :> [bool |-> Unread, int |-> 7, float |-> 7]) @@
         ("0x10" :> [bool |-> Unread, int |-> 16, float |-> Unread]) @@
         ("7.0" :> [bool |-> Unread, int |-> Unread, float |-> 7]) @@
         ("7.5" :> [bool |-> Unread, int |-> Unread, float |-> 75]) @@
         ("word" :> [bool |-> Unread, int |-> Unread, float |-> Unread])
Typed(kind, v) == [kind |-> kind, v |-> v]
IsWhole(x) == x \in {0, 1, 7}     \* 75 stands for 7.5

(* Mutant: int() only, "7.0" stays text. *)
CoerceScalarIntOnly(value, a) ==
    LET t == Texts[value.v]
        type == Unwrapped(a).type
    IN  IF value.kind # "str" THEN value
        ELSE CASE type = "bool" /\ t.bool # Unread -> Typed("bool", t.bool)
               [] type = "int" /\ t.int # Unread -> Typed("int", t.int)
               [] type = "float" /\ t.float # Unread -> Typed("float", t.float)
               [] OTHER -> value

(* _coerce_scalar *)
CoerceScalar(value, a) ==
    LET t == Texts[value.v]
        type == Unwrapped(a).type
    IN  IF value.kind # "str" THEN value
        ELSE CASE type = "bool" /\ t.bool # Unread -> Typed("bool", t.bool)
               [] type = "int" /\ t.int # Unread -> Typed("int", t.int)
               [] type = "int" /\ t.int = Unread /\ IsWhole(t.float) -> Typed("int", t.float)
               [] type = "float" /\ t.float # Unread -> Typed("float", t.float)
               [] OTHER -> value

(* _coerce_tool_arguments: each argument that has a parameter. *)
CoerceArguments(params, arguments) ==
    [p \in DOMAIN arguments |-> IF p \in DOMAIN params THEN CoerceScalar(arguments[p], params[p])
                                ELSE arguments[p]]

(* _as_int: a tool's own reading of an integer, with a default. *)
AsInt(value, default) ==
    CASE value.kind = "bool" -> default
      [] value.kind = "int" -> value.v
      [] value.kind = "str" /\ Texts[value.v].int # Unread -> Texts[value.v].int
      [] value.kind = "str" /\ Texts[value.v].int = Unread /\ IsWhole(Texts[value.v].float) -> Texts[value.v].float
      [] OTHER -> default

(***************************************************************************)
(* tools/call: the result.  What a tool gives is a record of its kind: text *)
(* that holds an object, an object, other JSON, plain text, or a value that *)
(* has no JSON; `error` is the text under "error", "none" if there is none. *)
(***************************************************************************)
HoldsObject(out) == out.kind \in {"dict", "text_of_dict"}

(* Mutant: any error field, also null or blank, counts. *)
IsToolErrorAny(out) == HoldsObject(out) /\ out.error # "none"

(* _parse_structured with _is_tool_error: a list or a null error is none. *)
IsToolError(out) == HoldsObject(out) /\ out.error \notin {"none", "null", "", "blank"}

(* The result part of _mcp_tools_call: what the client is told, whether the *)
(* call is counted as an error, and how much of the text of the tool is     *)
(* sent.  The message of an error, with code # 0, is sent whatever its      *)
(* size; a result over the cap is replaced by a remark of the server's.     *)
ToolResult(code, out) ==
    CASE code # 0 -> [told |-> "isError", counted |-> TRUE, text |-> out.size, structured |-> "none"]
      [] code = 0 /\ out.kind = "no_json" -> [told |-> "rpc_error", counted |-> FALSE, text |-> 0, structured |-> "none"]
      [] code = 0 /\ out.kind # "no_json" /\ out.size > OutputCap /\ OutputCap > 0 ->
            [told |-> "isError", counted |-> TRUE, text |-> 0, structured |-> "output_too_large"]
      [] OTHER -> [told |-> IF IsToolError(out) THEN "isError" ELSE "ok",
                   counted |-> IsToolError(out), text |-> out.size,
                   structured |-> IF HoldsObject(out) THEN "itself" ELSE "under_result"]

(***************************************************************************)
(* What is kept: sessions, statistics, audit.                               *)
(***************************************************************************)

(* _prune_sessions; the sessions are pairs <<id, time>>, the oldest first. *)
Pruned(ss, now) ==
    LET fresh == Picked(ss, {i \in DOMAIN ss : SessionTtl = 0 \/ ss[i][2] >= now - SessionTtl})
    IN  IF SessionMax > 0 /\ Len(fresh) > SessionMax
        THEN SubSeq(fresh, Len(fresh) - SessionMax + 1, Len(fresh)) ELSE fresh
Without(ss, id) == Picked(ss, {i \in DOMAIN ss : ss[i][1] # id})
HasSession(ss, id) == \E i \in DOMAIN ss : ss[i][1] = id

RegisterSession(ss, id, now) == Pruned(Append(Without(ss, id), <<id, now>>), now)

(* Mutant: a look-up does not refresh. *)
LookUpSessionStale(ss, id, now) == Pruned(ss, now)

(* has_http_session *)
LookUpSession(ss, id, now) ==
    LET kept == Pruned(ss, now)
    IN  IF HasSession(kept, id) THEN Append(Without(kept, id), <<id, now>>) ELSE kept

(* get_stats._pct: the index of a percentile, round() to even. *)
RoundHalfEven(a, b) ==
    LET q == a \div b
        r == a % b
    IN  IF 2 * r > b \/ (2 * r = b /\ q % 2 = 1) THEN q + 1 ELSE q
Percentile(sorted, p) == sorted[Min({Len(sorted), RoundHalfEven(p * (Len(sorted) - 1), 100) + 1})]

(* _sanitize_audit_args: values cut with an ellipsis, then the whole. *)
AuditSizes(sizes) ==
    LET cut == [i \in DOMAIN sizes |-> IF sizes[i] > AuditValue THEN AuditValue + 1 ELSE sizes[i]]
        fits == {i \in 0..Len(cut) : Sums(cut)[i] <= AuditBlob}
    IN  [kept |-> SubSeq(cut, 1, Max(fits)), truncated |-> Max(fits) < Len(cut)]

(***************************************************************************)
(* Prompts and resources.                                                   *)
(***************************************************************************)

(* _mcp_initialize: what is offered is what is registered. *)
Capabilities(resources, prompts) ==
    {"tools"} \union (IF resources = {} THEN {} ELSE {"resources"})
              \union (IF DOMAIN prompts = {} THEN {} ELSE {"prompts"})

(* _mcp_resources_list, _mcp_resources_read: functions with a uri. *)
ResourcesListed(resources) == {r.uri : r \in {x \in resources : x.uri # "none"}}
ResourceRead(resources, uri) ==
    LET found == {r \in resources : r.uri = uri}
    IN  IF found = {} THEN [code |-> -32602]
        ELSE LET r == CHOOSE x \in found : TRUE
             IN  [code |-> 0, mime |-> IF r.mime # "none" THEN r.mime
                                       ELSE IF r.json THEN "application/json" ELSE "text/plain"]

(* _mcp_prompts_list, _mcp_prompts_get: a call must give each argument that *)
(* is required, and none that the prompt does not have; what begins with an *)
(* underscore is not listed.                                                *)
PromptsListed(prompts) ==
    [n \in DOMAIN prompts |-> {[name |-> a, required |-> a \in prompts[n].required] :
                               a \in {b \in prompts[n].args : b \notin Underscored}}]
PromptGet(prompts, n, arguments) ==
    CASE n \notin DOMAIN prompts -> [code |-> -32602]
      [] n \in DOMAIN prompts /\ ~ (prompts[n].required \subseteq arguments /\ arguments \subseteq prompts[n].args) ->
            [code |-> -32603]
      [] OTHER -> [code |-> 0]
=============================================================================

---------------------------- MODULE RequestChecks ---------------------------
(***************************************************************************)
(* What the server promises of each request: the admission, reading,       *)
(* answering and keeping that Requests models, compared with what a client *)
(* is told and with references for what is kept.                           *)
(***************************************************************************)
EXTENDS Requests, Asking

(* A server bound to loopback under its own policy is reached only under    *)
(* loopback names; whoever may read a reply was let in.                     *)
HeadersAreLocal(r) ==
    /\ ApiRefusal(r) = 0 /\ r.bound \in Loopback => r.host.form = "absent" \/ HostName(r.host) \in Loopback
    /\ ApiRefusal(r) = 0 /\ r.policy = LocalPolicy => r.origin \in Loopback \union {"none"}
    /\ CorsOrigin(r) # "none" /\ HostAllowed(r.bound, r.host) => ApiRefusal(r) # 403

(* What is parsed is within the limit, and framing or encoding make no     *)
(* difference to a body that is.                                            *)
BodyIsBounded(m) ==
    LET plain == [m EXCEPT !.chunked = FALSE, !.length = Sums(m.chunks)[Len(m.chunks)]]
    IN  /\ ReadBody(m).size <= BodyLimit
        /\ m.chunked /\ (\A i \in DOMAIN m.chunks : m.chunks[i] = 0 <=> i = Len(m.chunks))
              /\ m.chunks # <<>> /\ BadChunk \notin ToSet(m.chunks) => ReadBody(m) = ReadBody(plain)
        /\ m.encoding = "gzip" /\ m.inflated \in 0..BodyLimit /\ ReadBody(m).status = 0 =>
              ReadBody(m).size = m.inflated

(* A request with an id is answered, once, with its id; one without never  *)
(* is; the transports answer alike but for texts that do not parse to an    *)
(* object at once.                                                          *)
RepliesFit(text, req) ==
    LET replies == {Post(text, req).reply, SsePost(text, req), StdioLine(text, req)}
    IN  /\ text = "object" => Cardinality(replies) = 1
        /\ text = "object" /\ req.envelope = "ok" =>
              \A r \in replies : IF req.id = "absent" THEN r = NoReply
                                 ELSE r.id = req.id /\ (r.kind = "result" <=> req.does = "answers")
        /\ text # "object" => \A r \in replies : r # NoReply => r.id = "null" \/ text = "quoted"
        /\ Post(text, req).status = 202 <=> Post(text, req).reply = NoReply

(* The kind of value that a JSON type means. *)
PythonKind(type) == CASE type = "integer" -> "int" [] type = "number" -> "float"
                      [] type = "boolean" -> "bool" [] OTHER -> "str"

(* A coerced argument has the type that the schema tells the client, text  *)
(* that reads as that type is coerced, nothing else changes, and the tools' *)
(* own reading of integers agrees.                                          *)
ArgumentFitsSchema(value, a, arguments, params) ==
    LET got == CoerceScalar(value, a)
        type == Unwrapped(a).type
        shown == Schema(params).properties
    IN  /\ value.kind # "str" \/ got.kind = "str" => got = value
        /\ value.kind = "str" /\ got # value => PythonKind(JsonType(type)) = got.kind
        /\ value.kind = "str" /\ type = "int" =>
              /\ AsInt(value, Unread) = IF got.kind = "int" THEN got.v ELSE Unread
              /\ IsWhole(Texts[value.v].float) => got.kind = "int"
        /\ CoerceScalar(got, a) = got
        /\ LET all == CoerceArguments(params, arguments)
           IN  /\ DOMAIN all = DOMAIN arguments
               /\ \A p \in DOMAIN all : all[p] # arguments[p] => PythonKind(shown[p].type) = all[p].kind

(* The statistics count as an error what the client is told is one; what   *)
(* is no error is sent whole, and no result is sent that is over the cap.   *)
ResultIsCountedAsTold(code, out) ==
    LET r == ToolResult(code, out)
    IN  /\ out.kind # "no_json" => (r.counted <=> r.told = "isError")
        /\ r.told = "ok" => r.text = out.size
        /\ code = 0 /\ OutputCap > 0 => r.text <= OutputCap
        /\ code = 0 /\ r.counted /\ r.structured # "output_too_large" => out.error \notin {"none", "null", ""}

(* The sessions and the time after so many steps: <<"reg", id>>,            *)
(* <<"has", id>> or <<"tick", 0>>.                                          *)
SessionStep(st, op) ==
    CASE op[1] = "tick" -> [ss |-> st.ss, now |-> st.now + 1]
      [] op[1] = "reg" -> [ss |-> RegisterSession(st.ss, op[2], st.now), now |-> st.now]
      [] OTHER -> [ss |-> LookUpSession(st.ss, op[2], st.now), now |-> st.now]
SessionsAfter(ops) ==
    LET after[n \in 0..Len(ops)] ==
            IF n = 0 THEN [ss |-> <<>>, now |-> 0] ELSE SessionStep(after[n - 1], ops[n])
    IN  after

(* Reference: the step at which each session was last in use after n steps, *)
(* 0 if it has been forgotten: the last one to register it or to find it.   *)
Clock(ops) == Sums([n \in DOMAIN ops |-> IF ops[n][1] = "tick" THEN 1 ELSE 0])
UseStep(ops, n, was) ==
    LET alive(x) == was[x] # 0 /\ (SessionTtl = 0 \/ Clock(ops)[n] - Clock(ops)[was[x]] <= SessionTtl)
        newer(x) == {y \in DOMAIN was : was[y] > was[x]}
        pushed(x) == /\ SessionMax > 0 /\ ops[n][1] = "reg"
                     /\ Cardinality(newer(x) \ {ops[n][2]}) + 1 >= SessionMax
    IN  [x \in DOMAIN was |->
            CASE ops[n][1] = "tick" -> was[x]
              [] ops[n] = <<"reg", x>> \/ (ops[n] = <<"has", x>> /\ alive(x)) -> n
              [] OTHER -> IF alive(x) /\ ~ pushed(x) THEN was[x] ELSE 0]
LastUse(ops) ==
    LET use[n \in 0..Len(ops)] ==
            IF n = 0 THEN [x \in {ops[i][2] : i \in DOMAIN ops} |-> 0] ELSE UseStep(ops, n, use[n - 1])
    IN  use

(* The table holds the sessions in use last, in that order, and at most     *)
(* SessionMax of them.                                                      *)
SessionsAreTheLatest(ops) ==
    LET ss == SessionsAfter(ops)[Len(ops)].ss
        use == LastUse(ops)[Len(ops)]
    IN  /\ SessionMax > 0 => Len(ss) <= SessionMax
        /\ \A id \in DOMAIN use : HasSession(ss, id) <=> use[id] > 0
        /\ \A i, j \in DOMAIN ss : i < j => use[ss[i][1]] < use[ss[j][1]]

(* Percentiles come in order and from the samples; the audit keeps values  *)
(* in order, within its bounds, and says when it dropped one.               *)
NumbersAreBounded(sizes) ==
    LET a == AuditSizes(sizes)
    IN  /\ sizes # <<>> /\ (\A i, j \in DOMAIN sizes : i < j => sizes[i] <= sizes[j]) =>
              /\ Percentile(sizes, 50) <= Percentile(sizes, 95)
              /\ Percentile(sizes, 95) <= sizes[Len(sizes)]
        /\ Sums(a.kept)[Len(a.kept)] <= AuditBlob
        /\ a.truncated <=> Len(a.kept) < Len(sizes)
        /\ \A i \in DOMAIN a.kept : a.kept[i] = Min({sizes[i], AuditValue + 1})

(* What is offered works: a prompt called with the arguments listed as     *)
(* required, a resource read by a listed uri.                               *)
OffersHold(prompts, resources) ==
    /\ \A n \in DOMAIN prompts :
          PromptGet(prompts, n, {x.name : x \in {y \in PromptsListed(prompts)[n] : y.required}}).code = 0
    /\ \A u \in ResourcesListed(resources) : ResourceRead(resources, u).code = 0
    /\ ("resources" \notin Capabilities(resources, prompts)) => ResourcesListed(resources) = {}

(***************************************************************************)
(* Inputs of each family, of any size.                                     *)
(***************************************************************************)
Messages == [chunked : BOOLEAN, chunks : Seq({BadChunk} \union Nat), length : Int,
             encoding : {"none", "gzip", "x-gzip", "deflate", "other"}, inflated : {BadChunk} \union Nat]
JsonTexts == {"object", "other", "garbage", "empty", "quoted"}
Doings == {"answers", "unknown", "rejects", "cancelled", "tool_error", "raises", "bad_params"}
Readable(value) == value.kind = "str" => value.v \in DOMAIN Texts
PromptsFit(prompts) == \A n \in DOMAIN prompts : prompts[n].required \subseteq prompts[n].args \ Underscored
SessionCalls == {"reg", "has", "tick"} \X Nat

Asked ==
    /\ part = "body" => ask \in Messages
    /\ part = "envelope" => ask.text \in JsonTexts /\ ask.req.does \in Doings
    /\ part = "result" => ask.code \in Int /\ ask.out.size \in Nat
    /\ part = "offers" => PromptsFit(ask.prompts)
    /\ part = "argument" => Readable(ask.value)
    /\ part = "sessions" => ask \in Seq(SessionCalls)
    /\ part = "sizes" => ask \in Seq(Nat)

(* Requests are admitted, read, answered and counted as they should be,     *)
(* arguments fit the schema, and what is kept of requests stays bounded.    *)
RequestsSound ==
    /\ part = "headers" => HeadersAreLocal(ask)
    /\ part = "body" => BodyIsBounded(ask)
    /\ part = "envelope" => RepliesFit(ask.text, ask.req)
    /\ part = "result" => ResultIsCountedAsTold(ask.code, ask.out)
    /\ part = "offers" => OffersHold(ask.prompts, ask.resources)
    /\ part = "argument" => ArgumentFitsSchema(ask.value, ask.a, [x |-> ask.value, y |-> ask.value],
                                               [x |-> ask.a, _meta |-> ask.a])
    /\ part = "sessions" => SessionsAreTheLatest(ask)
    /\ part = "sizes" => NumbersAreBounded(ask)
=============================================================================

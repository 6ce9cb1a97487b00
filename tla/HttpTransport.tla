--------------------------- MODULE HttpTransport ---------------------------
(***************************************************************************)
(* The long-lived connections of the HTTP server (zeromcp/mcp.py).  A      *)
(* legacy client opens GET /sse, learns its session from the `endpoint`    *)
(* event and posts to /sse?session=...: the reply travels on the GET       *)
(* stream, written by the POST's thread, while the GET's own thread pings, *)
(* watches the socket and takes the stream down.  GET /mcp is a stream     *)
(* nobody posts to.  What a request does is in Requests and ToolCalls.     *)
(***************************************************************************)
EXTENDS Naturals

CONSTANTS
    Streams,    \* the GET /sse connections, each with a session of its own
    Plain,      \* the GET /mcp connections
    Posters,    \* threads that serve POST /sse
    Free        \* nobody holds a stream's lock

ASSUME HttpAssumption ==
    /\ Streams \intersect Plain = {}
    /\ Free \notin Posters \union Streams

VARIABLES
    running,    \* McpServer._running
    table,      \* McpServer._sse_connections
    get,        \* each GET's handler
    alive,      \* _McpSseConnection.alive
    lock,       \* _McpSseConnection._lock: a poster, the stream itself or Free
    client,     \* each GET's peer: reads, does not read, has closed
    dying,      \* DELETEs between their pop and their `alive = False`
    post,       \* each POST's thread
    to,         \* its connection
    fate,       \* what became of its reply
    excuse      \* streams whose client left or lagged, that were deleted, or
                \* that lived through a stop

server == <<running, table, alive, dying>>
posts == <<post, to, fate>>
vars == <<server, posts, get, lock, client, excuse>>

All == Streams \union Plain

Init ==
    /\ running = TRUE /\ table = {} /\ dying = {} /\ excuse = {}
    /\ get = [g \in All |-> "none"]
    /\ alive = [g \in Streams |-> TRUE]
    /\ lock = [g \in Streams |-> Free]
    /\ client = [g \in All |-> "reads"]
    /\ post = [p \in Posters |-> "idle"]
    /\ to \in [Posters -> Streams] /\ fate = [p \in Posters |-> "none"]

At(g, place) == get' = [get EXCEPT ![g] = place]
On(p, place) == post' = [post EXCEPT ![p] = place]
Kill(g) == alive' = IF g \in Streams THEN [alive EXCEPT ![g] = FALSE] ELSE alive
Alive(g) == g \in Plain \/ alive[g]
Written(g) == client[g] = "reads" /\ get[g] # "closed"

(***************************************************************************)
(* The GET handlers.                                                       *)
(***************************************************************************)

(* A connection is registered before anything is sent. *)
Connect(g) ==
    /\ running /\ get[g] = "none" /\ At(g, "registered")
    /\ table' = IF g \in Streams THEN table \union {g} ELSE table
    /\ UNCHANGED <<running, alive, dying, posts, lock, client, excuse>>

(* Headers and the endpoint event; nobody else knows the session yet. *)
Greet(g) ==
    /\ get[g] = "registered"
    /\ IF client[g] = "gone" THEN At(g, "leaving") /\ Kill(g)
                             ELSE At(g, "streaming") /\ UNCHANGED alive
    /\ UNCHANGED <<running, table, dying, posts, lock, client, excuse>>

(* Mutant: the loop does not look at `alive`. *)
EndStreamUnlessDeleted(g) ==
    /\ get[g] = "streaming" /\ At(g, "leaving")
    /\ ~running \/ client[g] = "gone"
    /\ Kill(g)
    /\ UNCHANGED <<running, table, dying, posts, lock, client, excuse>>

(* `while conn.alive and _running`, with a select on the socket: on the way *)
(* out `finally` first sets alive to False.                                *)
EndStream(g) ==
    /\ get[g] = "streaming" /\ At(g, "leaving")
    /\ ~Alive(g) \/ ~running \/ client[g] = "gone"
    /\ Kill(g)
    /\ UNCHANGED <<running, table, dying, posts, lock, client, excuse>>

(* Mutant: the loop is left after a ping that was sent. *)
PingAndLeave(g) ==
    /\ get[g] = "streaming"
    /\ g \in Streams => lock[g] = Free
    /\ At(g, "leaving") /\ Kill(g)
    /\ UNCHANGED <<running, table, dying, posts, lock, client, excuse>>

(* Mutant: a ping that fails leaves by an early return, with the lock. *)
PingKeepsLock(g) ==
    /\ get[g] = "streaming"
    /\ g \in Streams => lock[g] = Free
    /\ ~(Alive(g) /\ Written(g))
    /\ At(g, "leaving") /\ Kill(g)
    /\ lock' = IF g \in Streams THEN [lock EXCEPT ![g] = g] ELSE lock
    /\ UNCHANGED <<running, table, dying, posts, client, excuse>>

(* A ping goes through send_event on /sse, and straight out on /mcp, whose *)
(* socket has no timeout: there it fails for a client that has gone only.  *)
Ping(g) ==
    /\ get[g] = "streaming"
    /\ g \in Streams => lock[g] = Free
    /\ ~(Alive(g) /\ Written(g)) /\ (g \in Plain => client[g] = "gone")
    /\ At(g, "leaving") /\ Kill(g)
    /\ UNCHANGED <<running, table, dying, posts, lock, client, excuse>>

(* Mutant: `finally` forgets the table. *)
UnlistNot(g) ==
    /\ get[g] = "leaving" /\ At(g, "unlisted")
    /\ UNCHANGED <<server, posts, lock, client, excuse>>

Unlist(g) ==
    /\ get[g] = "leaving" /\ At(g, "unlisted")
    /\ table' = table \ {g}
    /\ UNCHANGED <<running, alive, dying, posts, lock, client, excuse>>

(* The handler's thread waits for another request on the connection: one   *)
(* second on /sse, whose socket has a timeout, for ever on /mcp.           *)
Close(g) ==
    /\ get[g] = "unlisted" /\ At(g, "closed")
    /\ g \in Plain => client[g] = "gone"
    /\ UNCHANGED <<server, posts, lock, client, excuse>>

(***************************************************************************)
(* POST /sse?session=...                                                   *)
(***************************************************************************)

(* Connections of POSTs are kept alive and served even after stop(). *)
Arrive(p, g) ==
    /\ post[p] = "idle" /\ get[g] \notin {"none", "registered"}
    /\ On(p, "lookup") /\ to' = [to EXCEPT ![p] = g] /\ fate' = [fate EXCEPT ![p] = "none"]
    /\ UNCHANGED <<server, get, lock, client, excuse>>

(* The table under _sse_lock, then `alive` without it: 400 unless both. *)
LookUp(p) ==
    /\ post[p] = "lookup"
    /\ \E body \in {"reading", "waiting"} :
          On(p, IF to[p] \in table /\ alive[to[p]] THEN body ELSE "idle")
    /\ UNCHANGED <<server, to, fate, get, lock, client, excuse>>

(* The socket of a POST has no timeout: _read_body waits until the client  *)
(* has sent the whole body it announced, or has closed.                    *)
BodyArrives(p) ==
    /\ post[p] = "waiting" /\ On(p, "reading")
    /\ UNCHANGED <<server, to, fate, get, lock, client, excuse>>

(* _read_body has answered 400 or 413, or the request is dispatched: a     *)
(* notification has no reply.                                              *)
ReadAndDispatch(p) ==
    /\ post[p] = "reading"
    /\ \/ On(p, "idle") /\ UNCHANGED fate
       \/ On(p, "ack") /\ UNCHANGED fate
       \/ On(p, "reply") /\ fate' = [fate EXCEPT ![p] = "due"]
    /\ UNCHANGED <<server, to, get, lock, client, excuse>>

(* Mutant: no lock around check, write and flush. *)
GrabFree(p) ==
    /\ post[p] = "reply"
    /\ On(p, IF alive[to[p]] THEN "write" ELSE "ack")
    /\ fate' = [fate EXCEPT ![p] = IF alive[to[p]] THEN "due" ELSE "lost"]
    /\ lock' = IF alive[to[p]] THEN [lock EXCEPT ![to[p]] = p] ELSE lock
    /\ UNCHANGED <<server, to, get, client, excuse>>

(* send_event takes the lock and looks at `alive`. *)
Grab(p) ==
    /\ post[p] = "reply" /\ lock[to[p]] = Free
    /\ On(p, IF alive[to[p]] THEN "write" ELSE "ack")
    /\ fate' = [fate EXCEPT ![p] = IF alive[to[p]] THEN "due" ELSE "lost"]
    /\ lock' = IF alive[to[p]] THEN [lock EXCEPT ![to[p]] = p] ELSE lock
    /\ UNCHANGED <<server, to, get, client, excuse>>

(* A write fails when the peer is gone, does not read for a second, or     *)
(* when the GET's handler has closed the socket.                           *)
Write(p) ==
    LET g == to[p] IN
    /\ post[p] = "write"
    /\ IF Written(g)
       THEN On(p, "flush") /\ UNCHANGED <<fate, alive, lock>>
       ELSE /\ On(p, "ack") /\ fate' = [fate EXCEPT ![p] = "lost"]
            /\ Kill(g) /\ lock' = [lock EXCEPT ![g] = Free]
    /\ UNCHANGED <<running, table, dying, to, get, client, excuse>>

(* flush() on a file the GET's handler has closed meanwhile raises          *)
(* ValueError, which nothing here catches: the POST gets no reply at all.  *)
Flush(p) ==
    LET g == to[p] IN
    /\ post[p] = "flush"
    /\ On(p, IF get[g] = "closed" THEN "idle" ELSE "ack")
    /\ fate' = [fate EXCEPT ![p] = IF get[g] = "closed" THEN "unacked" ELSE "sent"]
    /\ lock' = [lock EXCEPT ![g] = Free]
    /\ UNCHANGED <<server, to, get, client, excuse>>

(* 202, whatever send_event said. *)
Ack(p) ==
    /\ post[p] = "ack" /\ On(p, "idle")
    /\ UNCHANGED <<server, to, fate, get, lock, client, excuse>>

(***************************************************************************)
(* DELETE, stop, serve and the clients.                                    *)
(***************************************************************************)

DeletePops(g) ==
    /\ get[g] \notin {"none", "registered"} /\ g \in table
    /\ table' = table \ {g} /\ dying' = dying \union {g}
    /\ excuse' = excuse \union {g}
    /\ UNCHANGED <<running, alive, posts, get, lock, client>>

DeleteKills(g) ==
    /\ g \in dying /\ dying' = dying \ {g} /\ Kill(g)
    /\ UNCHANGED <<running, table, posts, get, lock, client, excuse>>

Stop ==
    /\ running /\ running' = FALSE
    /\ excuse' = excuse \union {g \in All : get[g] # "none"}
    /\ UNCHANGED <<table, alive, dying, posts, get, lock, client>>

(* The same McpServer serves again; its streams may not have noticed. *)
Serve ==
    /\ ~running /\ running' = TRUE
    /\ UNCHANGED <<table, alive, dying, posts, get, lock, client, excuse>>

ClientTurns(g, how) ==
    /\ get[g] # "none" /\ client[g] # "gone"
    /\ how = "lags" => get[g] = "streaming"
    /\ client' = [client EXCEPT ![g] = how]
    /\ excuse' = excuse \union {g}
    /\ UNCHANGED <<server, posts, get, lock>>

Handler(g) == Greet(g) \/ EndStream(g) \/ Unlist(g) \/ Close(g)
Poster(p) == LookUp(p) \/ ReadAndDispatch(p) \/ Write(p) \/ Flush(p) \/ Ack(p)

Next ==
    \/ \E g \in All : Connect(g) \/ Handler(g) \/ Ping(g)
    \/ \E p \in Posters : BodyArrives(p) \/ Poster(p) \/ Grab(p)
    \/ \E p \in Posters, g \in Streams : Arrive(p, g)
    \/ \E g \in Streams : DeletePops(g) \/ DeleteKills(g)
    \/ Stop \/ Serve
    \/ \E g \in All, how \in {"reads", "lags", "gone"} : ClientTurns(g, how)

Spec == Init /\ [][Next]_vars

(* Threads run; the lock of a stream is held for one write, which the      *)
(* socket's timeout bounds, so that a waiting writer gets its turn.  A     *)
(* client need never send the body it announced.                           *)
Fairness ==
    /\ \A g \in All : WF_vars(Handler(g))
    /\ \A p \in Posters : WF_vars(Poster(p)) /\ SF_vars(Grab(p))
    /\ \A g \in Streams : WF_vars(DeleteKills(g))

FairSpec == Spec /\ Fairness

(***************************************************************************)
(* Properties.                                                             *)
(***************************************************************************)
TypeOK ==
    /\ running \in BOOLEAN /\ table \subseteq Streams /\ dying \subseteq Streams
    /\ get \in [All -> {"none", "registered", "streaming", "leaving", "unlisted", "closed"}]
    /\ alive \in [Streams -> BOOLEAN]
    /\ lock \in [Streams -> Posters \union {Free}]
    /\ client \in [All -> {"reads", "lags", "gone"}]
    /\ post \in [Posters -> {"idle", "lookup", "waiting", "reading", "reply", "write", "flush", "ack"}]
    /\ to \in [Posters -> Streams]
    /\ fate \in [Posters -> {"none", "due", "sent", "lost", "unacked"}]
    /\ excuse \subseteq All

(* The table holds live handlers only, and every stream that can be posted *)
(* to is found in it until a DELETE takes it out.                          *)
TableIsLive ==
    /\ \A g \in table : get[g] \in {"registered", "streaming", "leaving"}
    /\ \A g \in Streams \ table : get[g] = "streaming" => g \in excuse

(* A reply gets lost, and a POST stays without its 202, only through the   *)
(* stream's client, a DELETE or a stop; two replies never mix on a stream. *)
RepliesReachStream ==
    /\ \A p \in Posters : fate[p] \in {"lost", "unacked"} => to[p] \in excuse
    /\ \A g \in Streams : { p \in Posters : to[p] = g /\ post[p] \in {"write", "flush"} }
                            = IF lock[g] = Free THEN {} ELSE {lock[g]}

(* Both: what is posted to a stream that is up arrives on it, and whole.   *)
StreamsKept == TableIsLive /\ RepliesReachStream

(* Every POST comes to its end or to wait for the body its client has not  *)
(* sent, and to its end once that is there (nothing waits a second time);  *)
(* a stream whose client has gone, or that was deleted, ends however many  *)
(* POSTs still wait or answer on it.                                       *)
StreamsAndPostsEnd ==
    /\ \A p \in Posters : (post[p] \notin {"idle", "waiting"}) ~> (post[p] \in {"idle", "waiting"})
    /\ \A g \in All : (client[g] = "gone" /\ get[g] # "none") ~> (get[g] = "closed")
    /\ \A g \in Streams : (g \in dying) ~> (get[g] = "closed")
=============================================================================

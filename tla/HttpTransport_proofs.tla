------------------------ MODULE HttpTransport_proofs ------------------------
(***************************************************************************)
(* For any number of streams and posters: the table leads to handlers that *)
(* live, a stream has one writer at a time, and a reply is lost only        *)
(* through the stream's client, a DELETE or a stop.                        *)
(***************************************************************************)
EXTENDS HttpTransport, TLAPS

(* Whatever stands in the way of a reply has an excuse: a stream that is    *)
(* not alive, not in the table or on its way out, a server that does not    *)
(* run, a client that does not read.                                       *)
Blamed ==
    /\ dying \subseteq excuse
    /\ \A g \in Streams : ~ alive[g] => g \in excuse
    /\ \A g \in Streams \ table : get[g] # "none" => g \in excuse
    /\ \A g \in All : get[g] \in {"leaving", "unlisted", "closed"} => g \in excuse
    /\ \A g \in All : ~ running /\ get[g] # "none" => g \in excuse
    /\ \A g \in All : client[g] # "reads" => g \in excuse

Listed == \A g \in table : get[g] \in {"registered", "streaming", "leaving"}
Excused == \A p \in Posters : fate[p] \in {"lost", "unacked"} => to[p] \in excuse

Writing(p) == post[p] \in {"write", "flush"}
OneWriter ==
    \A p \in Posters, g \in Streams : lock[g] = p <=> (to[p] = g /\ Writing(p))

IInv == TypeOK /\ Blamed /\ Listed /\ Excused /\ OneWriter

LEMMA InitIInv == Init => IInv
  BY HttpAssumption DEF Init, IInv, TypeOK, Blamed, Listed, Excused, OneWriter, Writing, All

(* Every variable keeps its type. *)
LEMMA TypeStep == TypeOK /\ [Next]_vars => TypeOK'
<1> SUFFICES ASSUME TypeOK, [Next]_vars PROVE TypeOK'
  OBVIOUS
<1> USE HttpAssumption DEF TypeOK, server, posts, All, At, On, Kill
<1>1. ASSUME NEW g \in All, Connect(g) PROVE TypeOK'
  BY <1>1 DEF Connect
<1>2. ASSUME NEW g \in All, Greet(g) PROVE TypeOK'
  BY <1>2 DEF Greet
<1>3. ASSUME NEW g \in All, EndStream(g) PROVE TypeOK'
  BY <1>3 DEF EndStream
<1>4. ASSUME NEW g \in All, Unlist(g) \/ Close(g) PROVE TypeOK'
  BY <1>4 DEF Unlist, Close
<1>5. ASSUME NEW g \in All, Ping(g) PROVE TypeOK'
  BY <1>5 DEF Ping
<1>6. ASSUME NEW p \in Posters, LookUp(p) \/ BodyArrives(p) \/ ReadAndDispatch(p) \/ Ack(p) PROVE TypeOK'
  BY <1>6 DEF LookUp, BodyArrives, ReadAndDispatch, Ack
<1>7. ASSUME NEW p \in Posters, Write(p) PROVE TypeOK'
  BY <1>7 DEF Write
<1>8. ASSUME NEW p \in Posters, Flush(p) PROVE TypeOK'
  BY <1>8 DEF Flush
<1>9. ASSUME NEW p \in Posters, Grab(p) PROVE TypeOK'
  BY <1>9 DEF Grab
<1>10. ASSUME NEW p \in Posters, NEW g \in Streams, Arrive(p, g) PROVE TypeOK'
  BY <1>10 DEF Arrive
<1>11. ASSUME NEW g \in Streams, DeletePops(g) \/ DeleteKills(g) PROVE TypeOK'
  BY <1>11 DEF DeletePops, DeleteKills
<1>12. CASE Stop \/ Serve
  BY <1>12 DEF Stop, Serve
<1>13. ASSUME NEW g \in All, NEW how \in {"reads", "lags", "gone"}, ClientTurns(g,
how) PROVE TypeOK'
  BY <1>13 DEF ClientTurns
<1>14. CASE UNCHANGED vars
  BY <1>14 DEF vars
<1>. QED
  BY <1>1, <1>2, <1>3, <1>4, <1>5, <1>6, <1>7, <1>8, <1>9, <1>10, <1>11, <1>12, <1>13, <1>14
  DEF Next, Handler, Poster

(* No step takes a stream down without an excuse, nor an excuse back. *)
LEMMA BlameStep == IInv /\ [Next]_vars => (Blamed /\ Listed /\ Excused)'
<1> SUFFICES ASSUME IInv, [Next]_vars PROVE (Blamed /\ Listed /\ Excused)'
  OBVIOUS
<1> USE HttpAssumption DEF IInv, TypeOK, Blamed, Listed, Excused, server, posts, All, At, On, Kill
<1>1. ASSUME NEW g \in All, Connect(g) PROVE (Blamed /\ Listed /\ Excused)'
  BY <1>1 DEF Connect
<1>2. ASSUME NEW g \in All, Greet(g) PROVE (Blamed /\ Listed /\ Excused)'
  <2>1. /\ get' \in {[get EXCEPT ![g] = "leaving"], [get EXCEPT ![g] = "streaming"]}
        /\ get'[g] = "leaving" => g \in excuse
        /\ get[g] = "registered"
    BY <1>2 DEF Greet
  <2>2. alive' = alive \/ (g \in excuse /\ g \in Streams /\ alive' = [alive EXCEPT ![g] = FALSE])
    BY <1>2 DEF Greet
  <2>3. UNCHANGED <<running, table, dying, posts, client, excuse>>
    BY <1>2 DEF Greet
  <2>4. Blamed'
    <3>1. \A s \in Streams : ~ alive'[s] => s \in excuse'
      <4>1. CASE alive' = alive
        BY <2>3, <4>1
      <4>2. CASE g \in excuse /\ g \in Streams /\ alive' = [alive EXCEPT ![g] = FALSE]
        BY <2>3, <4>2
      <4>. QED
        BY <2>2, <4>1, <4>2
    <3>2. \A s \in Streams \ table' : get'[s] # "none" => s \in excuse'
      BY <2>1, <2>3
    <3>3. \A s \in All : get'[s] \in {"leaving", "unlisted", "closed"} => s \in excuse'
      BY <2>1, <2>3
    <3>4. \A s \in All : ~ running' /\ get'[s] # "none" => s \in excuse'
      BY <2>1, <2>3
    <3>. QED
      BY <2>3, <3>1, <3>2, <3>3, <3>4
  <2>5. (Listed /\ Excused)'
    BY <2>1, <2>3
  <2>. QED
    BY <2>4, <2>5
<1>3. ASSUME NEW g \in All, EndStream(g) PROVE (Blamed /\ Listed /\ Excused)'
  BY <1>3 DEF EndStream, Alive
<1>4. ASSUME NEW g \in All, Unlist(g) \/ Close(g) PROVE (Blamed /\ Listed /\ Excused)'
  <2>1. g \in excuse
    BY <1>4 DEF Unlist, Close
  <2>2. CASE Unlist(g)
    BY <2>1, <2>2 DEF Unlist
  <2>3. CASE Close(g)
    BY <2>1, <2>3 DEF Close
  <2>. QED
    BY <1>4, <2>2, <2>3
<1>5. ASSUME NEW g \in All, Ping(g) PROVE (Blamed /\ Listed /\ Excused)'
  BY <1>5 DEF Ping, Alive, Written
<1>6. ASSUME NEW p \in Posters, LookUp(p) \/ BodyArrives(p) \/ ReadAndDispatch(p) \/ Ack(p)
      PROVE (Blamed /\ Listed /\ Excused)'
  BY <1>6 DEF LookUp, BodyArrives, ReadAndDispatch, Ack
<1>7. ASSUME NEW p \in Posters, Write(p) PROVE (Blamed /\ Listed /\ Excused)'
  <2>1. CASE Written(to[p])
    BY <1>7, <2>1 DEF Write
  <2>2. CASE ~ Written(to[p])
    <3>1. to[p] \in Streams /\ to[p] \in excuse
      BY <2>2 DEF Written
    <3>. QED
      BY <1>7, <2>2, <3>1 DEF Write
  <2>. QED
    BY <2>1, <2>2
<1>8. ASSUME NEW p \in Posters, Flush(p) PROVE (Blamed /\ Listed /\ Excused)'
  BY <1>8 DEF Flush
<1>9. ASSUME NEW p \in Posters, Grab(p) PROVE (Blamed /\ Listed /\ Excused)'
  BY <1>9 DEF Grab
<1>10. ASSUME NEW p \in Posters, NEW g \in Streams, Arrive(p, g)
       PROVE (Blamed /\ Listed /\ Excused)'
  BY <1>10 DEF Arrive
<1>11. ASSUME NEW g \in Streams, DeletePops(g) \/ DeleteKills(g)
       PROVE (Blamed /\ Listed /\ Excused)'
  BY <1>11 DEF DeletePops, DeleteKills
<1>12. CASE Stop \/ Serve
  BY <1>12 DEF Stop, Serve
<1>13. ASSUME NEW g \in All, NEW how \in {"reads", "lags", "gone"}, ClientTurns(g, how)
       PROVE (Blamed /\ Listed /\ Excused)'
  BY <1>13 DEF ClientTurns
<1>14. CASE UNCHANGED vars
  BY <1>14 DEF vars
<1>. QED
  BY <1>1, <1>2, <1>3, <1>4, <1>5, <1>6, <1>7, <1>8, <1>9, <1>10, <1>11, <1>12, <1>13, <1>14
  DEF Next, Handler, Poster

(* The lock of a stream is held by the poster that is writing on it. *)
LEMMA WriterStep == TypeOK /\ OneWriter /\ [Next]_vars => OneWriter'
<1> SUFFICES ASSUME TypeOK, OneWriter, [Next]_vars, NEW q \in Posters, NEW h \in Streams
             PROVE  lock'[h] = q <=> (to'[q] = h /\ post'[q] \in {"write", "flush"})
  BY DEF OneWriter, Writing
<1> DEFINE Goal == lock'[h] = q <=> (to'[q] = h /\ post'[q] \in {"write", "flush"})
<1>1. /\ lock[h] = q <=> (to[q] = h /\ post[q] \in {"write", "flush"})
      /\ to \in [Posters -> Streams] /\ DOMAIN post = Posters /\ DOMAIN lock = Streams
      /\ lock[h] \in Posters \union {Free} /\ Free \notin Posters
  BY HttpAssumption DEF TypeOK, OneWriter, Writing
<1>2. ASSUME NEW p \in Posters, LookUp(p) \/ BodyArrives(p) \/ ReadAndDispatch(p) \/ Ack(p) PROVE Goal
  BY <1>1, <1>2 DEF LookUp, BodyArrives, ReadAndDispatch, Ack, On
<1>3. ASSUME NEW p \in Posters, Write(p) PROVE Goal
  <2>1. lock[to[p]] = p
    BY <1>3 DEF Write, OneWriter, Writing, TypeOK
  <2>. QED
    BY <1>1, <1>3, <2>1 DEF Write, On
<1>4. ASSUME NEW p \in Posters, Flush(p) PROVE Goal
  <2>1. lock[to[p]] = p
    BY <1>4 DEF Flush, OneWriter, Writing, TypeOK
  <2>. QED
    BY <1>1, <1>4, <2>1 DEF Flush, On
<1>5. ASSUME NEW p \in Posters, Grab(p) PROVE Goal
  <2>1. CASE alive[to[p]]
    <3>1. to[p] \in Streams /\ lock[to[p]] = Free
      BY <1>1, <1>5 DEF Grab
    <3>2. lock' = [lock EXCEPT ![to[p]] = p] /\ to' = to /\ post' = [post EXCEPT ![p] = "write"]
      BY <1>5, <2>1 DEF Grab, On
    <3>3. post[p] \notin {"write", "flush"}
      BY <1>5 DEF Grab
    <3>. QED
      BY <1>1, <3>1, <3>2, <3>3
  <2>2. CASE ~ alive[to[p]]
    BY <1>1, <1>5, <2>2 DEF Grab, On
  <2>. QED
    BY <2>1, <2>2
<1>6. ASSUME NEW p \in Posters, NEW g \in Streams, Arrive(p, g) PROVE Goal
  BY <1>1, <1>6 DEF Arrive, On
<1>7. ASSUME post' = post, to' = to, lock' = lock PROVE Goal
  BY <1>1, <1>7
<1>8. ASSUME NEW g \in All, Connect(g) \/ Handler(g) \/ Ping(g) PROVE Goal
  BY <1>7, <1>8 DEF Connect, Handler, Greet, EndStream, Unlist, Close, Ping, posts
<1>9. ASSUME NEW g \in Streams, DeletePops(g) \/ DeleteKills(g) PROVE Goal
  BY <1>7, <1>9 DEF DeletePops, DeleteKills, posts
<1>10. ASSUME Stop \/ Serve PROVE Goal
  BY <1>7, <1>10 DEF Stop, Serve, posts
<1>11. ASSUME NEW g \in All, NEW how \in {"reads", "lags", "gone"}, ClientTurns(g, how) PROVE Goal
  BY <1>7, <1>11 DEF ClientTurns, posts
<1>12. ASSUME UNCHANGED vars PROVE Goal
  BY <1>7, <1>12 DEF vars, posts
<1> HIDE DEF Goal
<1>13. Goal
  BY <1>2, <1>3, <1>4, <1>5, <1>6, <1>8, <1>9, <1>10, <1>11, <1>12 DEF Next, Poster
<1>. QED
  BY <1>13 DEF Goal

LEMMA Invariant == Spec => []IInv
<1>1. IInv /\ [Next]_vars => IInv'
  BY TypeStep, BlameStep, WriterStep DEF IInv
<1>. QED
  BY InitIInv, <1>1, PTL DEF Spec

(* Every variable keeps its type; a lock is held by a poster or by nobody. *)
THEOREM TypeCorrect == Spec => []TypeOK
<1>1. IInv => TypeOK
  BY DEF IInv
<1>. QED
  BY Invariant, <1>1, PTL

(* The table leads to live handlers, replies are lost only with an excuse,  *)
(* and two replies never mix on a stream (_McpSseConnection.send_event).   *)
THEOREM StreamsKeptAlways == Spec => []StreamsKept
<1>1. IInv => TableIsLive
  BY DEF IInv, Blamed, Listed, TableIsLive
<1>2. ASSUME IInv, NEW g \in Streams
      PROVE {p \in Posters : to[p] = g /\ post[p] \in {"write", "flush"}}
              = IF lock[g] = Free THEN {} ELSE {lock[g]}
  <2>1. lock[g] \in Posters \union {Free} /\ Free \notin Posters
    BY <1>2, HttpAssumption DEF IInv, TypeOK
  <2>2. \A p \in Posters : lock[g] = p <=> (to[p] = g /\ post[p] \in {"write", "flush"})
    BY <1>2 DEF IInv, OneWriter, Writing
  <2>. QED
    BY <2>1, <2>2
<1>3. IInv => RepliesReachStream
  BY <1>2 DEF IInv, Excused, RepliesReachStream
<1>. QED
  BY Invariant, <1>1, <1>3, PTL DEF StreamsKept
=============================================================================

-------------------------- MODULE Instances_proofs --------------------------
(***************************************************************************)
(* For any number of IDA processes, ports and starts, shared ports and     *)
(* restarts included: a process serves what it believes to own, a stop     *)
(* leaves neither socket nor file, a scan condemns stale registrations     *)
(* only, and a server is found by its file unless one of the things the    *)
(* code does not prevent took it away.                                     *)
(***************************************************************************)
EXTENDS Instances, TLAPS

(* Who may be where: one that takes its registration back does not serve,  *)
(* and one about to register has its port.                                 *)
Placed ==
    /\ \A p \in running : at[p] \notin {"unregister", "exit"}
    /\ \A p \in alive : at[p] = "register" => p \in running \union cut /\ listener[port[p]] = p

(* Sockets: a bound port is its holder's own, and a server has its port.   *)
Bound ==
    /\ \A n \in Ports : listener[n] # None =>
           port[listener[n]] = n /\ listener[n] \in running \union cut
    /\ \A p \in running : listener[port[p]] = p /\ own[p] = port[p]
    /\ \A p \in alive : own[p] # None => own[p] = port[p] /\ p \in running \union cut

(* Files: the pid in one belongs to the port, its start was a start of it, *)
(* and the process, if it still exists, serves, or is about to remove the  *)
(* file, or has failed to.                                                 *)
Filed ==
    \A n \in Ports : file[n].pid # None =>
        /\ port[file[n].pid] = n /\ file[n].start <= starts[file[n].pid]
        /\ file[n].pid \in alive => \/ file[n].pid \in running \union cut \union failed
                                    \/ at[file[n].pid] \in {"unregister", "exit"}

(* What a scan has read was once in the file.                              *)
SeenOnce ==
    \A p \in Procs : at[p] \in {"probe", "unlink"} =>
        /\ seen[p].port # None
        /\ seen[p].reg.pid # None => /\ port[seen[p].reg.pid] = seen[p].port
                                    /\ seen[p].reg.start <= starts[seen[p].reg.pid]

(* What a scan found stale is stale, and stays so. *)
Condemned == \A p \in Procs : at[p] = "unlink" => ~Current(seen[p].reg)

IInv == TypeOK /\ Placed /\ Bound /\ Filed /\ SeenOnce /\ Condemned /\ RunningIsListed

LEMMA InitIInv == Init => IInv
<1>1. NoFile \in Registration /\ NoFile.pid = None
  BY InstancesAssumption DEF NoFile, Registration
<1>. QED
  BY <1>1, InstancesAssumption
  DEF Init, IInv, TypeOK, Placed, Bound, Filed, SeenOnce, Condemned, RunningIsListed

(* Every variable keeps its type; a process that exits leaves no socket. *)
LEMMA TypeStep == TypeOK /\ Placed /\ [Next]_vars => TypeOK'
<1> SUFFICES ASSUME TypeOK /\ Placed, [Next]_vars PROVE TypeOK'
  OBVIOUS
<1>0. NoFile \in Registration /\ NoFile.pid = None /\ None \notin Procs
  BY InstancesAssumption DEF NoFile, Registration
<1> USE <1>0, InstancesAssumption DEF TypeOK, Placed, Registration, Current, AtIdle, Goto, scan
<1>1. ASSUME NEW p \in Procs, Serve(p) PROVE TypeOK'
  BY <1>1 DEF Serve
<1>2. ASSUME NEW p \in Procs, Register(p) PROVE TypeOK'
  BY <1>2 DEF Register
<1>3. ASSUME NEW p \in Procs, ServingEnds(p) PROVE TypeOK'
  BY <1>3 DEF ServingEnds
<1>4. ASSUME NEW p \in Procs, NEW next \in {"unregister", "exit"}, Stop(p, next) PROVE TypeOK'
  BY <1>4 DEF Stop, StopWith, Closed
<1>5. ASSUME NEW p \in Procs, Unregister(p) PROVE TypeOK'
  BY <1>5 DEF Unregister, UnregisterPort
<1>6. ASSUME NEW p \in Procs, CloseInterrupted(p) PROVE TypeOK'
  BY <1>6 DEF CloseInterrupted, Closed
<1>7. ASSUME NEW p \in Procs, Crash(p) PROVE TypeOK'
  BY <1>7 DEF Crash
<1>8. ASSUME NEW p \in Procs, ScanBegin(p) PROVE TypeOK'
  BY <1>8 DEF ScanBegin
<1>9. ASSUME NEW p \in Procs, NEW n \in Ports, ScanRead(p, n) PROVE TypeOK'
  BY <1>9 DEF ScanRead
<1>10. ASSUME NEW p \in Procs, ScanProbe(p) PROVE TypeOK'
  BY <1>10 DEF ScanProbe
<1>11. ASSUME NEW p \in Procs, ScanUnlink(p) PROVE TypeOK'
  <2>1. file' \in [Ports -> Registration]
    <3>1. file' = file \/ \E n : file' = [file EXCEPT ![n] = NoFile]
      BY <1>11 DEF ScanUnlink
    <3>. QED
      BY <1>0, <3>1
  <2>2. robbed' \subseteq Procs
    BY <1>11 DEF ScanUnlink
  <2>3. at' \in [Procs -> {"idle", "register", "unregister", "exit", "scan", "probe", "unlink"}]
    BY <1>11 DEF ScanUnlink
  <2>. QED
    BY <1>11, <2>1, <2>2, <2>3 DEF ScanUnlink
<1>12. ASSUME NEW p \in Procs, ScanEnd(p) PROVE TypeOK'
  BY <1>12 DEF ScanEnd
<1>13. CASE UNCHANGED vars
  BY <1>13 DEF vars
<1>. QED
  BY <1>1, <1>2, <1>3, <1>4, <1>5, <1>6, <1>7, <1>8, <1>9, <1>10, <1>11, <1>12, <1>13 DEF Next

(* A server is only stopped between two of its tools, and a port goes from *)
(* its server back to nobody, never to somebody else.                      *)
LEMMA BoundStep == TypeOK /\ Placed /\ Bound /\ [Next]_vars => (Placed /\ Bound)'
<1> SUFFICES ASSUME TypeOK /\ Placed /\ Bound, [Next]_vars PROVE (Placed /\ Bound)'
  OBVIOUS
<1>0. NoFile \in Registration /\ NoFile.pid = None /\ None \notin Procs
  BY InstancesAssumption DEF NoFile, Registration
<1> USE <1>0, InstancesAssumption DEF TypeOK, Placed, Bound, AtIdle, Goto, scan
<1>1. ASSUME NEW p \in Procs, Serve(p) PROVE (Placed /\ Bound)'
  BY <1>1 DEF Serve
<1>2. ASSUME NEW p \in Procs, Register(p) PROVE (Placed /\ Bound)'
  BY <1>2 DEF Register
<1>3. ASSUME NEW p \in Procs, ServingEnds(p) PROVE (Placed /\ Bound)'
  BY <1>3 DEF ServingEnds
<1>4. ASSUME NEW p \in Procs, NEW next \in {"unregister", "exit"}, Stop(p, next) PROVE (Placed /\ Bound)'
  BY <1>4 DEF Stop, StopWith, Closed
<1>5. ASSUME NEW p \in Procs, Unregister(p) PROVE (Placed /\ Bound)'
  BY <1>5 DEF Unregister, UnregisterPort
<1>6. ASSUME NEW p \in Procs, CloseInterrupted(p) PROVE (Placed /\ Bound)'
  BY <1>6 DEF CloseInterrupted, Closed
<1>7. ASSUME NEW p \in Procs, Crash(p) PROVE (Placed /\ Bound)'
  BY <1>7 DEF Crash
<1>8. ASSUME NEW p \in Procs, ScanBegin(p) PROVE (Placed /\ Bound)'
  BY <1>8 DEF ScanBegin
<1>9. ASSUME NEW p \in Procs, NEW n \in Ports, ScanRead(p, n) PROVE (Placed /\ Bound)'
  BY <1>9 DEF ScanRead
<1>10. ASSUME NEW p \in Procs, ScanProbe(p) PROVE (Placed /\ Bound)'
  BY <1>10 DEF ScanProbe
<1>11. ASSUME NEW p \in Procs, ScanUnlink(p) PROVE (Placed /\ Bound)'
  BY <1>11 DEF ScanUnlink
<1>12. ASSUME NEW p \in Procs, ScanEnd(p) PROVE (Placed /\ Bound)'
  BY <1>12 DEF ScanEnd
<1>13. CASE UNCHANGED vars
  BY <1>13 DEF vars
<1>. QED
  BY <1>1, <1>2, <1>3, <1>4, <1>5, <1>6, <1>7, <1>8, <1>9, <1>10, <1>11, <1>12, <1>13 DEF Next

(* No process is left listed by a stop that was not cut short. *)
LEMMA FiledStep == TypeOK /\ Placed /\ Filed /\ [Next]_vars => Filed'
<1> SUFFICES ASSUME TypeOK /\ Placed /\ Filed, [Next]_vars PROVE Filed'
  OBVIOUS
<1>0. NoFile \in Registration /\ NoFile.pid = None /\ None \notin Procs
  BY InstancesAssumption DEF NoFile, Registration
<1> USE <1>0, InstancesAssumption DEF TypeOK, Placed, Filed, Registration, AtIdle, Goto, scan
<1>1. ASSUME NEW p \in Procs, Serve(p) PROVE Filed'
  BY <1>1 DEF Serve
<1>2. ASSUME NEW p \in Procs, Register(p) PROVE Filed'
  BY <1>2 DEF Register
<1>3. ASSUME NEW p \in Procs, ServingEnds(p) PROVE Filed'
  BY <1>3 DEF ServingEnds
<1>4. ASSUME NEW p \in Procs, NEW next \in {"unregister", "exit"}, Stop(p, next) PROVE Filed'
  BY <1>4 DEF Stop, StopWith, Closed
<1>5. ASSUME NEW p \in Procs, Unregister(p) PROVE Filed'
  BY <1>5 DEF Unregister, UnregisterPort
<1>6. ASSUME NEW p \in Procs, CloseInterrupted(p) PROVE Filed'
  BY <1>6 DEF CloseInterrupted, Closed
<1>7. ASSUME NEW p \in Procs, Crash(p) PROVE Filed'
  BY <1>7 DEF Crash
<1>8. ASSUME NEW p \in Procs, ScanBegin(p) PROVE Filed'
  BY <1>8 DEF ScanBegin
<1>9. ASSUME NEW p \in Procs, NEW n \in Ports, ScanRead(p, n) PROVE Filed'
  BY <1>9 DEF ScanRead
<1>10. ASSUME NEW p \in Procs, ScanProbe(p) PROVE Filed'
  BY <1>10 DEF ScanProbe
<1>11. ASSUME NEW p \in Procs, ScanUnlink(p) PROVE Filed'
  <2>1. \A n \in Ports : file'[n] = file[n] \/ file'[n] = NoFile
    BY <1>11 DEF ScanUnlink
  <2>2. /\ UNCHANGED <<port, alive, running, starts, cut, failed>> /\ at[p] = "unlink"
        /\ at' = [at EXCEPT ![p] = "scan"]
    BY <1>11 DEF ScanUnlink
  <2>. QED
    BY <2>1, <2>2
<1>12. ASSUME NEW p \in Procs, ScanEnd(p) PROVE Filed'
  BY <1>12 DEF ScanEnd
<1>13. CASE UNCHANGED vars
  BY <1>13 DEF vars
<1>. QED
  BY <1>1, <1>2, <1>3, <1>4, <1>5, <1>6, <1>7, <1>8, <1>9, <1>10, <1>11, <1>12, <1>13 DEF Next

(* Starts are never taken back. *)
LEMMA SeenStep == TypeOK /\ Filed /\ SeenOnce /\ [Next]_vars => SeenOnce'
<1> SUFFICES ASSUME TypeOK /\ Filed /\ SeenOnce, [Next]_vars PROVE SeenOnce'
  OBVIOUS
<1>0. NoFile \in Registration /\ NoFile.pid = None /\ None \notin Procs
  BY InstancesAssumption DEF NoFile, Registration
<1> USE <1>0, InstancesAssumption DEF TypeOK, Filed, SeenOnce, Registration, AtIdle, Goto, scan
<1>1. ASSUME NEW p \in Procs, Serve(p) PROVE SeenOnce'
  BY <1>1 DEF Serve
<1>2. ASSUME NEW p \in Procs, Register(p) PROVE SeenOnce'
  BY <1>2 DEF Register
<1>3. ASSUME NEW p \in Procs, ServingEnds(p) PROVE SeenOnce'
  BY <1>3 DEF ServingEnds
<1>4. ASSUME NEW p \in Procs, NEW next \in {"unregister", "exit"}, Stop(p, next) PROVE SeenOnce'
  BY <1>4 DEF Stop, StopWith, Closed
<1>5. ASSUME NEW p \in Procs, Unregister(p) PROVE SeenOnce'
  BY <1>5 DEF Unregister, UnregisterPort
<1>6. ASSUME NEW p \in Procs, CloseInterrupted(p) PROVE SeenOnce'
  BY <1>6 DEF CloseInterrupted, Closed
<1>7. ASSUME NEW p \in Procs, Crash(p) PROVE SeenOnce'
  BY <1>7 DEF Crash
<1>8. ASSUME NEW p \in Procs, ScanBegin(p) PROVE SeenOnce'
  BY <1>8 DEF ScanBegin
<1>9. ASSUME NEW p \in Procs, NEW n \in Ports, ScanRead(p, n) PROVE SeenOnce'
  BY <1>9 DEF ScanRead
<1>10. ASSUME NEW p \in Procs, ScanProbe(p) PROVE SeenOnce'
  BY <1>10 DEF ScanProbe
<1>11. ASSUME NEW p \in Procs, ScanUnlink(p) PROVE SeenOnce'
  BY <1>11 DEF ScanUnlink
<1>12. ASSUME NEW p \in Procs, ScanEnd(p) PROVE SeenOnce'
  BY <1>12 DEF ScanEnd
<1>13. CASE UNCHANGED vars
  BY <1>13 DEF vars
<1>. QED
  BY <1>1, <1>2, <1>3, <1>4, <1>5, <1>6, <1>7, <1>8, <1>9, <1>10, <1>11, <1>12, <1>13 DEF Next

(* A server that runs answers, and a new start is a new registration. *)
LEMMA CondemnedStep == TypeOK /\ Bound /\ SeenOnce /\ Condemned /\ [Next]_vars => Condemned'
<1> SUFFICES ASSUME TypeOK /\ Bound /\ SeenOnce /\ Condemned, [Next]_vars PROVE Condemned'
  OBVIOUS
<1>0. NoFile \in Registration /\ NoFile.pid = None /\ None \notin Procs
  BY InstancesAssumption DEF NoFile, Registration
<1> USE <1>0, InstancesAssumption DEF TypeOK, Bound, SeenOnce, Condemned, Current, Answers, Registration, AtIdle, Goto, scan
<1>1. ASSUME NEW p \in Procs, Serve(p) PROVE Condemned'
  BY <1>1 DEF Serve
<1>2. ASSUME NEW p \in Procs, Register(p) PROVE Condemned'
  BY <1>2 DEF Register
<1>3. ASSUME NEW p \in Procs, ServingEnds(p) PROVE Condemned'
  BY <1>3 DEF ServingEnds
<1>4. ASSUME NEW p \in Procs, NEW next \in {"unregister", "exit"}, Stop(p, next) PROVE Condemned'
  BY <1>4 DEF Stop, StopWith, Closed
<1>5. ASSUME NEW p \in Procs, Unregister(p) PROVE Condemned'
  BY <1>5 DEF Unregister, UnregisterPort
<1>6. ASSUME NEW p \in Procs, CloseInterrupted(p) PROVE Condemned'
  BY <1>6 DEF CloseInterrupted, Closed
<1>7. ASSUME NEW p \in Procs, Crash(p) PROVE Condemned'
  BY <1>7 DEF Crash
<1>8. ASSUME NEW p \in Procs, ScanBegin(p) PROVE Condemned'
  BY <1>8 DEF ScanBegin
<1>9. ASSUME NEW p \in Procs, NEW n \in Ports, ScanRead(p, n) PROVE Condemned'
  BY <1>9 DEF ScanRead
<1>10. ASSUME NEW p \in Procs, ScanProbe(p) PROVE Condemned'
  BY <1>10 DEF ScanProbe
<1>11. ASSUME NEW p \in Procs, ScanUnlink(p) PROVE Condemned'
  BY <1>11 DEF ScanUnlink
<1>12. ASSUME NEW p \in Procs, ScanEnd(p) PROVE Condemned'
  BY <1>12 DEF ScanEnd
<1>13. CASE UNCHANGED vars
  BY <1>13 DEF vars
<1>. QED
  BY <1>1, <1>2, <1>3, <1>4, <1>5, <1>6, <1>7, <1>8, <1>9, <1>10, <1>11, <1>12, <1>13 DEF Next

(* Whoever removes the file of a running server is noted. *)
LEMMA ListedStep == IInv /\ [Next]_vars => RunningIsListed'
<1> SUFFICES ASSUME IInv, [Next]_vars PROVE RunningIsListed'
  OBVIOUS
<1>0. NoFile \in Registration /\ NoFile.pid = None /\ None \notin Procs
  BY InstancesAssumption DEF NoFile, Registration
<1> USE <1>0, InstancesAssumption DEF IInv, TypeOK, Placed, Bound, Condemned, RunningIsListed, Current, Registration, AtIdle, Goto, scan
<1>1. ASSUME NEW p \in Procs, Serve(p) PROVE RunningIsListed'
  BY <1>1 DEF Serve
<1>2. ASSUME NEW p \in Procs, Register(p) PROVE RunningIsListed'
  BY <1>2 DEF Register
<1>3. ASSUME NEW p \in Procs, ServingEnds(p) PROVE RunningIsListed'
  BY <1>3 DEF ServingEnds
<1>4. ASSUME NEW p \in Procs, NEW next \in {"unregister", "exit"}, Stop(p, next) PROVE RunningIsListed'
  BY <1>4 DEF Stop, StopWith, Closed
<1>5. ASSUME NEW p \in Procs, Unregister(p) PROVE RunningIsListed'
  BY <1>5 DEF Unregister, UnregisterPort
<1>6. ASSUME NEW p \in Procs, CloseInterrupted(p) PROVE RunningIsListed'
  BY <1>6 DEF CloseInterrupted, Closed
<1>7. ASSUME NEW p \in Procs, Crash(p) PROVE RunningIsListed'
  BY <1>7 DEF Crash
<1>8. ASSUME NEW p \in Procs, ScanBegin(p) PROVE RunningIsListed'
  BY <1>8 DEF ScanBegin
<1>9. ASSUME NEW p \in Procs, NEW n \in Ports, ScanRead(p, n) PROVE RunningIsListed'
  BY <1>9 DEF ScanRead
<1>10. ASSUME NEW p \in Procs, ScanProbe(p) PROVE RunningIsListed'
  BY <1>10 DEF ScanProbe
<1>11. ASSUME NEW p \in Procs, ScanUnlink(p) PROVE RunningIsListed'
  BY <1>11 DEF ScanUnlink
<1>12. ASSUME NEW p \in Procs, ScanEnd(p) PROVE RunningIsListed'
  BY <1>12 DEF ScanEnd
<1>13. CASE UNCHANGED vars
  BY <1>13 DEF vars
<1>. QED
  BY <1>1, <1>2, <1>3, <1>4, <1>5, <1>6, <1>7, <1>8, <1>9, <1>10, <1>11, <1>12, <1>13 DEF Next

LEMMA IInvStep == IInv /\ [Next]_vars => IInv'
  BY TypeStep, BoundStep, FiledStep, SeenStep, CondemnedStep, ListedStep DEF IInv

LEMMA Invariance == Spec => []IInv
  BY InitIInv, IInvStep, PTL DEF Spec

(* Every variable keeps its type; in particular a port that is bound is    *)
(* bound by a process that exists.                                         *)
THEOREM TypeCorrect == Spec => []TypeOK
<1>1. IInv => TypeOK
  BY DEF IInv
<1>. QED
  BY <1>1, Invariance, PTL

(* discover_instances never removes the registration of a running server   *)
(* that it has read, whoever shares its port or starts again.              *)
THEOREM OnlyStaleUnlinkedAlways == Spec => []OnlyStaleUnlinked
<1>1. IInv => OnlyStaleUnlinked
  BY DEF IInv, TypeOK, Condemned, OnlyStaleUnlinked
<1>. QED
  BY <1>1, Invariance, PTL

(* Every server whose start is over can be discovered, unless its          *)
(* registration failed or was removed by the stop of a process on its port *)
(* or by a scan that had not read it.                                      *)
THEOREM RunningIsListedAlways == Spec => []RunningIsListed
<1>1. IInv => RunningIsListed
  BY DEF IInv
<1>. QED
  BY <1>1, Invariance, PTL

(* stop_server leaves neither socket nor file, unless it was cut short, its *)
(* serving had ended or its file could not be removed.                     *)
THEOREM StoppedIsGoneAlways == Spec => []StoppedIsGone
<1>1. IInv => StoppedIsGone
  BY InstancesAssumption
  DEF IInv, TypeOK, Bound, Filed, StoppedIsGone, StoppedGivesPortBack, StoppedIsUnlisted
<1>. QED
  BY <1>1, Invariance, PTL

(* The port in _OWN_PORT is bound by the process itself (close_instance),   *)
(* unless its last stop was cut short or its serving ended by itself.      *)
THEOREM OwnsWhatItServesAlways == Spec => []OwnsWhatItServes
<1>1. IInv => OwnsWhatItServes
  BY DEF IInv, Bound, OwnsWhatItServes
<1>. QED
  BY <1>1, Invariance, PTL
=============================================================================

---------------------------- MODULE LsctldProofs ----------------------------
(***************************************************************************)
(* Proofs about Lsctld, for any number of daemons and clients, any scripts *)
(* and any sizes of the buffers.                                           *)
(*                                                                         *)
(* ScriptFits speaks of single processes, and its inductive invariant      *)
(* InvFits only adds that a process record has its fields and that the     *)
(* numbers are numbers, with the buffer never smaller than at the start.   *)
(*                                                                         *)
(* UpIsReachable is about all the daemons and the two files together.  Its *)
(* inductive invariant InvFiles says who may run at the same time: a       *)
(* daemon beyond its check for another one runs alone, so that nobody      *)
(* replaces its files, and the files it made are there at every label from *)
(* which it can come up.                                                   *)
(*                                                                         *)
(* OutputIsOwn is about the connections.  InvConn says that a connection   *)
(* is held by one daemon at most, that a daemon which serves a client has  *)
(* its descriptors 1 and 2 on it, and that nobody holds a connection that  *)
(* is closed; so what a script prints goes to its own client, which is not *)
(* done yet.  What the buffers of the daemon hold back when it is written  *)
(* to another client has no line among it (Quiet), because the end of a    *)
(* line writes what the channel holds.  InvOut says that the lines in the  *)
(* socket, in the client and on its output are, in this order, those that  *)
(* the script printed.  Own is a recursive function, and what is needed of *)
(* it is proved by least counterexample (LeastExists).                     *)
(***************************************************************************)
EXTENDS Lsctld, SequenceTheorems, WellFoundedInduction, TLAPS

(***************************************************************************)
(* The script buffer.                                                      *)
(***************************************************************************)
Fields == {"backlog", "fd", "fdc", "pos", "cmd_size", "todo", "chan", "stdio"}

\* A process whose script fits its buffer.
Fits(p) ==
  /\ DOMAIN p = Fields
  /\ p.pos \in Nat /\ p.cmd_size \in Nat
  /\ CMD_SIZE <= p.cmd_size
  /\ p.pos < p.cmd_size

InvFits == DOMAIN proc = Daemons /\ \A d \in Daemons : Fits(proc[d])

\* A new process fits: its script is empty and CMD_SIZE is not zero.
LEMMA FreshFits == Fits(Fresh)
  BY LsctldAssumption DEF Fits, Fields, Fresh

\* A step that replaces one process by one that fits keeps the invariant.
LEMMA StepFits ==
  ASSUME InvFits, NEW d \in Daemons, NEW p, Fits(p), proc' = [proc EXCEPT ![d] = p]
  PROVE  InvFits'
  BY DEF InvFits, Fits

\* So does a step that leaves the processes alone.
LEMMA SameFits == ASSUME InvFits, UNCHANGED proc PROVE InvFits'
  BY DEF InvFits, Fits

\* A process that ends.
LEMMA DiesFits == ASSUME InvFits, NEW d \in Daemons, Dies(d) PROVE InvFits'
  BY FreshFits, StepFits DEF Dies

\* Growing once is enough: a read brings no more bytes than the buffer had at
\* the start, so the doubled buffer has room for them and for the zero.
LEMMA GrownIsEnough ==
  ASSUME NEW p, Fits(p), NEW n \in 1..BUF_SIZE
  PROVE  /\ Grown(p, n) \in Nat
         /\ CMD_SIZE <= Grown(p, n)
         /\ p.pos + n < Grown(p, n)
  BY LsctldAssumption DEF Fits, Grown

\* Reading: the script grows and the buffer with it.
LEMMA ReadFits == ASSUME InvFits, NEW d \in Daemons, Read(d) PROVE InvFits'
<1>1. PICK n \in 1..BUF_SIZE :
        \/ proc' = [proc EXCEPT ![d] = [proc[d] EXCEPT !.pos = proc[d].pos + n,
                                                      !.cmd_size = Grown(proc[d], n)]]
        \/ UNCHANGED proc
  BY DEF Read, Goes
<1> DEFINE p == [proc[d] EXCEPT !.pos = proc[d].pos + n, !.cmd_size = Grown(proc[d], n)]
<1>2. Fits(proc[d])
  BY DEF InvFits
<1>3. Fits(p)
  <2>1. /\ Grown(proc[d], n) \in Nat
        /\ CMD_SIZE <= Grown(proc[d], n)
        /\ proc[d].pos + n < Grown(proc[d], n)
    BY <1>2, GrownIsEnough
  <2>2. DOMAIN p = Fields /\ p.pos = proc[d].pos + n /\ p.cmd_size = Grown(proc[d], n)
    BY <1>2 DEF Fits, Fields
  <2>3. proc[d].pos + n \in Nat
    BY <1>2, LsctldAssumption DEF Fits
  <2> QED BY <2>1, <2>2, <2>3 DEF Fits
<1>4. CASE UNCHANGED proc
  BY <1>4, SameFits
<1>5. CASE proc' = [proc EXCEPT ![d] = p]
  <2> HIDE DEF p
  <2> QED BY <1>3, <1>5, StepFits
<1> QED BY <1>1, <1>4, <1>5

\* Accepting and closing begin the script anew; the buffer keeps its size.
LEMMA AcceptFits == ASSUME InvFits, NEW d \in Daemons, Accept(d) PROVE InvFits'
<1>1. Fits(proc[d])
  BY DEF InvFits
<1>2. PICK b, f, t : proc' = [proc EXCEPT ![d] =
        [proc[d] EXCEPT !.backlog = b, !.fdc = f, !.pos = 0, !.fd = t]]
  BY DEF Accept
<1> DEFINE p == [proc[d] EXCEPT !.backlog = b, !.fdc = f, !.pos = 0, !.fd = t]
<1>3. Fits(p)
  BY <1>1, LsctldAssumption DEF Fits, Fields
<1> HIDE DEF p
<1> QED BY <1>2, <1>3, StepFits DEF p

\* Close: the buffer is empty for the next client.
LEMMA CloseFits == ASSUME InvFits, NEW d \in Daemons, Close(d) PROVE InvFits'
<1>1. Fits(proc[d])
  BY DEF InvFits
<1>2. PICK t : proc' = [proc EXCEPT ![d] =
        [proc[d] EXCEPT !.fd = t, !.fdc = 0, !.pos = 0, !.todo = <<>>]]
  BY DEF Close
<1> DEFINE p == [proc[d] EXCEPT !.fd = t, !.fdc = 0, !.pos = 0, !.todo = <<>>]
<1>3. Fits(p)
  BY <1>1, LsctldAssumption DEF Fits, Fields
<1> HIDE DEF p
<1> QED BY <1>2, <1>3, StepFits DEF p

\* Evaluating touches what is to be printed and what the buffers hold.
LEMMA WriteFits ==
  ASSUME InvFits, NEW d \in Daemons, NEW i, NEW pieces, NEW p, Fits(p), NEW next,
         Write(d, i, pieces, p, next)
  PROVE  InvFits'
  BY StepFits DEF Write

\* So does holding output back.
LEMMA HoldFits ==
  ASSUME InvFits, NEW d \in Daemons, NEW held, NEW cap, NEW p, Fits(p), NEW q, Fits(q),
         Hold(d, held, cap, p, q)
  PROVE  InvFits'
  BY StepFits, WriteFits DEF Hold

\* What is to be printed may change.
LEMMA RestFits ==
  ASSUME NEW p, Fits(p), NEW t, NEW s
  PROVE  /\ Fits([p EXCEPT !.todo = t])
         /\ Fits([[p EXCEPT !.todo = t] EXCEPT !.stdio = s])
         /\ Fits([[p EXCEPT !.todo = t] EXCEPT !.chan = s])
  BY DEF Fits, Fields

\* The steps of lsctl_eval.
LEMMA EvalFits ==
  ASSUME InvFits, NEW d \in Daemons,
         \/ ReadEnd(d) \/ EvalPuts(d) \/ EvalPrint(d) \/ EvalShow(d)
         \/ EvalOk(d) \/ EvalError(d)
  PROVE  InvFits'
<1>1. Fits(proc[d])
  BY DEF InvFits
<1>2. CASE ReadEnd(d)
  <2>1. proc' = [proc EXCEPT ![d] = [proc[d] EXCEPT !.todo = Output[Client(d)]]]
    BY <1>2 DEF ReadEnd
  <2>2. Fits([proc[d] EXCEPT !.todo = Output[Client(d)]])
    BY <1>1, RestFits
  <2> QED BY <2>1, <2>2, StepFits
<1>0. \A x : Fits([Rest(d) EXCEPT !.stdio = x]) /\ Fits([Rest(d) EXCEPT !.chan = x])
  BY <1>1, RestFits DEF Rest
<1>3. CASE EvalPuts(d)
  <2>1. Write(d, 1, Append(proc[d].chan, Piece(Client(d), "puts")), [Rest(d) EXCEPT !.chan = <<>>], "eval")
    BY <1>3 DEF EvalPuts
  <2> QED BY <1>0, <2>1, WriteFits
<1>7. CASE EvalPrint(d)
  <2> DEFINE held == Append(proc[d].chan, Piece(Client(d), "print"))
  <2>1. Hold(d, held, ChanCap, [Rest(d) EXCEPT !.chan = held], [Rest(d) EXCEPT !.chan = <<>>])
    BY <1>7 DEF EvalPrint
  <2> HIDE DEF held
  <2> QED BY <1>0, <2>1, HoldFits
<1>4. CASE EvalShow(d)
  <2> DEFINE held == Append(proc[d].stdio, Piece(Client(d), "show"))
  <2>1. Hold(d, held, StdioCap, [Rest(d) EXCEPT !.stdio = held], [Rest(d) EXCEPT !.stdio = <<>>])
    BY <1>4 DEF EvalShow
  <2> HIDE DEF held
  <2> QED BY <1>0, <2>1, HoldFits
<1>5. CASE EvalOk(d)
  BY <1>5, SameFits DEF EvalOk, Goes
<1>6. CASE EvalError(d)
  BY <1>1, <1>6, WriteFits DEF EvalError
<1> QED BY <1>2, <1>3, <1>4, <1>5, <1>6, <1>7

\* A client that connects is put into the queue of the daemon.
LEMMA ConnectFits == ASSUME InvFits, NEW c \in Clients, Connect(c) PROVE InvFits'
<1> DEFINE d == sockfile
           p == [proc[d] EXCEPT !.backlog = Append(proc[d].backlog, c)]
<1>1. UNCHANGED proc \/ proc' = [proc EXCEPT ![d] = p]
  BY DEF Connect
<1>2. CASE proc' = [proc EXCEPT ![d] = p]
  <2>1. DOMAIN proc' = Daemons /\ \A e \in Daemons \ {d} : proc'[e] = proc[e]
    BY <1>2 DEF InvFits
  <2>2. ASSUME d \in Daemons PROVE Fits(proc'[d])
    <3>1. Fits(p)
      BY <2>2 DEF InvFits, Fits, Fields
    <3> QED BY <1>2, <2>2, <3>1 DEF InvFits
  <2> QED BY <2>1, <2>2 DEF InvFits, Fits
<1> QED BY <1>1, <1>2, SameFits

\* The other steps leave the processes alone or end one.
LEMMA NextFits == ASSUME InvFits, [Next]_vars PROVE InvFits'
<1>1. ASSUME NEW d \in Daemons, Start(d) \/ Terminate(d) \/ Crash(d) PROVE InvFits'
  BY <1>1, SameFits, DiesFits DEF Start, Terminate, Crash, Goes
<1>2. ASSUME NEW d \in Daemons,
             \/ GetUnixSocket(d) \/ Daemonize(d) \/ Initialize(d)
             \/ ExitWrapper(d) \/ Finalize(d) \/ Dispatch(d)
      PROVE  InvFits'
  BY <1>2, SameFits, DiesFits
  DEF GetUnixSocket, Daemonize, Initialize, ExitWrapper, Finalize, Dispatch, Goes
<1>3. ASSUME NEW d \in Daemons, DaemonStep(d) PROVE InvFits'
  BY <1>2, <1>3, AcceptFits, ReadFits, CloseFits, EvalFits DEF DaemonStep
<1>4. ASSUME NEW c \in Clients, ReadStdin(c) \/ Sends(c) \/ Receives(c) \/ Kill(c)
      PROVE  InvFits'
  BY <1>4, SameFits
  DEF ReadStdin, Sends, WriteSock, WriteSockBroken, Receives, ReadSock, WriteStdout,
      ReadSockEnd, Kill, daemonVars
<1>5. CASE UNCHANGED vars
  BY <1>5, SameFits DEF vars, daemonVars
<1> QED BY <1>1, <1>3, <1>4, <1>5, ConnectFits DEF Next

\* However the input is cut into pieces and however long it is, the script
\* and the zero behind it are within the buffer of the daemon.
THEOREM BufferSafe == Spec => []ScriptFits
<1>1. Init => InvFits
  BY FreshFits DEF Init, InvFits
<1>2. InvFits /\ [Next]_vars => InvFits'
  BY NextFits
<1>3. InvFits => ScriptFits
  BY DEF InvFits, Fits, ScriptFits
<1> QED BY <1>1, <1>2, <1>3, PTL DEF Spec

-----------------------------------------------------------------------------
(***************************************************************************)
(* The PID file and the socket.                                            *)
(***************************************************************************)
Labels == {"off", "checked", "bound", "init", "exit", "finalize", "dead"} \cup Serving

\* Labels of a daemon that has both of its files, and will come up with them
\* or has.
Settled == Serving \cup {"init"}

InvLabels == pc \in [Daemons -> Labels]

\* Two daemons never run at the same time.
InvAlone == \A d, e \in Daemons : Alive(d) /\ Alive(e) => d = e

\* The files of a daemon are there from the step that makes them.
InvMade ==
  \A d \in Daemons :
    /\ pc[d] \in Settled => pidfile = d /\ sockfile = d
    /\ pc[d] = "bound" => sockfile = d

InvFiles == InvLabels /\ InvAlone /\ InvMade

\* A daemon that ends takes no file from one that runs.
LEMMA DiesFiles ==
  ASSUME InvFiles, NEW d \in Daemons, Dies(d),
         \A e \in Daemons \ {d} : pc[e] \in Settled \cup {"bound"} =>
           (pidfile' = pidfile /\ sockfile' = sockfile)
  PROVE  InvFiles'
<1>1. pc' = [pc EXCEPT ![d] = "dead"]
  BY DEF Dies, GoTo
<1>2. InvLabels'
  BY <1>1 DEF InvFiles, InvLabels, Labels
<1>3. InvAlone'
  BY <1>1 DEF InvFiles, InvLabels, InvAlone, Alive
<1>4. InvMade'
  BY <1>1 DEF InvFiles, InvLabels, InvMade, Settled, Serving
<1> QED BY <1>2, <1>3, <1>4 DEF InvFiles

\* A daemon that runs may change the files, as nobody else runs: it has to
\* leave them as its next label requires.
LEMMA GoesFiles ==
  ASSUME InvFiles, NEW d \in Daemons, Alive(d), NEW label \in Labels, GoTo(d, label),
         label \in Settled => pidfile' = d /\ sockfile' = d,
         label = "bound" => sockfile' = d
  PROVE  InvFiles'
<1>1. pc' = [pc EXCEPT ![d] = label]
  BY DEF GoTo
<1>2. \A e \in Daemons \ {d} : pc[e] \in {"off", "dead"}
  BY DEF InvFiles, InvAlone, Alive
<1>3. InvLabels'
  BY <1>1 DEF InvFiles, InvLabels
<1>4. InvAlone'
  BY <1>1, <1>2 DEF InvFiles, InvLabels, InvAlone, Alive
<1>5. InvMade'
  BY <1>1, <1>2 DEF InvFiles, InvLabels, InvMade, Settled, Serving
<1> QED BY <1>3, <1>4, <1>5 DEF InvFiles

\* A step of a client, or of a user, that changes no label and no file.
LEMMA SameFiles == ASSUME InvFiles, UNCHANGED <<pc, pidfile, sockfile>> PROVE InvFiles'
  BY DEF InvFiles, InvLabels, InvAlone, InvMade, Alive

\* Start: the check of the PID file finds every daemon that runs, because
\* daemons are started after the one before has come up or is gone.
LEMMA StartFiles == ASSUME InvFiles, NEW d \in Daemons, Start(d) PROVE InvFiles'
<1>1. \A e \in Daemons : pc[e] \in {"off", "dead"} \cup Serving
  BY DEF Start
<1>2. CASE Dies(d) /\ UNCHANGED <<pidfile, sockfile>>
  BY <1>2, DiesFiles
<1>3. CASE /\ ~(pidfile # NULL /\ pc[pidfile] # "dead")
           /\ Goes(d, "checked") /\ pidfile' = NULL
  <2>1. \A e \in Daemons : pc[e] \in {"off", "dead"}
    BY <1>1, <1>3, LsctldAssumption DEF InvFiles, InvMade, Settled, Serving
  <2>2. pc' = [pc EXCEPT ![d] = "checked"]
    BY <1>3 DEF Goes, GoTo
  <2>3. InvLabels'
    BY <2>2 DEF InvFiles, InvLabels, Labels
  <2>4. InvAlone'
    BY <2>1, <2>2 DEF InvFiles, InvLabels, InvAlone, Alive
  <2>5. InvMade'
    BY <2>1, <2>2 DEF InvFiles, InvLabels, InvMade, Settled, Serving
  <2> QED BY <2>3, <2>4, <2>5 DEF InvFiles
<1> QED BY <1>2, <1>3 DEF Start

\* The steps between the check and the loop, and those of the exit.
LEMMA ComeAndGoFiles ==
  ASSUME InvFiles, NEW d \in Daemons,
         GetUnixSocket(d) \/ Daemonize(d) \/ Initialize(d) \/ ExitWrapper(d) \/ Finalize(d)
  PROVE  InvFiles'
<1>1. Alive(d)
  BY DEF GetUnixSocket, Daemonize, Initialize, ExitWrapper, Finalize, Alive
<1>2. \A e \in Daemons \ {d} : pc[e] \in {"off", "dead"}
  BY <1>1 DEF InvFiles, InvAlone, Alive
<1>3. CASE Dies(d)
  BY <1>2, <1>3, DiesFiles DEF Settled, Serving
<1>4. CASE GetUnixSocket(d) /\ GoTo(d, "bound") /\ sockfile' = d
  BY <1>1, <1>4, GoesFiles DEF Labels, Settled, Serving
<1>5. CASE Daemonize(d) /\ GoTo(d, "init") /\ pidfile' = d /\ UNCHANGED sockfile
  <2>1. sockfile = d
    BY <1>5 DEF Daemonize, InvFiles, InvMade
  <2> QED BY <1>1, <1>5, <2>1, GoesFiles DEF Labels
<1>6. CASE Initialize(d) /\ GoTo(d, "idle") /\ UNCHANGED fileVars
  <2>1. pidfile = d /\ sockfile = d
    BY <1>6 DEF Initialize, InvFiles, InvMade, Settled
  <2> QED BY <1>1, <1>6, <2>1, GoesFiles DEF Labels, Serving, fileVars
<1>7. CASE GoTo(d, "exit") \/ GoTo(d, "finalize")
  BY <1>1, <1>7, GoesFiles DEF Labels, Settled, Serving
<1> QED BY <1>3, <1>4, <1>5, <1>6, <1>7
        DEF GetUnixSocket, Daemonize, Initialize, ExitWrapper, Finalize, Goes

\* The loop of a daemon leaves the files alone and stays among the labels of
\* a daemon that is up, until it exits.
LEMMA LoopFiles ==
  ASSUME InvFiles, NEW d \in Daemons,
         \/ Dispatch(d) \/ Accept(d) \/ Read(d) \/ ReadEnd(d)
         \/ EvalPuts(d) \/ EvalPrint(d) \/ EvalShow(d) \/ EvalOk(d) \/ EvalError(d) \/ Close(d)
  PROVE  InvFiles'
<1>1. UNCHANGED <<pidfile, sockfile>> /\ pc[d] \in Serving
  BY DEF Dispatch, Accept, Read, ReadEnd, EvalPuts, EvalPrint, EvalShow, EvalOk, EvalError, Close,
         fileVars, Serving
<1>2. \/ UNCHANGED pc
      \/ Dies(d)
      \/ GoTo(d, "exit")
      \/ \E label \in Serving : GoTo(d, label)
  BY DEF Dispatch, Accept, Read, ReadEnd, EvalPuts, EvalPrint, EvalShow, EvalOk, EvalError, Close,
         Hold, Write, Goes, Serving
<1>3. Alive(d) /\ pidfile = d /\ sockfile = d
  BY <1>1 DEF InvFiles, InvMade, Settled, Serving, Alive
<1>4. CASE UNCHANGED pc
  BY <1>1, <1>4, SameFiles
<1>5. CASE Dies(d)
  BY <1>1, <1>5, DiesFiles
<1>6. CASE GoTo(d, "exit")
  BY <1>3, <1>6, GoesFiles DEF Labels, Settled, Serving
<1>7. ASSUME NEW label \in Serving, GoTo(d, label) PROVE InvFiles'
  BY <1>1, <1>3, <1>7, GoesFiles DEF Labels, Serving
<1> QED BY <1>2, <1>4, <1>5, <1>6, <1>7

\* Every step keeps what the files say of the daemons.
LEMMA NextFiles == ASSUME InvFiles, [Next]_vars PROVE InvFiles'
<1>1. ASSUME NEW d \in Daemons, Terminate(d) \/ Crash(d) PROVE InvFiles'
  BY <1>1, SameFiles, DiesFiles DEF Terminate, Crash, fileVars
<1>2. ASSUME NEW d \in Daemons, DaemonStep(d) PROVE InvFiles'
  BY <1>2, ComeAndGoFiles, LoopFiles DEF DaemonStep
<1>3. ASSUME NEW c \in Clients,
             Connect(c) \/ ReadStdin(c) \/ Sends(c) \/ Receives(c) \/ Kill(c)
      PROVE  InvFiles'
  BY <1>3, SameFiles
  DEF Connect, ReadStdin, Sends, WriteSock, WriteSockBroken, Receives, ReadSock, WriteStdout,
      ReadSockEnd, Kill, daemonVars, fileVars
<1>4. CASE UNCHANGED vars
  BY <1>4, SameFiles DEF vars, daemonVars, fileVars
<1> QED BY <1>1, <1>2, <1>3, <1>4, StartFiles DEF Next

\* A daemon that is up is named by the PID file and reached through the
\* socket, whatever crashed before and left its files behind.
THEOREM Reachable == Spec => []UpIsReachable
<1>1. Init => InvFiles
  BY DEF Init, InvFiles, InvLabels, InvAlone, InvMade, Alive, Labels, Settled, Serving
<1>2. InvFiles /\ [Next]_vars => InvFiles'
  BY NextFiles
<1>3. InvFiles => UpIsReachable
  BY DEF InvFiles, InvMade, Settled, UpIsReachable
<1> QED BY <1>1, <1>2, <1>3, PTL DEF Spec

-----------------------------------------------------------------------------
(***************************************************************************)
(* Connections.  A client waits with one daemon, is served by it and is    *)
(* then forgotten: nobody else holds its connection, and a daemon that     *)
(* serves it has all of its descriptors on it.                             *)
(***************************************************************************)
Busy == {"read", "eval", "close"}

\* Output that does not end a line.
Quiet == [of : Clients, kind : {"show", "print"}]

\* The queue, the descriptors and the buffers of a process at a label.
Sound(p, label) ==
  /\ p.backlog \in Seq(Clients) /\ p.fd \in [Fds -> Clients \cup {NULL, "/dev/null"}]
  /\ p.stdio \in Seq(Quiet) /\ p.chan \in Seq(Quiet)
  /\ \A i, j \in DOMAIN p.backlog : p.backlog[i] = p.backlog[j] => i = j
  /\ \A i \in DOMAIN p.backlog, f \in Fds : p.backlog[i] # p.fd[f]
  /\ label \in Busy =>
       /\ p.fdc \in Fds /\ p.fd[p.fdc] \in Clients
       /\ p.fd[1] = p.fd[p.fdc] /\ p.fd[2] = p.fd[p.fdc]
       /\ \A f \in Fds \ {p.fdc, 1, 2} : p.fd[f] \notin Clients
  /\ label \notin Busy \cup {"exit", "finalize"} =>
       (\A f \in Fds : p.fd[f] \notin Clients) /\ (\E f \in Fds : p.fd[f] = NULL)

\* The clients whose connections the process holds.
Held(p) == Clients \cap ({p.fd[f] : f \in Fds} \cup {p.backlog[i] : i \in DOMAIN p.backlog})

InvConn ==
  /\ client \in [Clients -> {"off", "open", "done", "lost", "killed"}]
  /\ closed \subseteq Clients /\ \A c \in closed : client[c] # "off"
  /\ sockfile \in Daemons \cup {NULL}
  /\ \A d \in Daemons : Sound(proc[d], pc[d])
  /\ \A d, e \in Daemons : d # e => Held(proc[d]) \cap Held(proc[e]) = {}
  /\ \A d \in Daemons : \A c \in Held(proc[d]) : client[c] # "off" /\ c \notin closed

InvHeld == InvFits /\ InvLabels /\ InvConn

\* A step of a daemon, which becomes p at a label and holds no client more.
LEMMA StepHeld ==
  ASSUME InvHeld, NEW d \in Daemons, NEW p, NEW label, Sound(p, label), Held(p) \subseteq Held(proc[d]),
         proc'[d] = p, \A e \in Daemons \ {d} : proc'[e] = proc[e], pc' = [pc EXCEPT ![d] = label],
         sockfile' \in Daemons \cup {NULL}, UNCHANGED client,
         \/ UNCHANGED closed
         \/ \E c \in Held(proc[d]) \ Held(p) : closed' = closed \cup {c}
  PROVE  InvConn'
<1>1. proc'[d] = p /\ pc'[d] = label
      /\ \A e \in Daemons \ {d} : proc'[e] = proc[e] /\ pc'[e] = pc[e]
  BY DEF InvHeld, InvFits, InvLabels
<1>2. \A e \in Daemons : Held(proc'[e]) \subseteq Held(proc[e])
  BY <1>1
<1>3. \A e \in Daemons : Sound(proc'[e], pc'[e])
  BY <1>1 DEF InvHeld, InvConn
<1>4. \A e, b \in Daemons : e # b => Held(proc'[e]) \cap Held(proc'[b]) = {}
  BY <1>2 DEF InvHeld, InvConn
<1>5. \A e \in Daemons : \A c \in Held(proc'[e]) : client'[c] # "off" /\ c \notin closed'
  BY <1>1, <1>2 DEF InvHeld, InvConn
<1>6. /\ \A e \in Daemons : Sound(proc[e], pc[e])'
      /\ \A e \in Daemons : Held(proc[e])' = Held(proc'[e])
  BY <1>3 DEF Sound, Held
<1>7. client' = client /\ closed' \subseteq Clients /\ \A c \in closed' : client[c] # "off"
  <2>1. Held(proc[d]) \subseteq Clients
    BY DEF Held
  <2> QED BY <2>1 DEF InvHeld, InvConn
<1> QED BY <1>4, <1>5, <1>6, <1>7 DEF InvHeld, InvConn

\* A step of a client that is not its first.
LEMMA SameHeld ==
  ASSUME InvConn, UNCHANGED <<proc, pc, sockfile, closed>>,
         client' \in [Clients -> {"off", "open", "done", "lost", "killed"}],
         \A c \in Clients : client[c] # "off" => client'[c] # "off"
  PROVE  InvConn'
<1>0. proc' = proc /\ pc' = pc /\ sockfile' = sockfile /\ closed' = closed
  OBVIOUS
<1>1. \A d \in Daemons : Sound(proc[d], pc[d])' /\ Held(proc[d])' = Held(proc[d])
  <2>1. \A d \in Daemons : Sound(proc[d], pc[d])
    BY DEF InvConn
  <2>2. \A d \in Daemons : Sound(proc'[d], pc'[d]) /\ Held(proc'[d]) = Held(proc[d])
    BY <1>0, <2>1
  <2>3. \A d \in Daemons : Sound(proc[d], pc[d])'
    BY <2>2 DEF Sound
  <2>4. \A d \in Daemons : Held(proc[d])' = Held(proc'[d])
    BY DEF Held
  <2> QED BY <2>2, <2>3, <2>4
<1>2. \A d \in Daemons : Held(proc[d]) \subseteq Clients
  BY DEF Held
<1>3. \A c \in closed : client[c] # "off" /\ c \in Clients
  BY DEF InvConn
<1> QED BY <1>0, <1>1, <1>2, <1>3 DEF InvConn

\* A new process serves nobody.
LEMMA FreshSound == Sound(Fresh, "dead") /\ Sound(Fresh, "off") /\ Held(Fresh) = {}
<1>1. /\ Fresh.backlog = <<>> /\ Fresh.stdio = <<>> /\ Fresh.chan = <<>>
      /\ Fresh.fd = [i \in Fds |-> IF i = 3 THEN NULL ELSE "/dev/null"]
  BY DEF Fresh
<1>2. <<>> \in Seq(Clients) /\ <<>> \in Seq(Quiet) /\ DOMAIN <<>> = {}
  OBVIOUS
<1>3. Fresh.fd \in [Fds -> Clients \cup {NULL, "/dev/null"}] /\ 3 \in Fds /\ Fresh.fd[3] = NULL
      /\ \A f \in Fds : Fresh.fd[f] \notin Clients
  BY <1>1, LsctldAssumption DEF Fds
<1> QED BY <1>1, <1>2, <1>3 DEF Sound, Held, Busy

\* A process that ends lets go of its clients.
LEMMA DiesHeld ==
  ASSUME InvHeld, NEW d \in Daemons, Dies(d), sockfile' \in Daemons \cup {NULL},
         UNCHANGED <<client, closed>>
  PROVE  InvConn'
BY FreshSound, StepHeld DEF Dies, GoTo, InvHeld, InvFits

\* A daemon goes to another label with what it has.
LEMMA GoesHeld ==
  ASSUME InvHeld, NEW d \in Daemons, NEW label, Goes(d, label), sockfile' \in Daemons \cup {NULL},
         UNCHANGED <<client, closed>>,
         \/ label \in {"exit", "finalize"}
         \/ pc[d] \in Busy /\ label \in Busy
         \/ pc[d] \notin Busy \cup {"exit", "finalize"} /\ label \notin Busy
  PROVE  InvConn'
<1>1. proc' = proc /\ pc' = [pc EXCEPT ![d] = label]
  BY DEF Goes, GoTo
<1>2. Sound(proc[d], pc[d])
  BY DEF InvHeld, InvConn
<1>3. Sound(proc[d], label)
  BY <1>2 DEF Sound, Busy
<1> QED BY <1>1, <1>3, StepHeld

\* Other fields do not matter.
LEMMA OtherFields ==
  ASSUME NEW p, NEW q, NEW label, Sound(p, label), q.backlog = p.backlog, q.fd = p.fd,
         q.fdc = p.fdc, q.stdio \in Seq(Quiet), q.chan \in Seq(Quiet)
  PROVE  Sound(q, label) /\ Held(q) = Held(p)
BY DEF Sound, Held

\* accept: the first client of the queue gets all of the descriptors.
LEMMA AcceptHeld == ASSUME InvHeld, NEW d \in Daemons, Accept(d) PROVE InvConn'
<1> DEFINE p == proc[d]
           c == Head(p.backlog)
           free == {i \in Fds : p.fd[i] = NULL}
           f == Lowest(free)
           q == [p EXCEPT !.backlog = Tail(p.backlog), !.fdc = f, !.pos = 0,
                          !.fd = [i \in Fds |-> IF i \in {f, 1, 2} THEN c ELSE p.fd[i]]]
<1>1. /\ proc' = [proc EXCEPT ![d] = q] /\ pc' = [pc EXCEPT ![d] = "read"]
      /\ pc[d] = "idle" /\ p.backlog # <<>> /\ UNCHANGED <<sockfile, client, closed>>
  BY DEF Accept, GoTo, fileVars, clientVars, connVars
<1>0. proc'[d] = q /\ \A e \in Daemons \ {d} : proc'[e] = proc[e]
  <2> HIDE DEF q
  <2> QED BY <1>1 DEF InvHeld, InvFits
<1>2. Sound(p, "idle") /\ DOMAIN p = Fields
  BY <1>1 DEF InvHeld, InvConn, InvFits, Fits
<1>3. f \in Fds
  <2>1. \E i \in free : \A j \in free : i <= j
    <3>1. free \in SUBSET (1..3) /\ free # {}
      BY <1>2 DEF Sound, Busy, Fds
    <3> HIDE DEF free
    <3>2. CASE 1 \in free
      BY <3>1, <3>2
    <3>3. CASE 1 \notin free /\ 2 \in free
      BY <3>1, <3>3
    <3>4. CASE 1 \notin free /\ 2 \notin free
      <4>1. free = {3}
        <5>1. \A x \in free : x = 3
          <6>1. \A x \in 1..3 : x \in {1, 2, 3}
            OBVIOUS
          <6> QED BY <3>1, <3>4, <6>1
        <5> QED BY <3>1, <5>1
      <4> QED BY <4>1
    <3> QED BY <3>2, <3>3, <3>4
  <2>2. Lowest(free) \in free
    <3> HIDE DEF free
    <3> QED BY <2>1 DEF Lowest
  <2> QED BY <2>2
<1>4. /\ q.backlog = Tail(p.backlog) /\ q.fdc = f /\ q.stdio = p.stdio /\ q.chan = p.chan
      /\ q.fd = [i \in Fds |-> IF i \in {f, 1, 2} THEN c ELSE p.fd[i]]
  <2> HIDE DEF f, c
  <2> QED BY <1>2 DEF Fields
<1> HIDE DEF f, q
<1>5. /\ p.backlog \in Seq(Clients) /\ p.fd \in [Fds -> Clients \cup {NULL, "/dev/null"}]
      /\ p.stdio \in Seq(Quiet) /\ p.chan \in Seq(Quiet)
      /\ \A i, j \in DOMAIN p.backlog : p.backlog[i] = p.backlog[j] => i = j
      /\ \A i \in Fds : p.fd[i] \notin Clients
  BY <1>2 DEF Sound, Busy
<1>6. /\ Tail(p.backlog) \in Seq(Clients) /\ c \in Clients /\ c = p.backlog[1] /\ 1 \in DOMAIN p.backlog
      /\ \A i \in DOMAIN Tail(p.backlog) :
           i + 1 \in DOMAIN p.backlog /\ Tail(p.backlog)[i] = p.backlog[i + 1] /\ i + 1 # 1 /\ i \in Nat
  BY <1>1, <1>5
<1> HIDE DEF c, p
<1>7. /\ \A i \in Fds : q.fd[i] \in Clients => q.fd[i] = c
      /\ q.fd[f] = c /\ q.fd[1] = c /\ q.fd[2] = c
      /\ q.fd \in [Fds -> Clients \cup {NULL, "/dev/null"}]
  BY <1>3, <1>4, <1>5, <1>6 DEF Fds
<1>8. \A i \in DOMAIN q.backlog : q.backlog[i] \in Clients /\ q.backlog[i] # c
  BY <1>4, <1>5, <1>6
<1>9. \A i, j \in DOMAIN q.backlog : q.backlog[i] = q.backlog[j] => i = j
  <2> SUFFICES ASSUME NEW i \in DOMAIN q.backlog, NEW j \in DOMAIN q.backlog,
                      q.backlog[i] = q.backlog[j]
               PROVE  i = j
    OBVIOUS
  <2>1. p.backlog[i + 1] = p.backlog[j + 1] /\ i + 1 \in DOMAIN p.backlog /\ j + 1 \in DOMAIN p.backlog
        /\ i \in Nat /\ j \in Nat
    BY <1>4, <1>6
  <2>2. i + 1 = j + 1
    BY <2>1, <1>5
  <2> QED BY <2>1, <2>2
<1>10. Sound(q, "read")
  <2>1. \A i \in DOMAIN q.backlog, j \in Fds : q.backlog[i] # q.fd[j]
    BY <1>7, <1>8
  <2>2. q.fdc \in Fds /\ q.fd[q.fdc] = c
    BY <1>3, <1>4, <1>7
  <2> QED BY <1>3, <1>4, <1>5, <1>6, <1>7, <1>9, <2>1, <2>2 DEF Sound, Busy
<1>11. Held(q) \subseteq Held(p)
  <2> SUFFICES ASSUME NEW x \in Held(q) PROVE x \in Held(p)
    OBVIOUS
  <2>1. x \in Clients
    BY DEF Held
  <2>2. CASE \E i \in Fds : x = q.fd[i]
    <3>1. x = c
      BY <1>7, <2>1, <2>2
    <3> QED BY <1>6, <2>1, <3>1 DEF Held
  <2>3. CASE \E i \in DOMAIN q.backlog : x = q.backlog[i]
    <3>1. PICK i \in DOMAIN q.backlog : x = q.backlog[i]
      BY <2>3
    <3>2. i + 1 \in DOMAIN p.backlog /\ x = p.backlog[i + 1]
      BY <1>4, <1>6, <3>1
    <3> QED BY <2>1, <3>2 DEF Held
  <2> QED BY <2>2, <2>3 DEF Held
<1>12. sockfile' \in Daemons \cup {NULL}
  BY <1>1 DEF InvHeld, InvConn
<1> QED BY <1>0, <1>1, <1>10, <1>11, <1>12, StepHeld DEF p

\* close: nobody holds the connection any more.
LEMMA CloseHeld == ASSUME InvHeld, NEW d \in Daemons, Close(d) PROVE InvConn'
<1> DEFINE p == proc[d]
           q == [p EXCEPT !.fd = [i \in Fds |-> IF i \in {p.fdc, 1, 2} THEN NULL ELSE p.fd[i]],
                          !.fdc = 0, !.pos = 0, !.todo = <<>>]
<1>1. /\ proc' = [proc EXCEPT ![d] = q] /\ pc' = [pc EXCEPT ![d] = "idle"] /\ pc[d] = "close"
      /\ closed' = closed \cup {p.fd[p.fdc]} /\ UNCHANGED <<sockfile, client>>
  BY DEF Close, GoTo, Client, fileVars, clientVars
<1>0. proc'[d] = q /\ \A e \in Daemons \ {d} : proc'[e] = proc[e]
  <2> HIDE DEF q
  <2> QED BY <1>1 DEF InvHeld, InvFits
<1>2. Sound(p, "close") /\ DOMAIN p = Fields
  BY <1>1 DEF InvHeld, InvConn, InvFits, Fits
<1>3. /\ q.backlog = p.backlog /\ q.stdio = p.stdio /\ q.chan = p.chan
      /\ q.fd = [i \in Fds |-> IF i \in {p.fdc, 1, 2} THEN NULL ELSE p.fd[i]]
  BY <1>2 DEF Fields
<1> HIDE DEF p, q
<1> DEFINE c == p.fd[p.fdc]
<1>4. /\ p.backlog \in Seq(Clients) /\ p.fd \in [Fds -> Clients \cup {NULL, "/dev/null"}]
      /\ p.stdio \in Seq(Quiet) /\ p.chan \in Seq(Quiet)
      /\ \A i, j \in DOMAIN p.backlog : p.backlog[i] = p.backlog[j] => i = j
      /\ \A i \in DOMAIN p.backlog, f \in Fds : p.backlog[i] # p.fd[f]
      /\ p.fdc \in Fds /\ c \in Clients
      /\ p.fd[1] = c /\ p.fd[2] = c
      /\ \A f \in Fds \ {p.fdc, 1, 2} : p.fd[f] \notin Clients
  BY <1>2 DEF Sound, Busy
<1> HIDE DEF c
<1>5. /\ \A f \in Fds : q.fd[f] \in {NULL, "/dev/null"} /\ q.fd[f] \notin Clients
      /\ 1 \in Fds /\ q.fd[1] = NULL /\ q.fd \in [Fds -> Clients \cup {NULL, "/dev/null"}]
  <2>1. p.fdc \in Fds /\ p.fdc \in {1, 2, 3} /\ p.fd[p.fdc] = c
    BY <1>4 DEF Fds, c
  <2>2. \A f \in Fds : q.fd[f] \notin Clients
    BY <1>3, <1>4, <2>1, LsctldAssumption DEF Fds
  <2> QED BY <1>3, <1>4, <2>2 DEF Fds
<1>6. \A i \in DOMAIN q.backlog, f \in Fds : q.backlog[i] # q.fd[f]
  <2>1. \A i \in DOMAIN q.backlog : q.backlog[i] \in Clients
    BY <1>3, <1>4
  <2> QED BY <1>5, <2>1
<1>7. Sound(q, "idle")
  BY <1>3, <1>4, <1>5, <1>6 DEF Sound, Busy
<1>8. Held(q) \subseteq Held(p) /\ c \in Held(p) \ Held(q)
  <2>1. Held(q) \subseteq {p.backlog[i] : i \in DOMAIN p.backlog} \cap Clients
    BY <1>3, <1>5 DEF Held
  <2>2. c \in Held(p)
    BY <1>4 DEF Held, c
  <2>3. \A i \in DOMAIN p.backlog : p.backlog[i] # c
    BY <1>4 DEF c
  <2> QED BY <2>1, <2>2, <2>3 DEF Held
<1>9. sockfile' \in Daemons \cup {NULL}
  BY <1>1 DEF InvHeld, InvConn
<1>10. \E x \in Held(proc[d]) \ Held(q) : closed' = closed \cup {x}
  BY <1>1, <1>8 DEF c, p
<1> QED BY <1>0, <1>1, <1>7, <1>8, <1>9, <1>10, StepHeld DEF p

\* A daemon that serves a client goes on serving it with other fields.
LEMMA ServesHeld ==
  ASSUME InvHeld, NEW d \in Daemons, NEW q, proc' = [proc EXCEPT ![d] = q],
         NEW label, label \in Busy, pc' = [pc EXCEPT ![d] = label], pc[d] \in Busy,
         q.backlog = proc[d].backlog, q.fd = proc[d].fd, q.fdc = proc[d].fdc,
         q.stdio \in Seq(Quiet), q.chan \in Seq(Quiet),
         UNCHANGED <<sockfile, client, closed>>
  PROVE  InvConn'
<1>1. proc'[d] = q /\ \A e \in Daemons \ {d} : proc'[e] = proc[e]
  BY DEF InvHeld, InvFits
<1>2. Sound(proc[d], pc[d])
  BY DEF InvHeld, InvConn
<1>3. Sound(proc[d], label)
  BY <1>2 DEF Sound, Busy
<1>4. Sound(q, label) /\ Held(q) = Held(proc[d])
  BY <1>3, OtherFields
<1>5. sockfile' \in Daemons \cup {NULL}
  BY DEF InvHeld, InvConn
<1> QED BY <1>1, <1>4, <1>5, StepHeld

\* The fields of a process that serves a client.
LEMMA ServedClient ==
  ASSUME InvHeld, NEW d \in Daemons, pc[d] \in Busy
  PROVE  /\ DOMAIN proc[d] = Fields /\ Client(d) \in Clients
         /\ proc[d].fd[1] = Client(d) /\ proc[d].fd[2] = Client(d)
         /\ Client(d) \notin closed /\ client[Client(d)] # "off"
         /\ proc[d].stdio \in Seq(Quiet) /\ proc[d].chan \in Seq(Quiet)
<1>1. Sound(proc[d], pc[d])
  BY DEF InvHeld, InvConn
<1>2. /\ proc[d].fdc \in Fds /\ proc[d].fd[proc[d].fdc] \in Clients
      /\ proc[d].fd[1] = proc[d].fd[proc[d].fdc] /\ proc[d].fd[2] = proc[d].fd[proc[d].fdc]
      /\ proc[d].stdio \in Seq(Quiet) /\ proc[d].chan \in Seq(Quiet)
  BY <1>1 DEF Sound
<1>3. Client(d) \in Held(proc[d])
  BY <1>2 DEF Held, Client
<1>4. DOMAIN proc[d] = Fields
  BY DEF InvHeld, InvFits, Fits
<1>5. Client(d) \notin closed /\ client[Client(d)] # "off"
  BY <1>3 DEF InvHeld, InvConn
<1> QED BY <1>2, <1>4, <1>5 DEF Client

\* Starting and stopping.
LEMMA ComeAndGoHeld ==
  ASSUME InvHeld, NEW d \in Daemons,
         \/ Start(d) \/ Terminate(d) \/ Crash(d) \/ GetUnixSocket(d) \/ Daemonize(d)
         \/ Initialize(d) \/ ExitWrapper(d) \/ Finalize(d) \/ Dispatch(d)
  PROVE  InvConn'
<1>1. UNCHANGED <<client, closed>> /\ sockfile' \in Daemons \cup {NULL}
  BY DEF InvHeld, InvConn, Start, Terminate, Crash, GetUnixSocket, Daemonize, Initialize,
         ExitWrapper, Finalize, Dispatch, fileVars, clientVars, connVars
<1>2. CASE Dies(d)
  BY <1>1, <1>2, DiesHeld
<1>3. CASE Start(d) /\ Goes(d, "checked")
  BY <1>1, <1>3, GoesHeld DEF Start, Busy
<1>4. CASE GetUnixSocket(d) /\ Goes(d, "bound")
  BY <1>1, <1>4, GoesHeld DEF GetUnixSocket, Busy
<1>5. CASE Daemonize(d) /\ Goes(d, "init")
  BY <1>1, <1>5, GoesHeld DEF Daemonize, Busy
<1>6. CASE Initialize(d) /\ Goes(d, "idle")
  BY <1>1, <1>6, GoesHeld DEF Initialize, Busy
<1>7. CASE Goes(d, "exit")
  BY <1>1, <1>7, GoesHeld
<1>8. CASE Goes(d, "finalize")
  BY <1>1, <1>8, GoesHeld
<1>9. CASE Terminate(d)
  BY <1>9, SameHeld DEF Terminate, fileVars, clientVars, connVars, InvHeld, InvConn
<1> QED BY <1>2, <1>3, <1>4, <1>5, <1>6, <1>7, <1>8, <1>9
        DEF Start, Crash, GetUnixSocket, Daemonize, Initialize, ExitWrapper, Finalize, Dispatch

\* Reading a script.
LEMMA ReadHeld == ASSUME InvHeld, NEW d \in Daemons, Read(d) \/ ReadEnd(d) PROVE InvConn'
<1>1. pc[d] = "read" /\ pc[d] \in Busy /\ UNCHANGED <<sockfile, client, closed>>
  BY DEF Read, ReadEnd, Busy, fileVars, clientVars, connVars
<1>2. DOMAIN proc[d] = Fields /\ proc[d].stdio \in Seq(Quiet) /\ proc[d].chan \in Seq(Quiet)
  BY <1>1, ServedClient
<1>0. sockfile' \in Daemons \cup {NULL} /\ pc \in [Daemons -> Labels]
  BY <1>1 DEF InvHeld, InvConn, InvLabels
<1>3. CASE Goes(d, "exit")
  BY <1>0, <1>1, <1>3, GoesHeld
<1>4. ASSUME NEW x, NEW y, UNCHANGED pc,
             proc' = [proc EXCEPT ![d] = [proc[d] EXCEPT !.pos = x, !.cmd_size = y]]
      PROVE  InvConn'
  <2> DEFINE q == [proc[d] EXCEPT !.pos = x, !.cmd_size = y]
  <2>1. q.backlog = proc[d].backlog /\ q.fd = proc[d].fd /\ q.fdc = proc[d].fdc
        /\ q.stdio = proc[d].stdio /\ q.chan = proc[d].chan
    BY <1>2 DEF Fields
  <2>2. pc' = [pc EXCEPT ![d] = "read"]
    BY <1>0, <1>1, <1>4
  <2>3. proc' = [proc EXCEPT ![d] = q] /\ "read" \in Busy
    BY <1>4 DEF Busy
  <2> HIDE DEF q
  <2> QED BY <1>1, <1>2, <2>1, <2>2, <2>3, ServesHeld
<1>5. CASE ReadEnd(d)
  <2> DEFINE q == [proc[d] EXCEPT !.todo = Output[Client(d)]]
  <2>1. q.backlog = proc[d].backlog /\ q.fd = proc[d].fd /\ q.fdc = proc[d].fdc
        /\ q.stdio = proc[d].stdio /\ q.chan = proc[d].chan
    BY <1>2 DEF Fields
  <2>2. pc' = [pc EXCEPT ![d] = "eval"] /\ proc' = [proc EXCEPT ![d] = q] /\ "eval" \in Busy
    BY <1>5 DEF ReadEnd, GoTo, Busy
  <2> HIDE DEF q
  <2> QED BY <1>1, <1>2, <2>1, <2>2, ServesHeld
<1>6. CASE Read(d)
  BY <1>6, <1>3, <1>4 DEF Read
<1> QED BY <1>5, <1>6

\* Writing, whatever is written.
LEMMA WriteHeld ==
  ASSUME InvHeld, NEW d \in Daemons, NEW i, NEW pieces, NEW q, NEW next, next \in Busy,
         Write(d, i, pieces, q, next), pc[d] \in Busy,
         q.backlog = proc[d].backlog, q.fd = proc[d].fd, q.fdc = proc[d].fdc,
         q.stdio \in Seq(Quiet), q.chan \in Seq(Quiet),
         UNCHANGED <<sockfile, client, closed>>
  PROVE  InvConn'
<1>1. proc' = [proc EXCEPT ![d] = q] /\ pc' = [pc EXCEPT ![d] = next]
  BY DEF Write, GoTo
<1> QED BY <1>1, ServesHeld

\* Holding back, whatever is held.
LEMMA HoldHeld ==
  ASSUME InvHeld, NEW d \in Daemons, NEW held, NEW cap, NEW p, NEW q, Hold(d, held, cap, p, q),
         pc[d] = "eval",
         p.backlog = proc[d].backlog, p.fd = proc[d].fd, p.fdc = proc[d].fdc,
         p.stdio \in Seq(Quiet), p.chan \in Seq(Quiet),
         q.backlog = proc[d].backlog, q.fd = proc[d].fd, q.fdc = proc[d].fdc,
         q.stdio \in Seq(Quiet), q.chan \in Seq(Quiet),
         UNCHANGED <<sockfile, client, closed>>
  PROVE  InvConn'
<1>1. "eval" \in Busy /\ pc[d] \in Busy /\ pc \in [Daemons -> Labels]
  BY DEF Busy, InvHeld, InvLabels
<1>2. CASE Write(d, 1, held, q, "eval")
  BY <1>1, <1>2, WriteHeld
<1>3. CASE proc' = [proc EXCEPT ![d] = p] /\ UNCHANGED pc
  <2>1. pc' = [pc EXCEPT ![d] = "eval"]
    BY <1>1, <1>3
  <2> QED BY <1>1, <1>3, <2>1, ServesHeld
<1> QED BY <1>2, <1>3 DEF Hold

\* What is left to print may change, and what the buffers hold.
LEMMA RestSame ==
  ASSUME NEW d, DOMAIN proc[d] = Fields, NEW s
  PROVE  LET q == [Rest(d) EXCEPT !.stdio = s]
             r == [Rest(d) EXCEPT !.chan = s] IN
         /\ q.backlog = proc[d].backlog /\ q.fd = proc[d].fd /\ q.fdc = proc[d].fdc
         /\ q.stdio = s /\ q.chan = proc[d].chan
         /\ r.backlog = proc[d].backlog /\ r.fd = proc[d].fd /\ r.fdc = proc[d].fdc
         /\ r.stdio = proc[d].stdio /\ r.chan = s
BY DEF Rest, Fields

\* Evaluating a script.
LEMMA EvalHeld ==
  ASSUME InvHeld, NEW d \in Daemons,
         EvalPuts(d) \/ EvalPrint(d) \/ EvalShow(d) \/ EvalOk(d) \/ EvalError(d)
  PROVE  InvConn'
<1>1. pc[d] = "eval" /\ pc[d] \in Busy /\ UNCHANGED <<sockfile, client, closed>>
  BY DEF EvalPuts, EvalPrint, EvalShow, EvalOk, EvalError, Busy, fileVars, clientVars, connVars
<1>2. /\ DOMAIN proc[d] = Fields /\ Client(d) \in Clients
      /\ proc[d].stdio \in Seq(Quiet) /\ proc[d].chan \in Seq(Quiet)
  BY <1>1, ServedClient
<1>3. "eval" \in Busy /\ "close" \in Busy /\ pc \in [Daemons -> Labels]
  BY DEF Busy, InvHeld, InvLabels
<1>0. <<>> \in Seq(Quiet) /\ \A kind \in {"show", "print"} : Piece(Client(d), kind) \in Quiet
  BY <1>2 DEF Piece, Quiet
<1>4. CASE EvalPuts(d)
  <2> DEFINE q == [Rest(d) EXCEPT !.chan = <<>>]
  <2>1. q.backlog = proc[d].backlog /\ q.fd = proc[d].fd /\ q.fdc = proc[d].fdc
        /\ q.stdio = proc[d].stdio /\ q.chan = <<>>
    BY <1>2, RestSame
  <2>2. Write(d, 1, Append(proc[d].chan, Piece(Client(d), "puts")), q, "eval")
    BY <1>4 DEF EvalPuts
  <2> HIDE DEF q
  <2> QED BY <1>0, <1>1, <1>2, <1>3, <2>1, <2>2, WriteHeld
<1>8. CASE EvalPrint(d)
  <2> DEFINE held == Append(proc[d].chan, Piece(Client(d), "print"))
             q == [Rest(d) EXCEPT !.chan = held]
             r == [Rest(d) EXCEPT !.chan = <<>>]
  <2>1. held \in Seq(Quiet)
    BY <1>0, <1>2
  <2>2. Hold(d, held, ChanCap, q, r)
    BY <1>8 DEF EvalPrint
  <2> HIDE DEF held
  <2>3. /\ q.backlog = proc[d].backlog /\ q.fd = proc[d].fd /\ q.fdc = proc[d].fdc
        /\ q.stdio = proc[d].stdio /\ q.chan = held
    BY <1>2, RestSame
  <2>4. /\ r.backlog = proc[d].backlog /\ r.fd = proc[d].fd /\ r.fdc = proc[d].fdc
        /\ r.stdio = proc[d].stdio /\ r.chan = <<>>
    BY <1>2, RestSame
  <2> HIDE DEF q, r
  <2>5. /\ q.stdio \in Seq(Quiet) /\ q.chan \in Seq(Quiet)
        /\ r.stdio \in Seq(Quiet) /\ r.chan \in Seq(Quiet)
    BY <1>0, <1>2, <2>1, <2>3, <2>4
  <2> QED BY <1>1, <2>2, <2>3, <2>4, <2>5, HoldHeld
<1>5. CASE EvalShow(d)
  <2> DEFINE held == Append(proc[d].stdio, Piece(Client(d), "show"))
             q == [Rest(d) EXCEPT !.stdio = held]
             r == [Rest(d) EXCEPT !.stdio = <<>>]
  <2>1. held \in Seq(Quiet)
    BY <1>0, <1>2
  <2>2. Hold(d, held, StdioCap, q, r)
    BY <1>5 DEF EvalShow
  <2> HIDE DEF held
  <2>3. /\ q.backlog = proc[d].backlog /\ q.fd = proc[d].fd /\ q.fdc = proc[d].fdc
        /\ q.stdio = held /\ q.chan = proc[d].chan
    BY <1>2, RestSame
  <2>4. /\ r.backlog = proc[d].backlog /\ r.fd = proc[d].fd /\ r.fdc = proc[d].fdc
        /\ r.stdio = <<>> /\ r.chan = proc[d].chan
    BY <1>2, RestSame
  <2> HIDE DEF q, r
  <2>5. /\ q.stdio \in Seq(Quiet) /\ q.chan \in Seq(Quiet)
        /\ r.stdio \in Seq(Quiet) /\ r.chan \in Seq(Quiet)
    BY <1>0, <1>2, <2>1, <2>3, <2>4
  <2> QED BY <1>1, <2>2, <2>3, <2>4, <2>5, HoldHeld
<1>6. CASE EvalOk(d)
  <2>1. sockfile' \in Daemons \cup {NULL}
    BY <1>1 DEF InvHeld, InvConn
  <2> QED BY <1>1, <1>3, <1>6, <2>1, GoesHeld DEF EvalOk
<1>7. CASE EvalError(d)
  BY <1>1, <1>2, <1>3, <1>7, WriteHeld DEF EvalError
<1> QED BY <1>4, <1>5, <1>6, <1>7, <1>8

\* A client that connects waits with one daemon, and nobody held it before.
LEMMA ConnectHeld == ASSUME InvHeld, NEW c \in Clients, Connect(c) PROVE InvConn'
<1> DEFINE d == sockfile
           p == proc[d]
           q == [p EXCEPT !.backlog = Append(p.backlog, c)]
<1>1. /\ client[c] = "off" /\ UNCHANGED <<pc, sockfile, closed>>
      /\ \E how \in {"open", "lost"} : client' = [client EXCEPT ![c] = how]
  BY DEF Connect, Ends, fileVars, connVars
<1>2. (\A e \in Daemons : c \notin Held(proc[e])) /\ c \notin closed
      /\ (\A x \in closed : client[x] # "off" /\ x \in Clients)
      /\ client \in [Clients -> {"off", "open", "done", "lost", "killed"}]
  BY <1>1 DEF InvHeld, InvConn
<1>0. client' \in [Clients -> {"off", "open", "done", "lost", "killed"}]
  BY <1>1, <1>2
<1>3. \A x \in Clients : (client[x] # "off" => client'[x] # "off") /\ client'[c] # "off"
  BY <1>1, <1>2
<1>4. CASE UNCHANGED proc
  BY <1>0, <1>1, <1>3, <1>4, SameHeld DEF InvHeld
<1>5. CASE d # NULL /\ proc' = [proc EXCEPT ![d] = q]
  <2>1. d \in Daemons /\ sockfile' = d
    BY <1>1, <1>5 DEF InvHeld, InvConn
  <2>2. DOMAIN p = Fields /\ Sound(p, pc[d]) /\ DOMAIN proc = Daemons
    BY <2>1 DEF InvHeld, InvConn, InvFits, Fits
  <2>3. /\ q.backlog = Append(p.backlog, c) /\ q.fd = p.fd /\ q.fdc = p.fdc /\ q.stdio = p.stdio
        /\ q.chan = p.chan
    BY <2>2 DEF Fields
  <2>0. proc'[d] = q /\ \A e \in Daemons \ {d} : proc'[e] = proc[e]
    <3> HIDE DEF q
    <3> QED BY <1>5, <2>1, <2>2
  <2>4. c \notin Held(p)
    BY <1>2, <2>1
  <2> HIDE DEF p, q, d
  <2>5. /\ p.backlog \in Seq(Clients) /\ (\A f \in Fds : p.fd[f] # c)
        /\ (\A i \in DOMAIN p.backlog : p.backlog[i] # c)
        /\ \A i, j \in DOMAIN p.backlog : p.backlog[i] = p.backlog[j] => i = j
        /\ \A i \in DOMAIN p.backlog, f \in Fds : p.backlog[i] # p.fd[f]
    BY <2>2, <2>4 DEF Sound, Held
  <2> DEFINE b == Append(p.backlog, c)
  <2>6. /\ b \in Seq(Clients)
        /\ \A i \in DOMAIN b : \/ i \in DOMAIN p.backlog /\ b[i] = p.backlog[i]
                               \/ i = Len(p.backlog) + 1 /\ b[i] = c
        /\ \A i \in DOMAIN p.backlog : i \in DOMAIN b /\ b[i] = p.backlog[i]
    BY <2>5
  <2> HIDE DEF b
  <2>7. Sound(q, pc[d])
    <3>1. \A i, j \in DOMAIN b : b[i] = b[j] => i = j
      BY <2>5, <2>6
    <3>2. \A i \in DOMAIN b, f \in Fds : b[i] # p.fd[f]
      BY <2>5, <2>6
    <3> QED BY <2>2, <2>3, <2>6, <3>1, <3>2 DEF Sound, b
  <2>8. Held(q) \subseteq Held(p) \cup {c}
    BY <2>3, <2>6 DEF Held, b
  <2>9. \A e \in Daemons : Held(proc'[e]) \subseteq Held(proc[e]) \cup (IF e = d THEN {c} ELSE {})
    BY <2>0, <2>8 DEF p
  <2>10. \A e \in Daemons : Sound(proc'[e], pc'[e])
    <3>1. \A e \in Daemons : Sound(proc[e], pc[e])
      BY DEF InvHeld, InvConn
    <3> QED BY <1>1, <2>0, <2>7, <3>1
  <2>11. \A e \in Daemons : Sound(proc[e], pc[e])'
    BY <2>10 DEF Sound
  <2>12. \A e \in Daemons : Held(proc[e])' = Held(proc'[e])
    BY DEF Held
  <2>13. \A e, x \in Daemons : e # x => Held(proc'[e]) \cap Held(proc'[x]) = {}
    <3>1. \A e, x \in Daemons : e # x => Held(proc[e]) \cap Held(proc[x]) = {}
      BY DEF InvHeld, InvConn
    <3> QED BY <1>2, <2>9, <3>1
  <2>14. \A e \in Daemons : \A x \in Held(proc'[e]) : client'[x] # "off" /\ x \notin closed'
    <3> SUFFICES ASSUME NEW e \in Daemons, NEW x \in Held(proc'[e])
                 PROVE  client'[x] # "off" /\ x \notin closed'
      OBVIOUS
    <3>1. x \in Clients
      BY DEF Held
    <3>2. CASE x \in Held(proc[e])
      BY <1>1, <1>3, <3>1, <3>2 DEF InvHeld, InvConn
    <3>3. CASE x = c
      BY <1>1, <1>2, <1>3, <3>3
    <3> QED BY <2>9, <3>2, <3>3
  <2>15. closed' \subseteq Clients /\ \A x \in closed' : client'[x] # "off"
    BY <1>1, <1>2, <1>3
  <2> QED BY <1>0, <2>1, <2>11, <2>12, <2>13, <2>14, <2>15 DEF InvConn
<1>6. UNCHANGED proc \/ (d # NULL /\ proc' = [proc EXCEPT ![d] = q])
  BY DEF Connect
<1> QED BY <1>4, <1>5, <1>6

\* The steps of clients.
LEMMA ClientHeld ==
  ASSUME InvHeld, NEW c \in Clients, ReadStdin(c) \/ Sends(c) \/ Receives(c) \/ Kill(c)
  PROVE  InvConn'
<1>1. UNCHANGED <<proc, pc, sockfile, closed>>
  BY DEF ReadStdin, Sends, WriteSock, WriteSockBroken, Receives, ReadSock, WriteStdout,
         ReadSockEnd, Kill, daemonVars, fileVars, connVars
<1>2. UNCHANGED client \/ \E how \in {"done", "lost", "killed"} : client' = [client EXCEPT ![c] = how]
  BY DEF ReadStdin, Sends, WriteSock, WriteSockBroken, Receives, ReadSock, WriteStdout,
         ReadSockEnd, Kill, Ends
<1>3. client \in [Clients -> {"off", "open", "done", "lost", "killed"}]
  BY DEF InvHeld, InvConn
<1>4. client' \in [Clients -> {"off", "open", "done", "lost", "killed"}]
  BY <1>2, <1>3
<1>5. \A x \in Clients : client[x] # "off" => client'[x] # "off"
  BY <1>2, <1>3
<1> QED BY <1>1, <1>4, <1>5, SameHeld DEF InvHeld

\* Every step keeps connections with one daemon.
LEMMA NextHeld == ASSUME InvHeld, [Next]_vars PROVE InvConn'
<1>1. ASSUME NEW d \in Daemons, DaemonStep(d) PROVE InvConn'
  BY <1>1, ComeAndGoHeld, AcceptHeld, ReadHeld, EvalHeld, CloseHeld DEF DaemonStep
<1>2. CASE UNCHANGED vars
  BY <1>2, SameHeld DEF vars, daemonVars, fileVars, clientVars, connVars, InvHeld, InvConn
<1> QED BY <1>1, <1>2, ComeAndGoHeld, ConnectHeld, ClientHeld DEF Next

\* Nobody is connected at the start.
LEMMA InitHeld == Init => InvConn
<1> SUFFICES ASSUME Init PROVE InvConn
  OBVIOUS
<1>1. /\ client = [c \in Clients |-> "off"] /\ closed = {} /\ sockfile = NULL
      /\ \A d \in Daemons : proc[d] = Fresh /\ pc[d] = "off"
  BY DEF Init
<1>2. \A d \in Daemons : Sound(proc[d], pc[d]) /\ Held(proc[d]) = {}
  BY <1>1, FreshSound
<1> QED BY <1>1, <1>2 DEF InvConn

-----------------------------------------------------------------------------
(***************************************************************************)
(* The operator Own.                                                       *)
(***************************************************************************)
\* A set of numbers that is not empty has a least one.
LEMMA LeastExists ==
  ASSUME NEW S \in SUBSET Nat, S # {}
  PROVE  \E x \in S : \A y \in S : x =< y
<1> DEFINE R == OpToRel(<, Nat)
<1>1. IsWellFoundedOn(R, Nat)
  BY NatLessThanWellFounded
<1>2. PICK x \in S : \A y \in S : ~(<<y, x>> \in R)
  <2> HIDE DEF R
  <2> QED BY <1>1, WFMin
<1>3. \A y \in S : y < x => <<y, x>> \in R
  BY DEF OpToRel
<1>4. \A y \in S : ~(y < x)
  <2> HIDE DEF R
  <2> QED BY <1>2, <1>3
<1>5. \A y \in S : x =< y
  BY <1>4
<1> QED BY <1>5

\* What Own has kept of the first n pieces, given what it kept of fewer.
Keeping(k, s, n) ==
  IF n = 0 THEN <<>>
  ELSE IF s[n].kind \in {"show", "print"} THEN k[n - 1] ELSE Append(k[n - 1], s[n])

\* k follows the definition of Own up to n.
Keeps(k, s, n) == k = [i \in 0..n |-> Keeping(k, s, i)]

\* Own chooses such a function for the whole sequence.
LEMMA OwnDef == \A s : Own(s) = (CHOOSE k : Keeps(k, s, Len(s)))[Len(s)]
BY DEF Own, Keeps, Keeping

\* There is a function that does, as far as the pieces go.
LEMMA KeepsExists ==
  ASSUME NEW P, NEW s \in Seq(P)
  PROVE  \A n \in 0..Len(s) : \E k \in [0..n -> Seq(P)] : Keeps(k, s, n)
<1> DEFINE Good(n) == \E k \in [0..n -> Seq(P)] : Keeps(k, s, n)
           Bad == {n \in 0..Len(s) : ~Good(n)}
<1>0. Len(s) \in Nat /\ Bad \in SUBSET Nat
  OBVIOUS
<1>1. CASE Bad # {}
  <2>1. PICK n \in Bad : \A y \in Bad : n =< y
    <3> HIDE DEF Bad
    <3> QED BY <1>0, <1>1, LeastExists
  <2>2. n \in 0..Len(s) /\ ~Good(n) /\ n \in Nat
    BY <1>0, <2>1
  <2>3. n # 0
    <3>1. [i \in 0..0 |-> <<>>] \in [0..0 -> Seq(P)]
      OBVIOUS
    <3>2. Keeps([i \in 0..0 |-> <<>>], s, 0)
      BY DEF Keeps, Keeping
    <3>3. Good(0)
      BY <3>1, <3>2
    <3> QED BY <2>2, <3>3
  <2>4. n - 1 \in 0..Len(s) /\ n - 1 \in Nat /\ Good(n - 1)
    <3>1. n - 1 \in 0..Len(s) /\ n - 1 \in Nat /\ ~(n =< n - 1)
      BY <1>0, <2>2, <2>3
    <3>2. n - 1 \notin Bad
      <4> HIDE DEF Bad
      <4> QED BY <2>1, <3>1
    <3> QED BY <3>1, <3>2
  <2>5. PICK k \in [0..(n - 1) -> Seq(P)] : Keeps(k, s, n - 1)
    BY <2>4
  <2> DEFINE K == [i \in 0..n |-> IF i = n THEN Keeping(k, s, n) ELSE k[i]]
  <2>6. s[n] \in P /\ k[n - 1] \in Seq(P) /\ n - 1 \in 0..(n - 1)
    BY <1>0, <2>2, <2>3, <2>4
  <2>7. Keeping(k, s, n) \in Seq(P)
    BY <2>6, <2>3 DEF Keeping
  <2>8. \A i \in 0..n : i # n => i \in 0..(n - 1)
    BY <2>2, <2>4
  <2>9. K \in [0..n -> Seq(P)]
    BY <2>5, <2>7, <2>8
  <2>10. \A i \in 0..n : K[i] = Keeping(K, s, i)
    <3> SUFFICES ASSUME NEW i \in 0..n PROVE K[i] = Keeping(K, s, i)
      OBVIOUS
    <3>1. i # 0 => i - 1 \in 0..(n - 1) /\ K[i - 1] = k[i - 1]
      BY <2>2, <2>4
    <3>2. Keeping(K, s, i) = Keeping(k, s, i)
      <4> HIDE DEF K
      <4> QED BY <3>1 DEF Keeping
    <3>3. CASE i = n
      BY <3>2, <3>3
    <3>4. CASE i # n
      BY <2>5, <2>8, <3>2, <3>4 DEF Keeps
    <3> QED BY <3>3, <3>4
  <2>11. Keeps(K, s, n)
    BY <2>9, <2>10 DEF Keeps
  <2> QED
    <3> HIDE DEF K
    <3> QED BY <2>2, <2>9, <2>11
<1> QED
  BY <1>1

\* They agree, also with those of a longer sequence.
LEMMA KeepsUnique ==
  ASSUME NEW s, NEW t, NEW m \in Nat, NEW n \in Nat, NEW k, NEW l, Keeps(k, s, m), Keeps(l, t, n),
         m =< n, \A i \in 1..m : s[i] = t[i]
  PROVE  \A i \in 0..m : k[i] = l[i]
<1> DEFINE Bad == {i \in 0..m : k[i] # l[i]}
<1>1. CASE Bad # {}
  <2>1. PICK i \in Bad : \A y \in Bad : i =< y
    <3>1. Bad \in SUBSET Nat
      OBVIOUS
    <3> HIDE DEF Bad
    <3> QED BY <1>1, <3>1, LeastExists
  <2>2. i \in 0..m /\ i \in Nat /\ i \in 0..n /\ k[i] # l[i]
    BY <2>1
  <2>3. k[i] = Keeping(k, s, i) /\ l[i] = Keeping(l, t, i)
    BY <2>2 DEF Keeps
  <2>4. i # 0
    BY <2>2, <2>3 DEF Keeping
  <2>5. i - 1 \in 0..m /\ ~(i =< i - 1) /\ i \in 1..m
    BY <2>2, <2>4
  <2>6. i - 1 \notin Bad
    <3> HIDE DEF Bad
    <3> QED BY <2>1, <2>5
  <2> QED BY <2>2, <2>3, <2>4, <2>5, <2>6 DEF Keeping
<1> QED BY <1>1

\* Nothing is kept of nothing.
LEMMA OwnEmpty == Own(<<>>) = <<>>
<1>1. Len(<<>>) = 0 /\ <<>> \in Seq({})
  OBVIOUS
<1>2. \E k : Keeps(k, <<>>, 0)
  <2>1. 0 \in 0..Len(<<>>)
    BY <1>1
  <2> QED BY <1>1, <2>1, KeepsExists
<1>3. Keeps(CHOOSE k : Keeps(k, <<>>, 0), <<>>, 0)
  BY <1>2
<1> DEFINE f == CHOOSE k : Keeps(k, <<>>, 0)
<1>4. f[0] = <<>>
  <2> HIDE DEF f
  <2>1. Keeps(f, <<>>, 0)
    BY <1>3 DEF f
  <2> QED BY <2>1 DEF Keeps, Keeping
<1> QED BY <1>1, <1>4, OwnDef

\* Another piece is kept when it is a line or an error.
LEMMA OwnAppend ==
  ASSUME NEW P, NEW s \in Seq(P), NEW x \in P
  PROVE  Own(Append(s, x)) =
           IF x.kind \in {"show", "print"} THEN Own(s) ELSE Append(Own(s), x)
<1> DEFINE t == Append(s, x)
           f == CHOOSE k : Keeps(k, s, Len(s))
           g == CHOOSE k : Keeps(k, t, Len(t))
<1>1. t \in Seq(P) /\ Len(s) \in Nat /\ Len(t) = Len(s) + 1 /\ t[Len(t)] = x
      /\ \A i \in 1..Len(s) : s[i] = t[i]
  OBVIOUS
<1>2. Keeps(f, s, Len(s)) /\ Keeps(g, t, Len(t))
  <2>1. \E k : Keeps(k, s, Len(s))
    BY <1>1, KeepsExists
  <2>2. \E k : Keeps(k, t, Len(t))
    <3> HIDE DEF t
    <3>1. Len(t) \in 0..Len(t)
      BY <1>1
    <3> QED BY <1>1, <3>1, KeepsExists
  <2> HIDE DEF t
  <2> QED BY <2>1, <2>2
<1>3. Own(s) = f[Len(s)] /\ Own(t) = g[Len(t)]
  BY OwnDef
<1> HIDE DEF f, g, t
<1>4. f[Len(s)] = g[Len(s)]
  <2>1. Len(s) \in 0..Len(s) /\ Len(s) =< Len(t) /\ Len(t) \in Nat
    BY <1>1
  <2>2. \A i \in 0..Len(s) : f[i] = g[i]
    <3> DEFINE a == Len(s)
               b == Len(t)
    <3>1. /\ a \in Nat /\ b \in Nat /\ a =< b /\ Keeps(f, s, a) /\ Keeps(g, t, b)
          /\ \A i \in 1..a : s[i] = t[i]
      BY <1>1, <1>2, <2>1
    <3> HIDE DEF a, b
    <3>2. \A i \in 0..a : f[i] = g[i]
      BY <3>1, KeepsUnique
    <3> QED BY <3>2 DEF a
  <2> QED BY <2>1, <2>2
<1>5. g[Len(t)] = Keeping(g, t, Len(t)) /\ Len(t) - 1 = Len(s) /\ Len(t) # 0
  BY <1>1, <1>2 DEF Keeps
<1>6. Own(t) = IF x.kind \in {"show", "print"} THEN g[Len(s)] ELSE Append(g[Len(s)], x)
  BY <1>1, <1>3, <1>5 DEF Keeping
<1> QED BY <1>3, <1>4, <1>6 DEF t

-----------------------------------------------------------------------------
(***************************************************************************)
(* The output of clients.                                                  *)
(***************************************************************************)
Pieces == [of : Clients, kind : {"puts", "print", "show", "error"}]

\* Output that ends no line adds nothing that is kept.
LEMMA OwnQuiet ==
  ASSUME NEW P, NEW s \in Seq(P), NEW t \in Seq(P),
         \A i \in DOMAIN t : t[i].kind \in {"show", "print"}
  PROVE  Own(s \o t) = Own(s)
<1> DEFINE Part(n) == s \o SubSeq(t, 1, n)
           Bad == {n \in 0..Len(t) : Own(Part(n)) # Own(s)}
<1>0. Len(t) \in Nat /\ Bad \in SUBSET Nat /\ Part(0) = s /\ Part(Len(t)) = s \o t
  OBVIOUS
<1>1. CASE Bad # {}
  <2>1. PICK n \in Bad : \A y \in Bad : n =< y
    <3> HIDE DEF Bad
    <3> QED BY <1>0, <1>1, LeastExists
  <2>2. n \in 0..Len(t) /\ n \in Nat /\ Own(Part(n)) # Own(s)
    BY <1>0, <2>1
  <2>3. n # 0
    BY <1>0, <2>2
  <2>4. n - 1 \in 0..Len(t) /\ n - 1 \in Nat /\ ~(n =< n - 1) /\ n \in 1..Len(t)
    BY <1>0, <2>2, <2>3
  <2>5. Own(Part(n - 1)) = Own(s)
    <3>1. n - 1 \notin Bad
      <4> HIDE DEF Bad
      <4> QED BY <2>1, <2>4
    <3> QED BY <2>4, <3>1
  <2>6. /\ Part(n - 1) \in Seq(P) /\ t[n] \in P /\ t[n].kind \in {"show", "print"}
        /\ Part(n) = Append(Part(n - 1), t[n])
    BY <2>4
  <2>7. Own(Append(Part(n - 1), t[n])) = Own(Part(n - 1))
    <3> HIDE DEF Part
    <3> QED BY <2>6, OwnAppend
  <2> QED BY <2>2, <2>5, <2>6, <2>7
<1>2. CASE Bad = {}
  <2>1. Len(t) \in 0..Len(t) /\ Len(t) \notin Bad
    BY <1>0, <1>2
  <2>2. Own(Part(Len(t))) = Own(s)
    <3> HIDE DEF Part
    <3> QED BY <2>1
  <2> QED BY <1>0, <2>2
<1> QED BY <1>1, <1>2

\* All of the output of a client, wherever it is.
Whole(c) == stdout[c] \o rcvbuf[c] \o reply[c]

InvOut ==
  /\ printed \in [Clients -> Seq(Pieces)] /\ reply \in [Clients -> Seq(Pieces)]
  /\ rcvbuf \in [Clients -> Seq(Pieces)] /\ stdout \in [Clients -> Seq(Pieces)]
  /\ \A c \in Clients : client[c] = "done" => c \in closed /\ rcvbuf[c] = <<>> /\ reply[c] = <<>>
  /\ \A c \in Clients : client[c] # "killed" => Own(Whole(c)) = Own(printed[c])

\* A step that moves no output.
LEMMA SameOut ==
  ASSUME InvOut, UNCHANGED <<printed, reply, rcvbuf, stdout>>,
         \A c \in Clients :
           /\ client'[c] # "killed" => client[c] # "killed"
           /\ client'[c] = "done" => c \in closed' /\ rcvbuf[c] = <<>> /\ reply[c] = <<>>
  PROVE  InvOut'
<1>1. /\ printed' = printed /\ reply' = reply /\ rcvbuf' = rcvbuf /\ stdout' = stdout
      /\ \A c \in Clients : Whole(c)' = Whole(c)
  BY DEF Whole
<1>2. \A c \in Clients : client'[c] # "killed" => Own(Whole(c)) = Own(printed[c])
  BY DEF InvOut
<1> QED BY <1>1, <1>2 DEF InvOut

\* A step that moves output of one client.
LEMMA MovesOut ==
  ASSUME InvOut, NEW c \in Clients,
         \A x \in Clients \ {c} :
           /\ printed'[x] = printed[x] /\ reply'[x] = reply[x] /\ rcvbuf'[x] = rcvbuf[x]
           /\ stdout'[x] = stdout[x] /\ client'[x] = client[x],
         printed' \in [Clients -> Seq(Pieces)], reply' \in [Clients -> Seq(Pieces)],
         rcvbuf' \in [Clients -> Seq(Pieces)], stdout' \in [Clients -> Seq(Pieces)],
         client'[c] # "done", UNCHANGED closed,
         client'[c] # "killed" => Own(stdout'[c] \o rcvbuf'[c] \o reply'[c]) = Own(printed'[c])
  PROVE  InvOut'
<1>1. \A x \in Clients : Whole(x)' = stdout'[x] \o rcvbuf'[x] \o reply'[x]
  BY DEF Whole
<1>2. \A x \in Clients \ {c} : Whole(x)' = Whole(x)
  BY DEF Whole
<1>3. \A x \in Clients \ {c} : client'[x] = "done" => x \in closed' /\ rcvbuf'[x] = <<>> /\ reply'[x] = <<>>
  BY DEF InvOut
<1>4. \A x \in Clients \ {c} : client'[x] # "killed" => Own(Whole(x)') = Own(printed'[x])
  BY <1>2 DEF InvOut
<1>5. client'[c] # "killed" => Own(Whole(c)') = Own(printed'[c])
  BY <1>1
<1> QED BY <1>3, <1>4, <1>5 DEF InvOut

\* Parts of a sequence.
LEMMA Assoc ==
  ASSUME NEW P, NEW a \in Seq(P), NEW b \in Seq(P), NEW c \in Seq(P)
  PROVE  (a \o b) \o c = a \o (b \o c)
OBVIOUS

\* The second of two sequences cut in two.
LEMMA Cut ==
  ASSUME NEW P, NEW a \in Seq(P), NEW b \in Seq(P), NEW n \in 1..Len(b)
  PROVE  (a \o SubSeq(b, 1, n)) \o SubSeq(b, n + 1, Len(b)) = a \o b
<1> DEFINE u == SubSeq(b, 1, n)
           v == SubSeq(b, n + 1, Len(b))
<1>1. u \in Seq(P) /\ v \in Seq(P)
  OBVIOUS
<1>0. u \o v = b
  OBVIOUS
<1> HIDE DEF u, v
<1>2. (a \o u) \o v = a \o (u \o v)
  BY <1>1, Assoc, SMTT(30)
<1> QED BY <1>0, <1>2 DEF u, v

\* What a buffer holds ends no line.
LEMMA HeldQuiet ==
  ASSUME NEW held \in Seq(Quiet)
  PROVE  held \in Seq(Pieces) /\ \A i \in DOMAIN held : held[i].kind \in {"show", "print"}
<1>1. Quiet \subseteq Pieces
  BY DEF Quiet, Pieces
<1>2. held \in Seq(Pieces)
  BY <1>1, SeqMonotonic
<1>3. \A i \in 1..Len(held) : held[i] \in Quiet
  BY ElementOfSeq
<1>4. \A i \in 1..Len(held) : held[i].kind \in {"show", "print"}
  BY <1>3 DEF Quiet
<1> QED BY <1>2, <1>4

\* What a buffer held adds no line to what a client has.
LEMMA OwnHeld ==
  ASSUME NEW a \in Seq(Pieces), NEW r \in Seq(Pieces), NEW held \in Seq(Quiet)
  PROVE  r \o held \in Seq(Pieces) /\ Own(a \o (r \o held)) = Own(a \o r)
<1>1. held \in Seq(Pieces) /\ \A i \in DOMAIN held : held[i].kind \in {"show", "print"}
  BY HeldQuiet
<1>2. a \o r \in Seq(Pieces) /\ r \o held \in Seq(Pieces)
  BY <1>1
<1>3. a \o (r \o held) = (a \o r) \o held
  <2>1. \A P : \A s, t, u \in Seq(P) : (s \o t) \o u = s \o (t \o u)
    BY Assoc
  <2> QED BY <1>1, <2>1
<1>4. Own((a \o r) \o held) = Own(a \o r)
  <2> DEFINE s == a \o r
  <2>1. s \in Seq(Pieces)
    BY <1>2
  <2> HIDE DEF s
  <2>2. Own(s \o held) = Own(s)
    BY <1>1, <2>1, OwnQuiet
  <2> QED BY <2>2 DEF s
<1> QED BY <1>2, <1>3, <1>4

\* A line behind it does.
LEMMA OwnHeldLine ==
  ASSUME NEW a \in Seq(Pieces), NEW r \in Seq(Pieces), NEW held \in Seq(Quiet),
         NEW x \in Pieces, x.kind \notin {"show", "print"}
  PROVE  /\ r \o Append(held, x) \in Seq(Pieces)
         /\ Own(a \o (r \o Append(held, x))) = Append(Own(a \o r), x)
<1>1. held \in Seq(Pieces)
  BY HeldQuiet
<1> DEFINE b == r \o held
<1>2. b \in Seq(Pieces) /\ Own(a \o b) = Own(a \o r)
  BY OwnHeld
<1>3. r \o Append(held, x) = Append(b, x)
  BY <1>1
<1> HIDE DEF b
<1>4. Append(b, x) \in Seq(Pieces) /\ a \o b \in Seq(Pieces) /\ a \o Append(b, x) = Append(a \o b, x)
  BY <1>2
<1>5. Own(Append(a \o b, x)) = Append(Own(a \o b), x)
  <2> DEFINE t == a \o b
  <2>1. t \in Seq(Pieces)
    BY <1>4
  <2> HIDE DEF t
  <2>2. Own(Append(t, x)) = Append(Own(t), x)
    BY <2>1, OwnAppend
  <2> QED BY <2>2 DEF t
<1> QED BY <1>2, <1>3, <1>4, <1>5

\* A piece of output is added to what the script printed, and the socket gets
\* as many lines.
LEMMA PrintsOut ==
  ASSUME InvOut, NEW c \in Clients, NEW kind \in {"puts", "print", "show", "error"},
         Printed(c, kind), client[c] # "done", NEW r \in Seq(Pieces), reply' = [reply EXCEPT ![c] = r],
         UNCHANGED <<client, closed, rcvbuf, stdout>>,
         client[c] # "killed" =>
           Own((stdout[c] \o rcvbuf[c]) \o r) =
             IF kind \in {"show", "print"} THEN Own((stdout[c] \o rcvbuf[c]) \o reply[c])
             ELSE Append(Own((stdout[c] \o rcvbuf[c]) \o reply[c]), Piece(c, kind))
  PROVE  InvOut'
<1> DEFINE x == Piece(c, kind)
<1>1. /\ reply \in [Clients -> Seq(Pieces)] /\ printed \in [Clients -> Seq(Pieces)]
      /\ rcvbuf \in [Clients -> Seq(Pieces)] /\ stdout \in [Clients -> Seq(Pieces)]
      /\ client[c] # "killed" => Own((stdout[c] \o rcvbuf[c]) \o reply[c]) = Own(printed[c])
  BY DEF InvOut, Whole
<1>2. x \in Pieces /\ x.kind = kind
  BY DEF Pieces, Piece
<1>3. printed' = [printed EXCEPT ![c] = Append(printed[c], x)]
  BY DEF Printed
<1> HIDE DEF x
<1>4. printed[c] \in Seq(Pieces) /\ Append(printed[c], x) \in Seq(Pieces)
  BY <1>1, <1>2
<1>5. Own(Append(printed[c], x)) =
        IF kind \in {"show", "print"} THEN Own(printed[c]) ELSE Append(Own(printed[c]), x)
  BY <1>2, <1>4, OwnAppend
<1>6. printed'[c] = Append(printed[c], x) /\ reply'[c] = r
      /\ stdout'[c] = stdout[c] /\ rcvbuf'[c] = rcvbuf[c]
  BY <1>1, <1>3
<1>7. client'[c] # "killed" => Own(stdout'[c] \o rcvbuf'[c] \o reply'[c]) = Own(printed'[c])
  BY <1>1, <1>5, <1>6 DEF x
<1>8. printed' \in [Clients -> Seq(Pieces)] /\ reply' \in [Clients -> Seq(Pieces)]
      /\ rcvbuf' \in [Clients -> Seq(Pieces)] /\ stdout' \in [Clients -> Seq(Pieces)]
  BY <1>1, <1>3, <1>4
<1>9. \A y \in Clients \ {c} :
           /\ printed'[y] = printed[y] /\ reply'[y] = reply[y] /\ rcvbuf'[y] = rcvbuf[y]
           /\ stdout'[y] = stdout[y] /\ client'[y] = client[y]
  BY <1>1, <1>3
<1> QED BY <1>7, <1>8, <1>9, MovesOut

\* A daemon serves a client that is not done: its connection is not closed.
LEMMA ServedNotDone ==
  ASSUME InvHeld, InvOut, NEW d \in Daemons, pc[d] \in Busy
  PROVE  Client(d) \in Clients /\ client[Client(d)] # "done"
BY ServedClient DEF InvOut

\* A script prints.
LEMMA EvalOut ==
  ASSUME InvHeld, InvOut, NEW d \in Daemons,
         EvalPuts(d) \/ EvalPrint(d) \/ EvalShow(d) \/ EvalError(d)
  PROVE  InvOut'
<1> DEFINE c == Client(d)
           a == stdout[c] \o rcvbuf[c]
<1>1. pc[d] \in Busy /\ UNCHANGED <<client, closed, rcvbuf, stdout>>
  BY DEF EvalPuts, EvalPrint, EvalShow, EvalError, Busy, clientVars
<1>2. c \in Clients /\ client[c] # "done" /\ proc[d].fd[1] = c /\ proc[d].fd[2] = c
      /\ proc[d].stdio \in Seq(Quiet) /\ proc[d].chan \in Seq(Quiet)
  BY <1>1, ServedNotDone, ServedClient
<1> HIDE DEF c
<1>3. reply \in [Clients -> Seq(Pieces)] /\ reply[c] \in Seq(Pieces) /\ a \in Seq(Pieces)
  BY <1>2 DEF InvOut
<1>4. \A kind \in {"puts", "print", "show", "error"} : Piece(c, kind) \in Pieces /\ Piece(c, kind).kind = kind
  BY <1>2 DEF Piece, Pieces
<1>5. \A kind \in {"show", "print"} : Piece(c, kind) \in Quiet
  BY <1>2 DEF Piece, Quiet
\* A line, or an error, behind what was held back.
<1>6. ASSUME NEW kind \in {"puts", "error"}, Printed(c, kind), NEW held \in Seq(Quiet),
             \/ client[c] = "killed" /\ UNCHANGED reply
             \/ client[c] # "killed" /\ reply' = [reply EXCEPT ![c] = @ \o Append(held, Piece(c, kind))]
      PROVE  InvOut'
  <2> DEFINE x == Piece(c, kind)
  <2>1. x \in Pieces /\ x.kind \notin {"show", "print"}
    BY <1>4
  <2>2. CASE client[c] = "killed" /\ UNCHANGED reply
    <3>1. reply' = [reply EXCEPT ![c] = reply[c]]
      BY <1>3, <2>2
    <3> QED BY <1>1, <1>2, <1>3, <1>6, <2>2, <3>1, PrintsOut
  <2>3. CASE client[c] # "killed" /\ reply' = [reply EXCEPT ![c] = reply[c] \o Append(held, x)]
    <3> HIDE DEF x, a
    <3> DEFINE r == reply[c] \o Append(held, x)
    <3>1. r \in Seq(Pieces) /\ Own(a \o r) = Append(Own(a \o reply[c]), x)
      BY <1>3, <2>1, OwnHeldLine
    <3>2. reply' = [reply EXCEPT ![c] = r]
      BY <2>3
    <3> HIDE DEF r
    <3> QED BY <1>1, <1>2, <1>6, <3>1, <3>2, PrintsOut DEF x, a
  <2> QED BY <1>6, <2>2, <2>3
\* Output that is held back.
<1>7. ASSUME NEW kind \in {"show", "print"}, Printed(c, kind), NEW held \in Seq(Quiet),
             \/ UNCHANGED reply
             \/ client[c] # "killed" /\ reply' = [reply EXCEPT ![c] = @ \o held]
      PROVE  InvOut'
  <2>1. CASE UNCHANGED reply
    <3>1. reply' = [reply EXCEPT ![c] = reply[c]]
      BY <1>3, <2>1
    <3> QED BY <1>1, <1>2, <1>3, <1>7, <3>1, PrintsOut
  <2>2. CASE client[c] # "killed" /\ reply' = [reply EXCEPT ![c] = reply[c] \o held]
    <3> DEFINE r == reply[c] \o held
    <3>1. r \in Seq(Pieces) /\ Own(a \o r) = Own(a \o reply[c])
      <4> HIDE DEF a
      <4> QED BY <1>3, OwnHeld
    <3>2. reply' = [reply EXCEPT ![c] = r]
      BY <2>2
    <3> HIDE DEF r
    <3> QED BY <1>1, <1>2, <1>7, <3>1, <3>2, PrintsOut
  <2> QED BY <1>7, <2>1, <2>2
<1>8. CASE EvalPuts(d)
  <2>1. Printed(c, "puts")
        /\ Write(d, 1, Append(proc[d].chan, Piece(c, "puts")), [Rest(d) EXCEPT !.chan = <<>>], "eval")
    BY <1>8 DEF EvalPuts, c
  <2>2. \/ client[c] = "killed" /\ UNCHANGED reply
        \/ client[c] # "killed" /\ reply' = [reply EXCEPT ![c] = @ \o Append(proc[d].chan, Piece(c, "puts"))]
    BY <1>2, <2>1 DEF Write
  <2> QED BY <1>2, <1>6, <2>1, <2>2
<1>9. CASE EvalError(d)
  <2>1. Printed(c, "error") /\ Write(d, 2, <<Piece(c, "error")>>, proc[d], "close")
    BY <1>9 DEF EvalError, c
  <2>2. <<>> \in Seq(Quiet) /\ <<Piece(c, "error")>> = Append(<<>>, Piece(c, "error"))
    OBVIOUS
  <2>3. \/ client[c] = "killed" /\ UNCHANGED reply
        \/ client[c] # "killed" /\ reply' = [reply EXCEPT ![c] = @ \o <<Piece(c, "error")>>]
    BY <1>2, <2>1 DEF Write
  <2> QED BY <1>6, <2>1, <2>2, <2>3
<1>10. CASE EvalPrint(d)
  <2> DEFINE held == Append(proc[d].chan, Piece(c, "print"))
  <2>1. held \in Seq(Quiet)
    BY <1>2, <1>5
  <2>2. Printed(c, "print")
        /\ Hold(d, held, ChanCap, [Rest(d) EXCEPT !.chan = held], [Rest(d) EXCEPT !.chan = <<>>])
    BY <1>10 DEF EvalPrint, c
  <2> HIDE DEF held
  <2>3. UNCHANGED reply \/ (client[c] # "killed" /\ reply' = [reply EXCEPT ![c] = @ \o held])
    BY <1>2, <2>2 DEF Hold, Write
  <2> QED BY <1>7, <2>1, <2>2, <2>3
<1>11. CASE EvalShow(d)
  <2> DEFINE held == Append(proc[d].stdio, Piece(c, "show"))
  <2>1. held \in Seq(Quiet)
    BY <1>2, <1>5
  <2>2. Printed(c, "show")
        /\ Hold(d, held, StdioCap, [Rest(d) EXCEPT !.stdio = held], [Rest(d) EXCEPT !.stdio = <<>>])
    BY <1>11 DEF EvalShow, c
  <2> HIDE DEF held
  <2>3. UNCHANGED reply \/ (client[c] # "killed" /\ reply' = [reply EXCEPT ![c] = @ \o held])
    BY <1>2, <2>2 DEF Hold, Write
  <2> QED BY <1>7, <2>1, <2>2, <2>3
<1> QED BY <1>8, <1>9, <1>10, <1>11

\* The other steps of daemons print nothing.
LEMMA DaemonOut ==
  ASSUME InvHeld, InvOut, NEW d \in Daemons, Start(d) \/ Terminate(d) \/ Crash(d) \/ DaemonStep(d)
  PROVE  InvOut'
<1>1. CASE EvalPuts(d) \/ EvalPrint(d) \/ EvalShow(d) \/ EvalError(d)
  BY <1>1, EvalOut
<1>2. CASE ~(EvalPuts(d) \/ EvalPrint(d) \/ EvalShow(d) \/ EvalError(d))
  <2>1. UNCHANGED <<client, printed, reply, rcvbuf, stdout>> /\ closed \subseteq closed'
    BY <1>2 DEF Start, Terminate, Crash, DaemonStep, GetUnixSocket, Daemonize, Initialize, ExitWrapper,
       Finalize, Dispatch, Accept, Read, ReadEnd, EvalOk, Close, clientVars, connVars
  <2>2. \A c \in Clients : client[c] = "done" => c \in closed /\ rcvbuf[c] = <<>> /\ reply[c] = <<>>
    BY DEF InvOut
  <2> QED BY <2>1, <2>2, SameOut
<1> QED BY <1>1, <1>2

\* A client reads, writes and ends.
LEMMA ClientOut ==
  ASSUME InvHeld, InvOut, NEW c \in Clients,
         Connect(c) \/ ReadStdin(c) \/ Sends(c) \/ Receives(c) \/ Kill(c)
  PROVE  InvOut'
<1>0. client \in [Clients -> {"off", "open", "done", "lost", "killed"}]
  BY DEF InvHeld, InvConn
<1>1. /\ reply \in [Clients -> Seq(Pieces)] /\ printed \in [Clients -> Seq(Pieces)]
      /\ rcvbuf \in [Clients -> Seq(Pieces)] /\ stdout \in [Clients -> Seq(Pieces)]
      /\ client[c] # "killed" => Own(stdout[c] \o rcvbuf[c] \o reply[c]) = Own(printed[c])
      /\ \A y \in Clients : client[y] = "done" => y \in closed /\ rcvbuf[y] = <<>> /\ reply[y] = <<>>
  BY DEF InvOut, Whole
<1>2. CASE Connect(c) \/ WriteSockBroken(c)
  <2>1. /\ UNCHANGED <<printed, reply, rcvbuf, stdout, closed>> /\ client[c] # "killed"
        /\ \E how \in {"open", "lost"} : client' = [client EXCEPT ![c] = how]
    BY <1>2 DEF Connect, WriteSockBroken, Ends, connVars
  <2> QED BY <1>0, <1>1, <2>1, SameOut
<1>3. CASE ReadStdin(c) \/ WriteSock(c)
  <2>1. UNCHANGED <<client, printed, reply, rcvbuf, stdout, closed>>
    BY <1>3 DEF ReadStdin, WriteSock
  <2> QED BY <1>1, <2>1, SameOut
<1>4. CASE ReadSockEnd(c)
  <2>1. /\ UNCHANGED <<printed, reply, rcvbuf, stdout, closed>> /\ client[c] = "open"
        /\ rcvbuf[c] = <<>> /\ reply[c] = <<>>
        /\ client' = [client EXCEPT ![c] = IF c \in closed THEN "done" ELSE "lost"]
    BY <1>4 DEF ReadSockEnd, Ends, connVars
  <2> QED BY <1>0, <1>1, <2>1, SameOut
<1>5. CASE ReadSock(c)
  <2>1. /\ client[c] = "open" /\ rcvbuf[c] = <<>> /\ UNCHANGED <<client, printed, stdout, closed>>
        /\ rcvbuf' = [rcvbuf EXCEPT ![c] = reply[c]] /\ reply' = [reply EXCEPT ![c] = <<>>]
    BY <1>5 DEF ReadSock
  <2>2. rcvbuf'[c] = reply[c] /\ reply'[c] = <<>> /\ <<>> \in Seq(Pieces)
    BY <1>1, <2>1
  <2>3. stdout[c] \o rcvbuf[c] = stdout[c] /\ (stdout[c] \o reply[c]) \o <<>> = stdout[c] \o reply[c]
    BY <1>1, <2>1
  <2>4. Own(stdout'[c] \o rcvbuf'[c] \o reply'[c]) = Own(printed'[c])
    BY <1>1, <2>1, <2>2, <2>3
  <2>5. rcvbuf' \in [Clients -> Seq(Pieces)] /\ reply' \in [Clients -> Seq(Pieces)]
        /\ \A y \in Clients \ {c} : rcvbuf'[y] = rcvbuf[y] /\ reply'[y] = reply[y]
    BY <1>1, <2>1, <2>2
  <2> QED BY <1>1, <2>1, <2>4, <2>5, MovesOut
<1>6. CASE WriteStdout(c)
  <2>1. client[c] = "open" /\ UNCHANGED <<client, printed, reply, closed>>
    BY <1>6 DEF WriteStdout, connVars
  <2>2. PICK n \in 1..Len(rcvbuf[c]) :
          /\ stdout' = [stdout EXCEPT ![c] = stdout[c] \o SubSeq(rcvbuf[c], 1, n)]
          /\ rcvbuf' = [rcvbuf EXCEPT ![c] = SubSeq(rcvbuf[c], n + 1, Len(rcvbuf[c]))]
    BY <1>6 DEF WriteStdout
  <2>3. /\ (stdout[c] \o SubSeq(rcvbuf[c], 1, n)) \o SubSeq(rcvbuf[c], n + 1, Len(rcvbuf[c]))
             = stdout[c] \o rcvbuf[c]
        /\ stdout[c] \o SubSeq(rcvbuf[c], 1, n) \in Seq(Pieces)
        /\ SubSeq(rcvbuf[c], n + 1, Len(rcvbuf[c])) \in Seq(Pieces)
    <3>1. stdout[c] \in Seq(Pieces) /\ rcvbuf[c] \in Seq(Pieces)
      BY <1>1
    <3>2. (stdout[c] \o SubSeq(rcvbuf[c], 1, n)) \o SubSeq(rcvbuf[c], n + 1, Len(rcvbuf[c]))
             = stdout[c] \o rcvbuf[c]
      BY <3>1, Cut
    <3>3. \A P : \A s, t \in Seq(P) : \A k \in 1..Len(s) :
            t \o SubSeq(s, 1, k) \in Seq(P) /\ SubSeq(s, k + 1, Len(s)) \in Seq(P)
      OBVIOUS
    <3> QED BY <3>1, <3>2, <3>3
  <2>4. stdout'[c] \o rcvbuf'[c] = stdout[c] \o rcvbuf[c]
    BY <1>1, <2>2, <2>3
  <2>5. Own(stdout'[c] \o rcvbuf'[c] \o reply'[c]) = Own(printed'[c])
    BY <1>1, <2>1, <2>4
  <2>6. stdout' \in [Clients -> Seq(Pieces)] /\ rcvbuf' \in [Clients -> Seq(Pieces)]
        /\ \A y \in Clients \ {c} : rcvbuf'[y] = rcvbuf[y] /\ stdout'[y] = stdout[y]
    BY <1>1, <2>2, <2>3
  <2> QED BY <1>1, <2>1, <2>5, <2>6, MovesOut
<1>7. CASE Kill(c)
  <2>1. /\ UNCHANGED <<printed, stdout, closed>> /\ client' = [client EXCEPT ![c] = "killed"]
        /\ rcvbuf' = [rcvbuf EXCEPT ![c] = <<>>] /\ reply' = [reply EXCEPT ![c] = <<>>]
    BY <1>7 DEF Kill, Ends
  <2>2. rcvbuf' \in [Clients -> Seq(Pieces)] /\ reply' \in [Clients -> Seq(Pieces)]
        /\ client'[c] = "killed"
        /\ \A y \in Clients \ {c} : rcvbuf'[y] = rcvbuf[y] /\ reply'[y] = reply[y] /\ client'[y] = client[y]
    BY <1>0, <1>1, <2>1
  <2> QED BY <1>1, <2>1, <2>2, MovesOut
<1> QED BY <1>2, <1>3, <1>4, <1>5, <1>6, <1>7 DEF Sends, Receives

\* Every step keeps the output in order.
LEMMA NextOut == ASSUME InvHeld, InvOut, [Next]_vars PROVE InvOut'
<1>1. CASE UNCHANGED vars
  <2>1. UNCHANGED <<client, printed, reply, rcvbuf, stdout, closed>>
    BY <1>1 DEF vars, clientVars, connVars
  <2>2. \A c \in Clients : client[c] = "done" => c \in closed /\ rcvbuf[c] = <<>> /\ reply[c] = <<>>
    BY DEF InvOut
  <2> QED BY <2>1, <2>2, SameOut
<1> QED BY <1>1, DaemonOut, ClientOut DEF Next

\* Nothing is printed at the start.
LEMMA InitOut == Init => InvOut
<1> SUFFICES ASSUME Init PROVE InvOut
  OBVIOUS
<1>1. /\ printed = [c \in Clients |-> <<>>] /\ reply = [c \in Clients |-> <<>>]
      /\ rcvbuf = [c \in Clients |-> <<>>] /\ stdout = [c \in Clients |-> <<>>]
      /\ client = [c \in Clients |-> "off"]
  BY DEF Init
<1>2. <<>> \in Seq(Pieces) /\ <<>> \o <<>> = <<>>
  OBVIOUS
<1>3. \A c \in Clients : Whole(c) = <<>>
  BY <1>1, <1>2 DEF Whole
<1> QED BY <1>1, <1>2, <1>3, OwnEmpty DEF InvOut

\* The lines and errors that a client prints are those of its own script, in
\* this order, and all of them once the daemon has closed the connection,
\* whatever the buffers of the daemon hold back of other scripts, and however
\* the other clients, kills, crashes and restarts come between.
THEOREM OutputAlwaysOwn == Spec => []OutputIsOwn
<1>1. Init => InvFits /\ InvFiles /\ InvConn /\ InvOut
  <2>1. Init => InvFits
    BY FreshFits DEF Init, InvFits
  <2>2. Init => InvFiles
    BY DEF Init, InvFiles, InvLabels, InvAlone, InvMade, Alive, Labels, Settled, Serving
  <2> QED BY <2>1, <2>2, InitHeld, InitOut
<1>2. (InvFits /\ InvFiles /\ InvConn /\ InvOut) /\ [Next]_vars
      => (InvFits /\ InvFiles /\ InvConn /\ InvOut)'
  BY NextFits, NextFiles, NextHeld, NextOut DEF InvHeld, InvFiles
<1>3. InvOut => OutputIsOwn
  <2> SUFFICES ASSUME InvOut, NEW c \in Clients
               PROVE  /\ client[c] # "killed" => Own(stdout[c] \o rcvbuf[c] \o reply[c]) = Own(printed[c])
                      /\ client[c] = "done" => Own(stdout[c]) = Own(printed[c])
    BY DEF OutputIsOwn
  <2>1. client[c] # "killed" => Own(stdout[c] \o rcvbuf[c] \o reply[c]) = Own(printed[c])
    BY DEF InvOut, Whole
  <2>2. client[c] = "done" => stdout[c] \o rcvbuf[c] \o reply[c] = stdout[c]
    BY DEF InvOut
  <2> QED BY <2>1, <2>2
<1> QED BY <1>1, <1>2, <1>3, PTL DEF Spec
=============================================================================

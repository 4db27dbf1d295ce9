------------------------------- MODULE Lsctld -------------------------------
(***************************************************************************)
(* The daemon lsctld (daemon/lsctld.c), its start, stop and crash, and the *)
(* clients lsctlc (lsctlc/main.c) that send it scripts over a unix socket. *)
(* The daemon serves one client at a time: it reads the script up to the   *)
(* end of the client's input, evaluates it with the descriptors 1 and 2    *)
(* pointing to the client, and closes the connection.                      *)
(*                                                                         *)
(* Abstractions.  A script is a number of bytes and the pieces of output   *)
(* it prints; module Lsctl has what a script does.  A piece knows the      *)
(* client whose script printed it, which no part of the code looks at.     *)
(* "puts" is a line that a script prints and "print" output that does not  *)
(* end a line (puts -nonewline): both go through the channel stdout of     *)
(* Tcl, which holds output until a line ends or its buffer is full.        *)
(* "show" is output of the command show, which goes through the buffer of  *)
(* the C library.  The daemon flushes neither when a script ends, and both *)
(* outlive a connection.  The mode -f, SIGHUP and the log are left out.    *)
(***************************************************************************)
EXTENDS Naturals, Sequences

CONSTANTS
  Daemons,        \* processes that somebody starts, in this order
  Clients,        \* processes lsctlc
  Cmdline,        \* the clients that have their script on the command line
  Size,           \* bytes of a client's script
  Output,         \* the pieces its script prints
  BUF_SIZE,       \* bytes the daemon reads at a time
  CMD_SIZE,       \* bytes of its script buffer at the start
  BUFSIZE,        \* bytes of the buffers of a client
  SockCap,        \* bytes or pieces that a socket holds
  ChanCap,        \* pieces that the channel stdout of Tcl holds
  StdioCap,       \* pieces that the C library holds
  NULL

ASSUME LsctldAssumption ==
  /\ Daemons \subseteq Nat /\ Cmdline \subseteq Clients
  /\ Size \in [Clients -> Nat]
  /\ Output \in [Clients -> Seq({"puts", "print", "show"})]
  /\ {BUF_SIZE, CMD_SIZE, BUFSIZE, SockCap, ChanCap, StdioCap} \subseteq Nat \ {0}
  /\ BUF_SIZE <= CMD_SIZE /\ ChanCap <= SockCap /\ StdioCap <= SockCap
  /\ NULL \notin Daemons \cup Clients /\ "/dev/null" \notin Clients

VARIABLES
  pc,         \* where each daemon is
  proc,       \* by daemon, its memory and descriptors, see Fresh
  pidfile,    \* the daemon whose number is in the PID file, or NULL
  sockfile,   \* the daemon whose socket the path leads to, or NULL
  sigterm,    \* daemons with a SIGTERM, SIGINT or SIGQUIT to handle
  printed,    \* by client, what its script printed so far (history)
  client,     \* by client, "off", "open", "done", "lost" or "killed"
  input,      \* bytes that the client has still to read from its input
  sendbuf,    \* bytes in its sendbuf
  sent,       \* bytes that are on their way to the daemon
  shut,       \* the clients that ended their side of the connection
  reply,      \* pieces that are on their way to the client
  closed,     \* the clients whose connection the daemon has closed
  rcvbuf,     \* pieces in the client's rcvbuf
  stdout      \* what the client has printed

daemonVars == <<pc, proc, sigterm>>
fileVars   == <<pidfile, sockfile>>
clientVars == <<client, input, sendbuf, rcvbuf, stdout>>
connVars   == <<sent, shut, reply, closed>>
vars == <<daemonVars, fileVars, printed, clientVars, connVars>>

Fds == 1..3

\* A process that has served nobody: the clients that wait to be accepted, the
\* descriptors 1, 2 and the next free one (NULL is free), the descriptor of
\* the connection that is served, the bytes of the script that were read, the
\* size of the script buffer, what the script has still to print, and what
\* waits in the channel of Tcl and in the C library.
Fresh ==
  [backlog |-> <<>>, fd |-> [i \in Fds |-> IF i = 3 THEN NULL ELSE "/dev/null"],
   fdc |-> 0, pos |-> 0, cmd_size |-> CMD_SIZE, todo |-> <<>>, chan |-> <<>>, stdio |-> <<>>]

Init ==
  /\ pc = [d \in Daemons |-> "off"]
  /\ proc = [d \in Daemons |-> Fresh]
  /\ pidfile = NULL /\ sockfile = NULL
  /\ sigterm = {}
  /\ printed = [c \in Clients |-> <<>>]
  /\ client = [c \in Clients |-> "off"]
  /\ input = [c \in Clients |-> IF c \in Cmdline THEN 0 ELSE Size[c]]
  /\ sendbuf = [c \in Clients |-> IF c \in Cmdline THEN Size[c] ELSE 0]
  /\ sent = [c \in Clients |-> 0]
  /\ shut = {}
  /\ reply = [c \in Clients |-> <<>>]
  /\ closed = {}
  /\ rcvbuf = [c \in Clients |-> <<>>]
  /\ stdout = [c \in Clients |-> <<>>]

-----------------------------------------------------------------------------
(***************************************************************************)
(* Start and stop.  Whoever starts daemons waits until the one before has  *)
(* come up or is gone; that a daemon is running already is for lsctld to   *)
(* find out.  libdaemon finds a PID file stale when its process is gone.   *)
(***************************************************************************)
Serving  == {"idle", "read", "eval", "close"}
Alive(d) == pc[d] \notin {"off", "dead"}

GoTo(d, label) == pc' = [pc EXCEPT ![d] = label]

Goes(d, label) == GoTo(d, label) /\ UNCHANGED proc

\* The process ends, its memory and descriptors with it.
Dies(d) == GoTo(d, "dead") /\ proc' = [proc EXCEPT ![d] = Fresh]

Start(d) ==
  /\ pc[d] = "off"
  /\ \A e \in Daemons : pc[e] \in {"off", "dead"} \cup Serving
  /\ \A e \in Daemons : e < d => pc[e] # "off"
  /\ IF pidfile # NULL /\ pc[pidfile] # "dead"
     THEN Dies(d) /\ UNCHANGED pidfile
     ELSE Goes(d, "checked") /\ pidfile' = NULL
  /\ UNCHANGED <<sockfile, sigterm, printed, clientVars, connVars>>

\* Mutant: a socket that is there already is left alone.
GetUnixSocketKeeps(d) ==
  /\ pc[d] = "checked"
  /\ \/ sockfile' = (IF sockfile = NULL THEN d ELSE sockfile) /\ Goes(d, "bound")
     \/ sockfile' = sockfile /\ Dies(d)
  /\ UNCHANGED <<pidfile, sigterm, printed, clientVars, connVars>>

\* get_unix_socket: unlink, then bind and listen, each of which may fail.
GetUnixSocket(d) ==
  /\ pc[d] = "checked"
  /\ \/ sockfile' = d /\ Goes(d, "bound")
     \/ sockfile' \in {d, NULL} /\ Dies(d)
  /\ UNCHANGED <<pidfile, sigterm, printed, clientVars, connVars>>

\* daemon_fork, chdir and daemon_pid_file_create.  Without a fork or in the
\* wrong directory nothing is cleaned up.
Daemonize(d) ==
  /\ pc[d] = "bound"
  /\ \/ Dies(d) /\ UNCHANGED pidfile
     \/ pidfile = NULL /\ pidfile' = d /\ Goes(d, "init")
     \/ Goes(d, "exit") /\ UNCHANGED pidfile
  /\ UNCHANGED <<sockfile, sigterm, printed, clientVars, connVars>>

\* Signals, interpreter, lsctl commands and the script buffer are set up.
Initialize(d) ==
  /\ pc[d] = "init"
  /\ Goes(d, "idle") \/ Goes(d, "exit")
  /\ UNCHANGED <<fileVars, sigterm, printed, clientVars, connVars>>

\* exit_wrapper: first the PID file goes, then the socket, then the process.
ExitWrapper(d) ==
  /\ pc[d] = "exit"
  /\ pidfile' = NULL /\ Goes(d, "finalize")
  /\ UNCHANGED <<sockfile, sigterm, printed, clientVars, connVars>>

Finalize(d) ==
  /\ pc[d] = "finalize"
  /\ sockfile' = NULL /\ Dies(d)
  /\ UNCHANGED <<pidfile, sigterm, printed, clientVars, connVars>>

\* Somebody sends SIGTERM, SIGINT or SIGQUIT.
Terminate(d) ==
  /\ pc[d] \in Serving
  /\ sigterm' = sigterm \cup {d}
  /\ UNCHANGED <<pc, proc, fileVars, printed, clientVars, connVars>>

\* Somebody sends SIGKILL, or the process fails.
Crash(d) ==
  /\ Alive(d)
  /\ Dies(d)
  /\ UNCHANGED <<fileVars, sigterm, printed, clientVars, connVars>>

-----------------------------------------------------------------------------
(***************************************************************************)
(* The loop of the daemon.                                                 *)
(***************************************************************************)

\* A signal goes before a client.
Dispatch(d) ==
  /\ pc[d] = "idle" /\ d \in sigterm
  /\ sigterm' = sigterm \ {d} /\ Goes(d, "exit")
  /\ UNCHANGED <<fileVars, printed, clientVars, connVars>>

\* accept takes the lowest free descriptor, which is 1 once a client has been
\* served; dup2 does nothing when it is asked to copy 1 to 1.
Lowest(free) == CHOOSE i \in free : \A j \in free : i <= j

Accept(d) ==
  LET p == proc[d]
      c == Head(p.backlog)
      f == Lowest({i \in Fds : p.fd[i] = NULL})
  IN
  /\ pc[d] = "idle" /\ d \notin sigterm /\ p.backlog # <<>>
  /\ proc' = [proc EXCEPT ![d] =
       [p EXCEPT !.backlog = Tail(p.backlog), !.fdc = f, !.pos = 0,
                 !.fd = [i \in Fds |-> IF i \in {f, 1, 2} THEN c ELSE p.fd[i]]]]
  /\ GoTo(d, "read")
  /\ UNCHANGED <<fileVars, sigterm, printed, clientVars, connVars>>

Client(d) == proc[d].fd[proc[d].fdc]

\* Mutant: no room for the zero at the end.
GrownTight(p, n) == IF p.pos + n > p.cmd_size THEN 2 * p.cmd_size ELSE p.cmd_size

Grown(p, n) == IF p.pos + n >= p.cmd_size THEN 2 * p.cmd_size ELSE p.cmd_size

\* read and append; the realloc may fail.  (A read that fails is taken for one
\* of SIZE_MAX bytes, and the strncpy of that many ends the process: Crash.)
Read(d) ==
  \E n \in 1..BUF_SIZE :
    LET c == Client(d)
        p == proc[d]
    IN
    /\ pc[d] = "read"
    /\ n <= sent[c] /\ (n = BUF_SIZE \/ n = sent[c])
    /\ sent' = [sent EXCEPT ![c] = @ - n]
    /\ \/ /\ proc' = [proc EXCEPT ![d] =
                        [p EXCEPT !.pos = p.pos + n, !.cmd_size = Grown(p, n)]]
          /\ UNCHANGED pc
       \/ Grown(p, n) # p.cmd_size /\ Goes(d, "exit")
    /\ UNCHANGED <<fileVars, sigterm, printed, clientVars, shut, reply, closed>>

\* The end of the input: the client ended it, or is gone.
ReadEnd(d) ==
  LET c == Client(d) IN
  /\ pc[d] = "read" /\ sent[c] = 0
  /\ c \in shut \/ client[c] # "open"
  /\ proc' = [proc EXCEPT ![d].todo = Output[c]]
  /\ GoTo(d, "eval")
  /\ UNCHANGED <<fileVars, sigterm, printed, clientVars, connVars>>

Piece(c, kind) == [of |-> c, kind |-> kind]

\* The daemon writes pieces to descriptor i, and is p afterwards.  It waits
\* while the socket is full.  When the client is gone the write fails, and the
\* pieces are lost: Tcl_FindExecutable makes the process ignore SIGPIPE.
Write(d, i, pieces, p, next) ==
  LET c == proc[d].fd[i] IN
  /\ \/ client[c] = "killed" /\ UNCHANGED reply
     \/ /\ client[c] # "killed" /\ Len(reply[c]) + Len(pieces) <= SockCap
        /\ reply' = [reply EXCEPT ![c] = @ \o pieces]
  /\ proc' = [proc EXCEPT ![d] = p]
  /\ GoTo(d, next)

Printed(c, kind) == printed' = [printed EXCEPT ![c] = Append(@, Piece(c, kind))]

Rest(d) == [proc[d] EXCEPT !.todo = Tail(@)]

\* Output that is held back: p has it, and q when it has been written.
Hold(d, held, cap, p, q) ==
  IF Len(held) < cap
  THEN proc' = [proc EXCEPT ![d] = p] /\ UNCHANGED <<pc, reply>>
  ELSE Write(d, 1, held, q, "eval")

\* The end of a line: the channel writes what it holds and the line.  (When the
\* client is gone the command fails; the script goes on if it catches that.)
EvalPuts(d) ==
  LET held == Append(proc[d].chan, Piece(Client(d), "puts")) IN
  /\ pc[d] = "eval" /\ proc[d].todo # <<>> /\ Head(proc[d].todo) = "puts"
  /\ Write(d, 1, held, [Rest(d) EXCEPT !.chan = <<>>], "eval")
  /\ Printed(Client(d), "puts")
  /\ UNCHANGED <<fileVars, sigterm, clientVars, sent, shut, closed>>

\* The channel writes when its buffer is full, for whoever is served then.
EvalPrint(d) ==
  LET held == Append(proc[d].chan, Piece(Client(d), "print")) IN
  /\ pc[d] = "eval" /\ proc[d].todo # <<>> /\ Head(proc[d].todo) = "print"
  /\ Hold(d, held, ChanCap, [Rest(d) EXCEPT !.chan = held], [Rest(d) EXCEPT !.chan = <<>>])
  /\ Printed(Client(d), "print")
  /\ UNCHANGED <<fileVars, sigterm, clientVars, sent, shut, closed>>

\* So does the C library.
EvalShow(d) ==
  LET held == Append(proc[d].stdio, Piece(Client(d), "show")) IN
  /\ pc[d] = "eval" /\ proc[d].todo # <<>> /\ Head(proc[d].todo) = "show"
  /\ Hold(d, held, StdioCap, [Rest(d) EXCEPT !.stdio = held], [Rest(d) EXCEPT !.stdio = <<>>])
  /\ Printed(Client(d), "show")
  /\ UNCHANGED <<fileVars, sigterm, clientVars, sent, shut, closed>>

\* The script ends.  One that was cut off may end anywhere.
EvalOk(d) ==
  /\ pc[d] = "eval"
  /\ proc[d].todo = <<>> \/ proc[d].pos < Size[Client(d)]
  /\ Goes(d, "close")
  /\ UNCHANGED <<fileVars, sigterm, printed, clientVars, connVars>>

\* A command fails: the error goes to stderr.
EvalError(d) ==
  /\ pc[d] = "eval"
  /\ Write(d, 2, <<Piece(Client(d), "error")>>, proc[d], "close")
  /\ Printed(Client(d), "error")
  /\ UNCHANGED <<fileVars, sigterm, clientVars, sent, shut, closed>>

\* shutdown, close(fdc), close(1), close(2)
Close(d) ==
  LET p == proc[d] IN
  /\ pc[d] = "close"
  /\ closed' = closed \cup {Client(d)}
  /\ proc' = [proc EXCEPT ![d] =
       [p EXCEPT !.fd = [i \in Fds |-> IF i \in {p.fdc, 1, 2} THEN NULL ELSE p.fd[i]],
                 !.fdc = 0, !.pos = 0, !.todo = <<>>]]
  /\ GoTo(d, "idle")
  /\ UNCHANGED <<fileVars, sigterm, printed, clientVars, sent, shut, reply>>

-----------------------------------------------------------------------------
(***************************************************************************)
(* A client: one loop that copies its input to the socket and the socket   *)
(* to its output.  The user may kill it at any time.                       *)
(***************************************************************************)
Ends(c, how) == client' = [client EXCEPT ![c] = how]

\* open_sockaddr: nobody listens, or the connection waits to be accepted.
Connect(c) ==
  /\ client[c] = "off"
  /\ IF sockfile # NULL /\ Alive(sockfile)
     THEN proc' = [proc EXCEPT ![sockfile].backlog = Append(@, c)] /\ Ends(c, "open")
     ELSE Ends(c, "lost") /\ UNCHANGED proc
  /\ UNCHANGED <<pc, sigterm, fileVars, printed, input, sendbuf, rcvbuf, stdout, connVars>>

\* The daemon that holds the other end of the connection.
Peer(c) ==
  {d \in Daemons : \/ \E i \in Fds : proc[d].fd[i] = c
                   \/ \E i \in DOMAIN proc[d].backlog : proc[d].backlog[i] = c}

Broken(c) == c \notin closed /\ Peer(c) = {}

\* buf_read from stdin, with its end
ReadStdin(c) ==
  /\ client[c] = "open" /\ sendbuf[c] = 0 /\ c \notin Cmdline \cup shut
  /\ \/ /\ input[c] = 0
        /\ shut' = shut \cup {c}
        /\ UNCHANGED <<sendbuf, input>>
     \/ \E n \in 1..BUFSIZE :
          /\ n <= input[c]
          /\ sendbuf' = [sendbuf EXCEPT ![c] = n]
          /\ input' = [input EXCEPT ![c] = @ - n]
          /\ UNCHANGED shut
  /\ UNCHANGED <<daemonVars, fileVars, printed, client, rcvbuf, stdout,
                 sent, reply, closed>>

\* Mutant: the script from the command line has no end.
WriteSockNoEnd(c) ==
  /\ client[c] = "open" /\ sendbuf[c] > 0 /\ ~Broken(c)
  /\ \E n \in 1..SockCap :
       /\ n <= sendbuf[c] /\ sent[c] + n <= SockCap
       /\ sendbuf' = [sendbuf EXCEPT ![c] = @ - n]
       /\ sent' = [sent EXCEPT ![c] = @ + n]
       /\ UNCHANGED shut
  /\ UNCHANGED <<daemonVars, fileVars, printed, client, input, rcvbuf, stdout,
                 reply, closed>>

\* buf_write to the socket; a script from the command line ends here.
WriteSock(c) ==
  /\ client[c] = "open" /\ sendbuf[c] > 0 /\ ~Broken(c)
  /\ \E n \in 1..SockCap :
       /\ n <= sendbuf[c] /\ sent[c] + n <= SockCap
       /\ sendbuf' = [sendbuf EXCEPT ![c] = @ - n]
       /\ sent' = [sent EXCEPT ![c] = @ + n]
       /\ shut' = IF c \in Cmdline /\ n = sendbuf[c] THEN shut \cup {c} ELSE shut
  /\ UNCHANGED <<daemonVars, fileVars, printed, client, input, rcvbuf, stdout,
                 reply, closed>>

\* buf_read from the socket
ReadSock(c) ==
  /\ client[c] = "open" /\ rcvbuf[c] = <<>> /\ reply[c] # <<>>
  /\ rcvbuf' = [rcvbuf EXCEPT ![c] = reply[c]]
  /\ reply' = [reply EXCEPT ![c] = <<>>]
  /\ UNCHANGED <<daemonVars, fileVars, printed, client, input, sendbuf, stdout,
                 sent, shut, closed>>

\* Mutant: what a short write left over is forgotten.
WriteStdoutOnce(c) ==
  /\ client[c] = "open"
  /\ \E n \in 1..Len(rcvbuf[c]) :
       /\ stdout' = [stdout EXCEPT ![c] = @ \o SubSeq(rcvbuf[c], 1, n)]
       /\ rcvbuf' = [rcvbuf EXCEPT ![c] = <<>>]
  /\ UNCHANGED <<daemonVars, fileVars, printed, client, input, sendbuf, connVars>>

\* buf_write to stdout, which may take a part only
WriteStdout(c) ==
  /\ client[c] = "open"
  /\ \E n \in 1..Len(rcvbuf[c]) :
       /\ stdout' = [stdout EXCEPT ![c] = @ \o SubSeq(rcvbuf[c], 1, n)]
       /\ rcvbuf' = [rcvbuf EXCEPT ![c] = SubSeq(@, n + 1, Len(@))]
  /\ UNCHANGED <<daemonVars, fileVars, printed, client, input, sendbuf, connVars>>

\* The end of the connection: by the daemon, or because the daemon is gone.
ReadSockEnd(c) ==
  /\ client[c] = "open" /\ rcvbuf[c] = <<>> /\ reply[c] = <<>>
  /\ c \in closed \/ Broken(c)
  /\ Ends(c, IF c \in closed THEN "done" ELSE "lost")
  /\ UNCHANGED <<daemonVars, fileVars, printed, input, sendbuf, rcvbuf, stdout,
                 connVars>>

\* A write to a broken connection ends the client.
WriteSockBroken(c) ==
  /\ client[c] = "open" /\ sendbuf[c] > 0 /\ Broken(c)
  /\ Ends(c, "lost")
  /\ UNCHANGED <<daemonVars, fileVars, printed, input, sendbuf, rcvbuf, stdout,
                 connVars>>

\* What the client did not read is lost, what it wrote is not.
Kill(c) ==
  /\ client[c] = "open"
  /\ Ends(c, "killed")
  /\ input' = [input EXCEPT ![c] = 0] /\ sendbuf' = [sendbuf EXCEPT ![c] = 0]
  /\ rcvbuf' = [rcvbuf EXCEPT ![c] = <<>>] /\ reply' = [reply EXCEPT ![c] = <<>>]
  /\ UNCHANGED <<daemonVars, fileVars, printed, stdout, sent, shut, closed>>

-----------------------------------------------------------------------------
DaemonStep(d) ==
  \/ GetUnixSocket(d) \/ Daemonize(d) \/ Initialize(d)
  \/ ExitWrapper(d) \/ Finalize(d)
  \/ Dispatch(d) \/ Accept(d) \/ Read(d) \/ ReadEnd(d)
  \/ EvalPuts(d) \/ EvalPrint(d) \/ EvalShow(d) \/ EvalOk(d) \/ EvalError(d) \/ Close(d)

Sends(c)    == WriteSock(c) \/ WriteSockBroken(c)
Receives(c) == ReadSock(c) \/ WriteStdout(c) \/ ReadSockEnd(c)

Next ==
  \/ \E d \in Daemons : Start(d) \/ Terminate(d) \/ Crash(d) \/ DaemonStep(d)
  \/ \E c \in Clients : Connect(c) \/ ReadStdin(c) \/ Sends(c) \/ Receives(c) \/ Kill(c)

Spec == Init /\ [][Next]_vars

\* A process that can go on does so.  Nobody has to start a process, and the
\* input of a client need not come.
FairSpec ==
  /\ Spec
  /\ \A d \in Daemons : WF_vars(DaemonStep(d))
  /\ \A c \in Clients : WF_vars(Sends(c)) /\ WF_vars(Receives(c))

-----------------------------------------------------------------------------
\* The script, with the zero that ends it, is within the script buffer, however
\* the input is cut into pieces and however much of it comes.
ScriptFits == \A d \in Daemons : proc[d].pos < proc[d].cmd_size

\* The lines and errors among pieces.
Own(pieces) ==
  LET kept[n \in 0..Len(pieces)] ==
        IF n = 0 THEN <<>>
        ELSE IF pieces[n].kind \in {"show", "print"} THEN kept[n - 1]
        ELSE Append(kept[n - 1], pieces[n])
  IN kept[Len(pieces)]

\* The lines and errors that a client prints are those of its own script, in
\* this order, and all of them once the daemon has closed the connection: no
\* line is lost and none goes to another client, whatever the daemon holds
\* back.  It is not true of the output of show and of puts -nonewline, which
\* lsctld.c does not flush at the end of a script, though docs/internals.rst:424
\* says that stdout is sent back.
OutputIsOwn ==
  \A c \in Clients :
    /\ client[c] # "killed" => Own(stdout[c] \o rcvbuf[c] \o reply[c]) = Own(printed[c])
    /\ client[c] = "done" => Own(stdout[c]) = Own(printed[c])

\* A daemon that came up is the one that the PID file names and that clients
\* reach, whatever files a crashed or failed one left behind.
UpIsReachable ==
  \A d \in Daemons : pc[d] \in Serving => pidfile = d /\ sockfile = d

\* Every client that has connected comes to an end, unless some client keeps
\* its input open for ever.
InputOpen(c) == client[c] = "open" /\ c \notin shut /\ c \notin Cmdline

EveryClientEnds ==
  (\A c \in Clients : []<>~InputOpen(c)) =>
    \A c \in Clients : client[c] = "open" ~> client[c] # "open"
=============================================================================

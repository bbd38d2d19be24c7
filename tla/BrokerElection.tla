--------------------------- MODULE BrokerElection ---------------------------
(***************************************************************************)
(* Which process is the broker (listen.go): any run may start one, and the *)
(* bind of one socket file decides.  A socket whose broker died is removed *)
(* and bound again.  Beside it lies the handshake a client must repeat,    *)
(* written by the broker before it greets anyone and removed when it is    *)
(* gone (server.go's Serve).                                               *)
(***************************************************************************)
CONSTANTS
  Proc,      \* the processes that start as a broker
  Client,    \* the clients that dial one
  NoProc,
  MayGo,     \* a process may be killed, and a broker exit: idle, stopped or drained
  Overlap    \* a process may start while another is still starting

BrokerElectionAssumption ==
  /\ NoProc \notin Proc
  /\ {MayGo, Overlap} \subseteq BOOLEAN

VARIABLES
  pc,     \* of each process
  path,   \* whose socket the file is, NoProc for no file
  file,   \* whose handshake is written, NoProc for none
  at,     \* the stage of each client
  to      \* and the process it dialed

vars == <<pc, path, file, at, to>>

\* There is no socket, or the one a broker long dead has left behind.
Init ==
  /\ path \in Proc \cup {NoProc} /\ file = path
  /\ pc = [p \in Proc |-> IF p = path THEN "stale" ELSE "out"]
  /\ at = [c \in Client |-> "idle"]
  /\ to = [c \in Client |-> NoProc]

Listens(p) == pc[p] \in {"listening", "serving"}
Starting(p) == pc[p] \in {"probing", "removing", "binding", "bound", "listening"}
To(p, stage) == pc' = [pc EXCEPT ![p] = stage]

\* Mutant of Bind: a socket that is there is taken for a live broker's.
BindOnce(p) ==
  /\ pc[p] = "out"
  /\ Overlap \/ \A q \in Proc : ~Starting(q)
  /\ IF path = NoProc THEN path' = p /\ To(p, "bound")
                      ELSE UNCHANGED path /\ To(p, "loser")
  /\ UNCHANGED <<file, at, to>>

\* bind(2), where no file is: it makes the file, which refuses dials as yet.
Bind(p) ==
  /\ pc[p] = "out"
  /\ Overlap \/ \A q \in Proc : ~Starting(q)
  /\ IF path = NoProc THEN path' = p /\ To(p, "bound")
                      ELSE UNCHANGED path /\ To(p, "probing")
  /\ UNCHANGED <<file, at, to>>

\* listen(2).
Listen(p) ==
  /\ pc[p] = "bound"
  /\ To(p, "listening")
  /\ UNCHANGED <<path, file, at, to>>

\* Dial the broker whose file it is, for 100 ms: one that is slow to accept is missed.
Probe(p) ==
  /\ pc[p] = "probing"
  /\ \/ path # NoProc /\ Listens(path) /\ To(p, "loser")
     \/ To(p, "removing")
  /\ UNCHANGED <<path, file, at, to>>

\* Remove whatever socket is there by now.
Remove(p) ==
  /\ pc[p] = "removing"
  /\ path' = NoProc
  /\ To(p, "binding")
  /\ UNCHANGED <<file, at, to>>

Rebind(p) ==
  /\ pc[p] = "binding"
  /\ IF path = NoProc THEN path' = p /\ To(p, "bound")
                      ELSE UNCHANGED path /\ To(p, "loser")
  /\ UNCHANGED <<file, at, to>>

\* Write the handshake, and serve.
Serve(p) ==
  /\ pc[p] = "listening"
  /\ file' = p
  /\ To(p, "serving")
  /\ UNCHANGED <<path, at, to>>

\* The listener closes and unlinks its name, then the connections wind up.
CloseListener(p) ==
  /\ MayGo /\ pc[p] = "serving"
  /\ path' = NoProc
  /\ To(p, "closing")
  /\ UNCHANGED <<file, at, to>>

\* The handshake is removed last.
Exit(p) ==
  /\ pc[p] = "closing"
  /\ file' = NoProc
  /\ To(p, "over")
  /\ UNCHANGED <<path, at, to>>

Die(p) ==
  /\ MayGo
  /\ Starting(p) \/ pc[p] \in {"serving", "closing"}
  /\ To(p, "dead")
  /\ UNCHANGED <<path, file, at, to>>

Goes(c, stage) == at' = [at EXCEPT ![c] = stage] /\ UNCHANGED <<pc, path, file>>

Dial(c) ==
  /\ at[c] = "idle"
  /\ path # NoProc /\ Listens(path)
  /\ to' = [to EXCEPT ![c] = path]
  /\ Goes(c, "dialed")

\* The broker's first frame.
Greet(c) ==
  /\ at[c] = "dialed" /\ pc[to[c]] = "serving"
  /\ Goes(c, "greeted") /\ UNCHANGED to

\* The client reads the file and says hello with what it holds.
Hello(c) ==
  /\ at[c] = "greeted" /\ pc[to[c]] = "serving"
  /\ Goes(c, IF file = to[c] THEN "admitted" ELSE "refused") /\ UNCHANGED to

\* Its broker is gone; the next request dials again.
HangUp(c) ==
  /\ at[c] \in {"dialed", "greeted", "admitted"} /\ ~Listens(to[c])
  /\ Goes(c, "idle")
  /\ to' = [to EXCEPT ![c] = NoProc]

ProcNext(p) ==
  \/ Bind(p) \/ Listen(p) \/ Probe(p) \/ Remove(p) \/ Rebind(p) \/ Serve(p)
  \/ CloseListener(p) \/ Exit(p) \/ Die(p)
ClientNext(c) == Dial(c) \/ Greet(c) \/ Hello(c) \/ HangUp(c)

Next == (\E p \in Proc : ProcNext(p)) \/ (\E c \in Client : ClientNext(c))

Spec == Init /\ [][Next]_vars

-----------------------------------------------------------------------------
Settled == \A p \in Proc : pc[p] \in {"out", "stale", "loser", "serving"}

\* "the loser exits quietly" (listen.go:44), but never the last of them: when the
\* processes that raced to start a broker are done, killed or gone is none of them, and
\* any did start, the socket leads to one that serves, whichever removed whose.
RaceIsWon ==
  Settled /\ (\E p \in Proc : pc[p] \in {"loser", "serving"})
    => path # NoProc /\ pc[path] = "serving"

\* "The bind is the only lock a broker takes" (listen.go:60): a process that listens
\* is the one the socket file leads to, and so the only one.  (It is not, in ElectionRace.cfg.)
BindIsTheLock == \A p \in Proc : Listens(p) => path = p

\* "Once it arrives the broker's handshake file exists and holds the value this
\* connection's hello must carry" (conn.go:44).
HandshakeHolds ==
  \A c \in Client : at[c] = "greeted" /\ Listens(to[c]) => file = to[c]
=============================================================================

--------------------------- MODULE BrokerClientMC ---------------------------
(***************************************************************************)
(* A client beside its broker's death, and the election of the next broker:*)
(* the two sides of client.go's redial, each in scenes of its own.  The    *)
(* scene is chosen at the start, and the other side stays where it begins. *)
(***************************************************************************)
EXTENDS BrokerClient

CONSTANTS Proc, Dialer, NoProc

VARIABLES scene, ppc, path, file, at, to

election == <<ppc, path, file, at, to>>

\* Any process starts when it likes, dies when it likes, and a broker may exit.
Election == INSTANCE BrokerElection WITH
  Client <- Dialer, pc <- ppc, MayGo <- TRUE, Overlap <- TRUE

ASSUME ElectionAssumption == Election!BrokerElectionAssumption

AllInit ==
  /\ Init /\ Election!Init
  /\ scene = "election" \/ (scene = "client" /\ path = NoProc)

ClientNext == scene = "client" /\ Next /\ UNCHANGED <<election, scene>>

AllNext ==
  \/ ClientNext
  \/ scene = "election" /\ Election!Next /\ UNCHANGED <<vars, scene>>

AllSpec ==
  /\ AllInit /\ [][AllNext]_<<vars, election, scene>>
  /\ WF_vars(scene = "client" /\ Progress /\ UNCHANGED <<election, scene>>)

\* Of the processes that race to start a broker (listen.go:62) the last never loses:
\* unless one is killed or gone, they leave a socket that leads to one that serves.
RaceIsWon == Election!RaceIsWon
=============================================================================

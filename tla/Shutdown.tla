------------------------------ MODULE Shutdown ------------------------------
(***************************************************************************)
(* The end of the simulation.  The broker and every spectator ask each     *)
(* server to stop, one server after the other; a server counts these       *)
(* requests and stops when the count is right.  The horses take no part:   *)
(* one that is late still has to report to the stable, whose agent reports *)
(* to the log.                                                             *)
(*                                                                         *)
(* In this phase a client calls a server at most once, so a call is named  *)
(* by who makes it and the server it is made to.  The call of a horse to   *)
(* the log is the one the stable's agent makes for it.                     *)
(***************************************************************************)
EXTENDS SimulationConfigurations, Sequences

CONSTANTS
  ShutdownOrder,  \* the servers, in the order in which they are asked to stop
  LateHorses      \* the horses that have not reported to the stable yet

Servers == {ShutdownOrder[i] : i \in 1 .. Len(ShutdownOrder)}
Askers == {Broker} \cup Spectators

ASSUME ShutdownAssumption ==
  /\ ShutdownOrder \in Seq(STRING)
  /\ {"general-repo", "stable"} \subseteq Servers
  /\ \A i, j \in 1 .. Len(ShutdownOrder) :
       ShutdownOrder[i] = ShutdownOrder[j] => i = j
  /\ Servers \cap {"broker", "spectators", "horses"} = {}
  /\ LateHorses \subseteq HorseJockeys

Requests == Askers \X Servers
Reports == LateHorses \X {"stable"}
Logs == LateHorses \X {"general-repo"}
Calls == Requests \cup Reports \cup Logs

(* The processes: three of clients, one per server.                        *)
Process(client) ==
  IF client = Broker THEN "broker"
  ELSE IF client \in Spectators THEN "spectators" ELSE "horses"
Processes == {"broker", "spectators", "horses"} \cup Servers

(* The process that makes a call.                                          *)
Caller(call) == IF call \in Logs THEN "stable" ELSE Process(call[1])

VARIABLES
  stage,          \* call -> how far it has come
  shutdownArray,  \* server -> the requests to stop it has counted
  loaded,         \* request -> the count its agent has read
  launcher,       \* server -> what its main thread does
  exited          \* the processes that have ended by System.exit(1)

vars == <<stage, shutdownArray, loaded, launcher, exited>>

(* A call waits for its connection to be accepted, then an agent serves    *)
(* it: a report needs the lock of the stable, a request to stop is counted *)
(* in two steps.                                                           *)
Stages == {"unsent", "queued", "accepted", "in the stable", "counting",
           "counted", "answered"}
Served == {"accepted", "in the stable", "counting", "counted"}
Counted == {"counted", "answered"}

Init ==
  /\ stage = [c \in Calls |-> "unsent"]
  /\ shutdownArray = [v \in Servers |-> 0]
  /\ loaded = [c \in Requests |-> 0]
  /\ launcher = [v \in Servers |-> "accepting"]
  /\ exited = {}

CallsTo(v) == {c \in Calls : c[2] = v}

(* Mutant: a server ends with its main thread, whatever its agents do.     *)
DownAtOnce(v) == v \in exited \/ launcher[v] = "stopped"

(* The process of a server has ended: by System.exit(1), or because its    *)
(* main thread and all its agents have.  Until then the socket is bound:   *)
(* connections are queued, though nobody may accept them any more.         *)
Down(v) ==
  \/ v \in exited
  \/ launcher[v] = "stopped" /\ \A c \in CallsTo(v) : stage[c] \notin Served

Ended(process) ==
  IF process \in Servers THEN Down(process) ELSE process \in exited

Goes(call, from, to) ==
  /\ stage[call] = from
  /\ stage' = [stage EXCEPT ![call] = to]

-----------------------------------------------------------------------------
(* Clients: Broker.shutdown, Spectator.shutdown, the end of HorseJockey's  *)
(* run, and the log call of Stable.proceedToStable().                      *)

IsNext(client, v) ==
  \E i \in 1 .. Len(ShutdownOrder) :
    /\ ShutdownOrder[i] = v
    /\ \A j \in 1 .. i - 1 : stage[<<client, ShutdownOrder[j]>>] = "answered"

(* createConnectionWithServer(): a connection that is refused is tried     *)
(* again, for ever.                                                        *)
Connect(call) ==
  /\ Caller(call) \notin exited
  /\ ~Down(call[2])
  /\ call \in Requests => IsNext(call[1], call[2])
  /\ call \in Logs => stage[<<call[1], "stable">>] = "in the stable"
  /\ Goes(call, "unsent", "queued")
  /\ UNCHANGED <<shutdownArray, loaded, launcher, exited>>

(* ClientCom, ServerCom: an open connection that breaks, because the       *)
(* process at its other end has ended, ends this one by System.exit(1).    *)
(* Nobody looks at a queued connection that will not be accepted.          *)
LoseConnection(call) ==
  \E end, other \in {Caller(call), call[2]} :
    /\ end # other
    /\ Ended(end)
    /\ ~Ended(other)
    /\ stage[call] \in {"queued"} \cup Served
    /\ stage[call] = "queued" /\ end # call[2] => launcher[call[2]] # "stopped"
    /\ exited' = exited \cup {other}
    /\ UNCHANGED <<stage, shutdownArray, loaded, launcher>>

-----------------------------------------------------------------------------
(* ServerLauncher.main: the counter is looked at after each connection and *)
(* after each timeout of accept().                                         *)

Accept(call) ==
  LET v == call[2]
  IN /\ v \notin exited
     /\ launcher[v] = "accepting"
     /\ Goes(call, "queued", "accepted")
     /\ launcher' = [launcher EXCEPT ![v] = "checking"]
     /\ UNCHANGED <<shutdownArray, loaded, exited>>

(* Mutant: accept() waits for the next connection for ever.                *)
NoTimeout(v) == FALSE /\ UNCHANGED vars

(* Mutant: the timeout of accept() ends the loop.                          *)
StopsAtTimeout(v) ==
  /\ v \notin exited
  /\ launcher[v] = "accepting"
  /\ \A c \in CallsTo(v) : stage[c] # "queued"
  /\ launcher' = [launcher EXCEPT ![v] = "stopped"]
  /\ UNCHANGED <<stage, shutdownArray, loaded, exited>>

AcceptTimesOut(v) ==
  /\ v \notin exited
  /\ launcher[v] = "accepting"
  /\ \A c \in CallsTo(v) : stage[c] # "queued"
  /\ launcher' = [launcher EXCEPT ![v] = "checking"]
  /\ UNCHANGED <<stage, shutdownArray, loaded, exited>>

(* Mutant: the broker is not counted.                                      *)
AllSpectatorsHaveAsked(v) == shutdownArray[v] = NUMBER_OF_SPECTATORS

getShutdownCounter(v) == shutdownArray[v] = 1 + NUMBER_OF_SPECTATORS

Check(v) ==
  /\ v \notin exited
  /\ launcher[v] = "checking"
  /\ launcher' = [launcher EXCEPT
       ![v] = IF getShutdownCounter(v) THEN "stopped" ELSE "accepting"]
  /\ UNCHANGED <<stage, shutdownArray, loaded, exited>>

-----------------------------------------------------------------------------
(* ServiceProviderAgent.run                                                *)

(* shutdownArray[i]++ without a lock: a read, then a write.                *)
ReadCounter(call) ==
  /\ call[2] \notin exited
  /\ Goes(call, "accepted", "counting")
  /\ loaded' = [loaded EXCEPT ![call] = shutdownArray[call[2]]]
  /\ UNCHANGED <<shutdownArray, launcher, exited>>

(* Mutant: a request is counted again when it is answered.                 *)
CountsTwice(call) ==
  /\ call[2] \notin exited
  /\ Goes(call, "counting", "counted")
  /\ shutdownArray' = [shutdownArray EXCEPT ![call[2]] = loaded[call] + 2]
  /\ UNCHANGED <<loaded, launcher, exited>>

WriteCounter(call) ==
  /\ call[2] \notin exited
  /\ Goes(call, "counting", "counted")
  /\ shutdownArray' = [shutdownArray EXCEPT ![call[2]] = loaded[call] + 1]
  /\ UNCHANGED <<loaded, launcher, exited>>

(* Stable.proceedToStable() holds the lock while it waits for the log; the *)
(* broker has summoned the last race, so that it does not wait there.      *)
EnterStable(call) ==
  /\ "stable" \notin exited
  /\ \A c \in Reports : stage[c] # "in the stable"
  /\ Goes(call, "accepted", "in the stable")
  /\ UNCHANGED <<shutdownArray, loaded, launcher, exited>>

(* The answer: at the end of the count, of the report, of the log entry.   *)
Answer(call) ==
  /\ call[2] \notin exited
  /\ \/ call \in Requests /\ Goes(call, "counted", "answered")
     \/ /\ call \in Reports
        /\ stage[<<call[1], "general-repo">>] = "answered"
        /\ Goes(call, "in the stable", "answered")
     \/ call \in Logs /\ Goes(call, "accepted", "answered")
  /\ UNCHANGED <<shutdownArray, loaded, launcher, exited>>

-----------------------------------------------------------------------------

LauncherNext(v) ==
  \/ \E c \in CallsTo(v) : Accept(c)
  \/ AcceptTimesOut(v)
  \/ Check(v)

AgentNext(call) ==
  \/ call \in Requests /\ (ReadCounter(call) \/ WriteCounter(call))
  \/ call \in Reports /\ EnterStable(call)
  \/ Answer(call)

Next ==
  \/ \E c \in Calls : Connect(c) \/ AgentNext(c) \/ LoseConnection(c)
  \/ \E v \in Servers : LauncherNext(v)

(* Every thread that can run does so in the end, and accept() has a        *)
(* timeout.  A client or an agent takes finitely many steps, so that       *)
(* fairness to all of them together is fairness to each; a main thread     *)
(* takes any number.  That a broken connection is noticed is not assumed.  *)
Fairness ==
  /\ WF_vars(\E c \in Calls : Connect(c) \/ AgentNext(c))
  /\ \A v \in Servers : WF_vars(LauncherNext(v))

Spec == Init /\ [][Next]_vars /\ Fairness

-----------------------------------------------------------------------------

TypeOK ==
  /\ stage \in [Calls -> Stages]
  /\ shutdownArray \in [Servers -> 0 .. 1 + NUMBER_OF_SPECTATORS]
  /\ loaded \in [Requests -> 0 .. NUMBER_OF_SPECTATORS]
  /\ launcher \in [Servers -> {"accepting", "checking", "stopped"}]
  /\ exited \subseteq Processes

(* However the counts overlap, a server never stops before the broker and  *)
(* every spectator have asked it to.                                       *)
StopsAfterTheLastRequest ==
  \A v \in Servers : launcher[v] = "stopped" =>
    \A a \in Askers : stage[<<a, v>>] \in Counted

(* No process is cut off from another one, unless a late horse is.         *)
OnlyLateHorsesAreCutOff ==
  exited # {} => \E c \in Reports : stage[c] # "answered"

(* A server whose count is complete stops, although its main thread waits  *)
(* for connections and none may come any more.                             *)
StopsOnceCounted ==
  \A v \in Servers :
    getShutdownCounter(v) ~> launcher[v] = "stopped" \/ v \in exited

(* The broker and every spectator get all the servers' answers, whatever   *)
(* is lost of the counts: nobody waits for a server that has stopped.      *)
AskersAreAnswered ==
  <>(exited # {} \/ \A c \in Requests : stage[c] = "answered")

-----------------------------------------------------------------------------
(* What a comment in the code says.                                        *)

(* ServiceProviderAgent.getShutdownCounter: "Counts the times the entities *)
(* asked to get the hippodrome regions down".                              *)
CountsTheRequests ==
  \A v \in Servers :
    shutdownArray[v] = Cardinality({a \in Askers : stage[<<a, v>>] \in Counted})
=============================================================================

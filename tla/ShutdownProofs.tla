---------------------------- MODULE ShutdownProofs ----------------------------
(* A server stops neither too early nor with a count out of range, however  *)
(* its agents interleave: the counter may lose requests, but it is never    *)
(* ahead of the agents that have finished counting.                         *)
EXTENDS Shutdown, ConfigurationProofs

CountedAt(v) == {a \in Askers : stage[<<a, v>>] \in Counted}

CounterIsNotAhead ==
  \A v \in Servers : shutdownArray[v] <= Cardinality(CountedAt(v))

CopyIsNotAhead ==
  \A r \in Requests : stage[r] = "counting" => loaded[r] <= Cardinality(CountedAt(r[2]))

Inv == TypeOK /\ CounterIsNotAhead /\ CopyIsNotAhead /\ StopsAfterTheLastRequest

-----------------------------------------------------------------------------
(* The sets of askers and their sizes.                                      *)

LEMMA AskersSize ==
  /\ IsFiniteSet(Askers)
  /\ Cardinality(Askers) = 1 + NUMBER_OF_SPECTATORS
  /\ NUMBER_OF_SPECTATORS \in Nat
<1>1. IsFiniteSet(Spectators) /\ Broker \notin Spectators
  BY ConfigurationAssumption DEF ConfigurationAssumption
<1>2. Askers = Spectators \cup {Broker}
  BY DEF Askers
<1> QED
  BY <1>1, <1>2, FS_AddElement, FS_CardinalityType DEF NUMBER_OF_SPECTATORS

LEMMA CountedAtSize ==
  ASSUME NEW v
  PROVE  /\ IsFiniteSet(CountedAt(v))
         /\ Cardinality(CountedAt(v)) \in Nat
         /\ Cardinality(CountedAt(v)) <= 1 + NUMBER_OF_SPECTATORS
         /\ Cardinality(CountedAt(v)) = 1 + NUMBER_OF_SPECTATORS => CountedAt(v) = Askers
<1>1. CountedAt(v) \subseteq Askers
  BY DEF CountedAt
<1> QED
  BY <1>1, AskersSize, FS_Subset, FS_CardinalityType

(* While one of them is not counted, there is room for one more.            *)
LEMMA RoomForOne ==
  ASSUME NEW r \in Requests, stage[r] \notin Counted
  PROVE  Cardinality(CountedAt(r[2])) <= NUMBER_OF_SPECTATORS
<1>1. r[1] \in Askers /\ r = <<r[1], r[2]>>
  BY DEF Requests
<1>2. r[1] \notin CountedAt(r[2])
  BY <1>1 DEF CountedAt
<1>3. Cardinality(CountedAt(r[2])) # 1 + NUMBER_OF_SPECTATORS
  BY <1>1, <1>2, CountedAtSize
<1> QED
  BY <1>3, CountedAtSize, AskersSize

LEMMA ServerNames ==
  /\ "stable" \in Servers
  /\ "general-repo" \in Servers
  /\ \A c \in Calls : c[2] \in Servers
BY ShutdownAssumption DEF ShutdownAssumption, Calls, Requests, Reports, Logs

-----------------------------------------------------------------------------
(* A call that has been counted stays counted.                              *)
LEMMA CountedStays ==
  ASSUME stage \in [Calls -> Stages], NEW call \in Calls, NEW from, NEW to \in Stages,
         from \in Counted => to \in Counted,
         Goes(call, from, to)
  PROVE  /\ stage' \in [Calls -> Stages]
         /\ \A c \in Calls : stage'[c] = IF c = call THEN to ELSE stage[c]
         /\ \A v \in Servers : CountedAt(v) \subseteq CountedAt(v)'
         /\ \A v \in Servers :
              /\ Cardinality(CountedAt(v)) \in Nat
              /\ Cardinality(CountedAt(v)') \in Nat
              /\ Cardinality(CountedAt(v)) <= Cardinality(CountedAt(v)')
<1>1. /\ stage[call] = from
      /\ stage' = [stage EXCEPT ![call] = to]
  BY DEF Goes
<1>2. stage' \in [Calls -> Stages]
  BY <1>1
<1>3. \A c \in Calls : stage'[c] = IF c = call THEN to ELSE stage[c]
  BY <1>1
<1>4. ASSUME NEW v \in Servers PROVE CountedAt(v) \subseteq CountedAt(v)'
  <2>1. \A a \in Askers : <<a, v>> \in Calls
    BY DEF Calls, Requests
  <2> QED
    BY <1>1, <1>3, <2>1 DEF CountedAt
<1>5. ASSUME NEW v \in Servers
      PROVE  /\ Cardinality(CountedAt(v)) \in Nat
             /\ Cardinality(CountedAt(v)') \in Nat
             /\ Cardinality(CountedAt(v)) <= Cardinality(CountedAt(v)')
  <2>1. CountedAt(v)' \subseteq Askers
    BY DEF CountedAt
  <2>2. IsFiniteSet(CountedAt(v)')
    BY <2>1, AskersSize, FS_Subset
  <2> QED
    BY <1>4, <2>2, FS_Subset, FS_CardinalityType
<1> QED
  BY <1>2, <1>3, <1>4, <1>5

(* What is left to prove of a step that counts nothing: the bounds hold     *)
(* after it, because nobody has been taken off the counted ones.            *)
LEMMA NothingCounted ==
  ASSUME Inv, NEW call \in Calls, NEW from, NEW to \in Stages \ {"counting"},
         from \in Counted => to \in Counted,
         Goes(call, from, to),
         UNCHANGED <<shutdownArray, loaded, exited>>,
         launcher' \in [Servers -> {"accepting", "checking", "stopped"}],
         \A v \in Servers : launcher'[v] = "stopped" => launcher[v] = "stopped"
  PROVE  Inv'
<1> USE DEF Inv
<1>1. stage \in [Calls -> Stages] /\ to \in Stages
  BY DEF TypeOK
<1>2. /\ stage' \in [Calls -> Stages]
      /\ \A c \in Calls : stage'[c] = IF c = call THEN to ELSE stage[c]
      /\ \A v \in Servers : CountedAt(v) \subseteq CountedAt(v)'
      /\ \A v \in Servers :
           /\ Cardinality(CountedAt(v)) \in Nat
           /\ Cardinality(CountedAt(v)') \in Nat
           /\ Cardinality(CountedAt(v)) <= Cardinality(CountedAt(v)')
  BY <1>1, CountedStays
<1>3. TypeOK'
  BY <1>2 DEF TypeOK
<1>4. CounterIsNotAhead'
  <2> SUFFICES ASSUME NEW v \in Servers
               PROVE  shutdownArray'[v] <= Cardinality(CountedAt(v)')
    BY DEF CounterIsNotAhead
  <2>1. shutdownArray[v] <= Cardinality(CountedAt(v)) /\ shutdownArray[v] \in Int
    BY DEF CounterIsNotAhead, TypeOK
  <2> QED
    BY <1>2, <2>1
<1>5. CopyIsNotAhead'
  <2> SUFFICES ASSUME NEW r \in Requests, stage'[r] = "counting"
               PROVE  loaded'[r] <= Cardinality(CountedAt(r[2])')
    BY DEF CopyIsNotAhead
  <2>1. r \in Calls /\ r[2] \in Servers
    BY DEF Calls, Requests
  <2>2. stage[r] = "counting"
    BY <1>2, <2>1
  <2>3. loaded[r] <= Cardinality(CountedAt(r[2])) /\ loaded[r] \in Int
    BY <2>2 DEF CopyIsNotAhead, TypeOK
  <2> QED
    BY <1>2, <2>1, <2>3
<1>6. StopsAfterTheLastRequest'
  BY <1>2 DEF StopsAfterTheLastRequest, CountedAt
<1> QED
  BY <1>3, <1>4, <1>5, <1>6

-----------------------------------------------------------------------------
(* Each step preserves the invariant.                                       *)

LEMMA InitInv == Init => Inv
<1> SUFFICES ASSUME Init PROVE Inv
  OBVIOUS
<1>1. TypeOK
  BY AskersSize DEF Init, TypeOK, Stages
<1>2. CounterIsNotAhead
  <2> SUFFICES ASSUME NEW v \in Servers
               PROVE  shutdownArray[v] <= Cardinality(CountedAt(v))
    BY DEF CounterIsNotAhead
  <2> QED
    BY CountedAtSize DEF Init
<1>3. CopyIsNotAhead
  BY DEF Init, CopyIsNotAhead, Calls
<1>4. StopsAfterTheLastRequest
  BY DEF Init, StopsAfterTheLastRequest
<1> QED
  BY <1>1, <1>2, <1>3, <1>4 DEF Inv

LEMMA ConnectInv == ASSUME Inv, NEW call \in Calls, Connect(call) PROVE Inv'
<1>1. /\ Goes(call, "unsent", "queued")
      /\ UNCHANGED <<shutdownArray, loaded, launcher, exited>>
  BY DEF Connect
<1>2. "queued" \in Stages \ {"counting"} /\ "unsent" \notin Counted
  BY DEF Stages, Counted
<1>3. launcher' \in [Servers -> {"accepting", "checking", "stopped"}]
  BY <1>1 DEF Inv, TypeOK
<1> QED
  BY <1>1, <1>2, <1>3, NothingCounted

LEMMA LoseConnectionInv == ASSUME Inv, NEW call \in Calls, LoseConnection(call) PROVE Inv'
<1>1. UNCHANGED <<stage, shutdownArray, loaded, launcher>>
  BY DEF LoseConnection
<1>2. exited' \subseteq Processes
  <2>1. exited \subseteq Processes
    BY DEF Inv, TypeOK
  <2>2. {Caller(call), call[2]} \subseteq Processes
    BY ServerNames DEF Caller, Process, Processes
  <2> QED
    BY <2>1, <2>2 DEF LoseConnection
<1>3. TypeOK'
  BY <1>1, <1>2 DEF Inv, TypeOK
<1>4. \A v : CountedAt(v)' = CountedAt(v)
  BY <1>1 DEF CountedAt
<1>5. CounterIsNotAhead' /\ CopyIsNotAhead'
  BY <1>1, <1>4 DEF Inv, CounterIsNotAhead, CopyIsNotAhead
<1>6. StopsAfterTheLastRequest'
  BY <1>1 DEF Inv, StopsAfterTheLastRequest
<1> QED
  BY <1>3, <1>5, <1>6 DEF Inv

LEMMA AcceptInv == ASSUME Inv, NEW call \in Calls, Accept(call) PROVE Inv'
<1>1. /\ Goes(call, "queued", "accepted")
      /\ launcher' = [launcher EXCEPT ![call[2]] = "checking"]
      /\ UNCHANGED <<shutdownArray, loaded, exited>>
  BY DEF Accept
<1>2. "accepted" \in Stages \ {"counting"} /\ "queued" \notin Counted
  BY DEF Stages, Counted
<1>3. /\ launcher' \in [Servers -> {"accepting", "checking", "stopped"}]
      /\ \A v \in Servers : launcher'[v] = "stopped" => launcher[v] = "stopped"
  BY <1>1 DEF Inv, TypeOK
<1> QED
  BY <1>1, <1>2, <1>3, NothingCounted

(* The main thread looks at the count; if it is complete, every asker has   *)
(* been counted, because the counter is not ahead of them.                  *)
LEMMA LauncherInv ==
  ASSUME Inv, NEW v \in Servers, AcceptTimesOut(v) \/ Check(v)
  PROVE  Inv'
<1>1. UNCHANGED <<stage, shutdownArray, loaded, exited>>
  BY DEF AcceptTimesOut, Check
<1>2. launcher' \in [Servers -> {"accepting", "checking", "stopped"}]
  BY DEF Inv, TypeOK, AcceptTimesOut, Check
<1>3. TypeOK'
  BY <1>1, <1>2 DEF Inv, TypeOK
<1>4. \A u : CountedAt(u)' = CountedAt(u)
  BY <1>1 DEF CountedAt
<1>5. CounterIsNotAhead' /\ CopyIsNotAhead'
  BY <1>1, <1>4 DEF Inv, CounterIsNotAhead, CopyIsNotAhead
<1>6. StopsAfterTheLastRequest'
  <2> SUFFICES ASSUME NEW u \in Servers, launcher'[u] = "stopped"
               PROVE  \A a \in Askers : stage[<<a, u>>] \in Counted
    BY <1>1 DEF StopsAfterTheLastRequest
  <2>1. CASE launcher[u] = "stopped"
    BY <2>1 DEF Inv, StopsAfterTheLastRequest
  <2>2. CASE launcher[u] # "stopped"
    <3>1. u = v /\ getShutdownCounter(u)
      BY <2>2 DEF Inv, TypeOK, AcceptTimesOut, Check
    <3>2. 1 + NUMBER_OF_SPECTATORS <= Cardinality(CountedAt(u))
      BY <3>1 DEF getShutdownCounter, Inv, CounterIsNotAhead
    <3>3. CountedAt(u) = Askers
      BY <3>2, CountedAtSize, AskersSize
    <3> QED
      BY <3>3 DEF CountedAt
  <2> QED
    BY <2>1, <2>2
<1> QED
  BY <1>3, <1>5, <1>6 DEF Inv

(* An agent's copy of the counter is below the full count: its own request  *)
(* is not in it.                                                            *)
LEMMA ReadCounterInv ==
  ASSUME Inv, NEW call \in Requests, ReadCounter(call)
  PROVE  Inv'
<1> DEFINE v == call[2]
<1>1. call \in Calls /\ v \in Servers
  BY DEF Calls, Requests
<1>2. /\ Goes(call, "accepted", "counting")
      /\ loaded' = [loaded EXCEPT ![call] = shutdownArray[v]]
      /\ UNCHANGED <<shutdownArray, launcher, exited>>
  BY DEF ReadCounter
<1>3. "counting" \in Stages /\ "accepted" \notin Counted /\ "counting" \notin Counted
  BY DEF Stages, Counted
<1>4. stage[call] = "accepted" /\ stage \in [Calls -> Stages]
  BY <1>2 DEF Goes, Inv, TypeOK
<1>5. /\ stage' \in [Calls -> Stages]
      /\ \A c \in Calls : stage'[c] = IF c = call THEN "counting" ELSE stage[c]
  BY <1>1, <1>2, <1>3, <1>4, CountedStays
<1>6. \A u \in Servers : CountedAt(u)' = CountedAt(u)
  <2>1. \A u \in Servers, a \in Askers : <<a, u>> \in Calls
    BY DEF Calls, Requests
  <2>2. \A u \in Servers, a \in Askers : stage'[<<a, u>>] \in Counted <=> stage[<<a, u>>] \in Counted
    BY <1>3, <1>4, <1>5, <2>1
  <2> QED
    BY <2>2 DEF CountedAt
<1>7. shutdownArray[v] \in 0 .. NUMBER_OF_SPECTATORS
  <2>1. shutdownArray[v] <= Cardinality(CountedAt(v)) /\ shutdownArray[v] \in 0 .. 1 + NUMBER_OF_SPECTATORS
    BY <1>1 DEF Inv, CounterIsNotAhead, TypeOK
  <2>2. Cardinality(CountedAt(v)) <= NUMBER_OF_SPECTATORS
    BY <1>3, <1>4, RoomForOne
  <2> QED
    BY <2>1, <2>2, CountedAtSize, AskersSize
<1>8. TypeOK'
  BY <1>1, <1>2, <1>5, <1>7 DEF Inv, TypeOK
<1>9. CounterIsNotAhead'
  BY <1>2, <1>6 DEF Inv, CounterIsNotAhead
<1>10. CopyIsNotAhead'
  <2> SUFFICES ASSUME NEW r \in Requests, stage'[r] = "counting"
               PROVE  loaded'[r] <= Cardinality(CountedAt(r[2])')
    BY DEF CopyIsNotAhead
  <2>1. r \in Calls /\ r[2] \in Servers
    BY DEF Calls, Requests
  <2>2. CASE r = call
    <3>1. loaded'[r] = shutdownArray[v]
      BY <1>2, <2>2 DEF Inv, TypeOK
    <3> QED
      BY <1>1, <1>6, <2>1, <2>2, <3>1 DEF Inv, CounterIsNotAhead
  <2>3. CASE r # call
    <3>1. loaded'[r] = loaded[r] /\ stage[r] = "counting"
      BY <1>2, <1>5, <2>1, <2>3 DEF Inv, TypeOK
    <3> QED
      BY <1>6, <2>1, <3>1 DEF Inv, CopyIsNotAhead
  <2> QED
    BY <2>2, <2>3
<1>11. StopsAfterTheLastRequest'
  BY <1>2, <1>6 DEF Inv, StopsAfterTheLastRequest, CountedAt
<1> QED
  BY <1>8, <1>9, <1>10, <1>11 DEF Inv

(* The counter goes to one more than the copy, and the counted ones become  *)
(* one more.                                                                *)
LEMMA WriteCounterInv ==
  ASSUME Inv, NEW call \in Requests, WriteCounter(call)
  PROVE  Inv'
<1> DEFINE v == call[2]
<1>1. call \in Calls /\ v \in Servers /\ call[1] \in Askers /\ call = <<call[1], v>>
  BY DEF Calls, Requests
<1>2. /\ Goes(call, "counting", "counted")
      /\ shutdownArray' = [shutdownArray EXCEPT ![v] = loaded[call] + 1]
      /\ UNCHANGED <<loaded, launcher, exited>>
  BY DEF WriteCounter
<1>3. "counted" \in Stages /\ "counted" \in Counted /\ "counting" \notin Counted
  BY DEF Stages, Counted
<1>4. stage[call] = "counting" /\ stage \in [Calls -> Stages]
  BY <1>2 DEF Goes, Inv, TypeOK
<1>5. /\ stage' \in [Calls -> Stages]
      /\ \A c \in Calls : stage'[c] = IF c = call THEN "counted" ELSE stage[c]
      /\ \A u \in Servers : CountedAt(u) \subseteq CountedAt(u)'
      /\ \A u \in Servers :
           /\ Cardinality(CountedAt(u)) \in Nat
           /\ Cardinality(CountedAt(u)') \in Nat
           /\ Cardinality(CountedAt(u)) <= Cardinality(CountedAt(u)')
  BY <1>1, <1>2, <1>3, <1>4, CountedStays
<1>6. Cardinality(CountedAt(v)') = Cardinality(CountedAt(v)) + 1
  <2>1. \A a \in Askers : <<a, v>> \in Calls
    BY <1>1 DEF Calls, Requests
  <2>2. CountedAt(v)' = CountedAt(v) \cup {call[1]}
    BY <1>1, <1>3, <1>5, <2>1 DEF CountedAt
  <2>3. call[1] \notin CountedAt(v)
    BY <1>1, <1>3, <1>4 DEF CountedAt
  <2> QED
    BY <2>2, <2>3, CountedAtSize, FS_AddElement
<1>7. loaded[call] \in 0 .. NUMBER_OF_SPECTATORS /\ loaded[call] <= Cardinality(CountedAt(v))
  BY <1>4 DEF Inv, TypeOK, CopyIsNotAhead
<1>8. TypeOK'
  <2>1. loaded[call] + 1 \in 0 .. 1 + NUMBER_OF_SPECTATORS
    BY <1>7, AskersSize
  <2> QED
    BY <1>1, <1>2, <1>5, <2>1 DEF Inv, TypeOK
<1>9. CounterIsNotAhead'
  <2> SUFFICES ASSUME NEW u \in Servers
               PROVE  shutdownArray'[u] <= Cardinality(CountedAt(u)')
    BY DEF CounterIsNotAhead
  <2>1. CASE u = v
    <3>1. shutdownArray'[u] = loaded[call] + 1
      BY <1>1, <1>2, <2>1 DEF Inv, TypeOK
    <3> QED
      BY <1>1, <1>5, <1>6, <1>7, <2>1, <3>1
  <2>2. CASE u # v
    <3>1. shutdownArray'[u] = shutdownArray[u] /\ shutdownArray[u] \in Int
      BY <1>2, <2>2 DEF Inv, TypeOK
    <3>2. shutdownArray[u] <= Cardinality(CountedAt(u))
      BY DEF Inv, CounterIsNotAhead
    <3> QED
      BY <1>5, <3>1, <3>2
  <2> QED
    BY <2>1, <2>2
<1>10. CopyIsNotAhead'
  <2> SUFFICES ASSUME NEW r \in Requests, stage'[r] = "counting"
               PROVE  loaded'[r] <= Cardinality(CountedAt(r[2])')
    BY DEF CopyIsNotAhead
  <2>1. r \in Calls /\ r[2] \in Servers
    BY DEF Calls, Requests
  <2>2. stage[r] = "counting" /\ loaded'[r] = loaded[r]
    BY <1>2, <1>5, <2>1
  <2>3. loaded[r] <= Cardinality(CountedAt(r[2])) /\ loaded[r] \in Int
    BY <2>2 DEF Inv, CopyIsNotAhead, TypeOK
  <2> QED
    BY <1>5, <2>1, <2>2, <2>3
<1>11. StopsAfterTheLastRequest'
  BY <1>2, <1>5 DEF Inv, StopsAfterTheLastRequest, CountedAt
<1> QED
  BY <1>8, <1>9, <1>10, <1>11 DEF Inv

LEMMA EnterStableInv == ASSUME Inv, NEW call \in Reports, EnterStable(call) PROVE Inv'
<1>1. /\ Goes(call, "accepted", "in the stable")
      /\ UNCHANGED <<shutdownArray, loaded, launcher, exited>>
  BY DEF EnterStable
<1>2. call \in Calls /\ "in the stable" \in Stages \ {"counting"} /\ "accepted" \notin Counted
  BY DEF Stages, Counted, Calls
<1>3. launcher' \in [Servers -> {"accepting", "checking", "stopped"}]
  BY <1>1 DEF Inv, TypeOK
<1> QED
  BY <1>1, <1>2, <1>3, NothingCounted

LEMMA AnswerInv == ASSUME Inv, NEW call \in Calls, Answer(call) PROVE Inv'
<1>1. /\ \/ Goes(call, "counted", "answered")
         \/ Goes(call, "in the stable", "answered")
         \/ Goes(call, "accepted", "answered")
      /\ UNCHANGED <<shutdownArray, loaded, launcher, exited>>
  BY DEF Answer
<1>2. "answered" \in Stages \ {"counting"} /\ "answered" \in Counted
  BY DEF Stages, Counted
<1>3. launcher' \in [Servers -> {"accepting", "checking", "stopped"}]
  BY <1>1 DEF Inv, TypeOK
<1> QED
  BY <1>1, <1>2, <1>3, NothingCounted

LEMMA NextInv == Inv /\ [Next]_vars => Inv'
<1> SUFFICES ASSUME Inv, [Next]_vars PROVE Inv'
  OBVIOUS
<1>1. ASSUME NEW c \in Calls, Connect(c) PROVE Inv'
  BY <1>1, ConnectInv
<1>2. ASSUME NEW c \in Calls, AgentNext(c) PROVE Inv'
  <2>1. CASE c \in Requests /\ ReadCounter(c)
    BY <2>1, ReadCounterInv
  <2>2. CASE c \in Requests /\ WriteCounter(c)
    BY <2>2, WriteCounterInv
  <2>3. CASE c \in Reports /\ EnterStable(c)
    BY <2>3, EnterStableInv
  <2>4. CASE Answer(c)
    BY <2>4, AnswerInv
  <2> QED
    BY <1>2, <2>1, <2>2, <2>3, <2>4 DEF AgentNext
<1>3. ASSUME NEW c \in Calls, LoseConnection(c) PROVE Inv'
  BY <1>3, LoseConnectionInv
<1>4. ASSUME NEW v \in Servers, LauncherNext(v) PROVE Inv'
  BY <1>4, AcceptInv, LauncherInv DEF LauncherNext, CallsTo
<1>5. CASE UNCHANGED vars
  <2>1. \A v : CountedAt(v)' = CountedAt(v)
    BY <1>5 DEF vars, CountedAt
  <2> QED
    BY <1>5, <2>1 DEF vars, Inv, TypeOK, CounterIsNotAhead, CopyIsNotAhead, StopsAfterTheLastRequest
<1> QED
  BY <1>1, <1>2, <1>3, <1>4, <1>5 DEF Next

LEMMA SpecInv == Spec => []Inv
BY InitInv, NextInv, PTL DEF Spec

-----------------------------------------------------------------------------
(* The counter of a server stays within the number of the clients that ask, *)
(* for any number of spectators, servers and late horses.                   *)
THEOREM ShutdownTypeOK == Spec => []TypeOK
<1>1. Inv => TypeOK
  BY DEF Inv
<1> QED
  BY <1>1, SpecInv, PTL

(* A server stops only after the broker and every spectator have asked it   *)
(* to, however the unlocked increments of shutdownArray interleave.         *)
THEOREM ShutdownStopsAfterTheLastRequest == Spec => []StopsAfterTheLastRequest
<1>1. Inv => StopsAfterTheLastRequest
  BY DEF Inv
<1> QED
  BY <1>1, SpecInv, PTL

-----------------------------------------------------------------------------
(* The processes that exit.  The first connection that breaks is that of a  *)
(* late horse, to a server that has stopped: the horse's call is in the     *)
(* queue of a socket nobody accepts from any more.                          *)

Report(h) == <<h, "stable">>
Log(h) == <<h, "general-repo">>

CutOff(h) ==
  \/ stage[Report(h)] = "queued" /\ launcher["stable"] = "stopped"
  \/ /\ stage[Report(h)] = "in the stable"
     /\ stage[Log(h)] = "queued" /\ launcher["general-repo"] = "stopped"

(* The stable's agent calls the log while the horse's report waits for it.  *)
LogsFromTheStable ==
  \A h \in LateHorses :
    stage[Log(h)] \in {"queued"} \cup Served => stage[Report(h)] = "in the stable"

ExitInv ==
  /\ LogsFromTheStable
  /\ exited # {} => \E h \in LateHorses : CutOff(h)

LEMMA HorsesCalls ==
  /\ \A h \in LateHorses :
       /\ Report(h) \in Reports /\ Log(h) \in Logs
       /\ Report(h) \in Calls /\ Log(h) \in Calls
       /\ Report(h)[2] = "stable" /\ Log(h)[2] = "general-repo"
       /\ Caller(Log(h)) = "stable" /\ Caller(Report(h)) = "horses"
  /\ \A c \in Reports : c \notin Requests /\ c \notin Logs
                         /\ \E h \in LateHorses : c = Report(h)
  /\ \A c \in Logs : c \notin Requests /\ \E h \in LateHorses : c = Log(h)
  /\ \A c \in Requests : Caller(c) \in {"broker", "spectators"}
<1>1. \A h \in LateHorses : h \in HorseJockeys /\ h # Broker /\ h \notin Spectators
  BY DistinctClients, ShutdownAssumption DEF ShutdownAssumption
<1>2. \A h \in LateHorses : Report(h) \in Reports /\ Log(h) \in Logs
  BY DEF Reports, Logs, Report, Log
<1>3. \A c \in Reports : c \notin Requests /\ c \notin Logs
                          /\ \E h \in LateHorses : c = Report(h)
  BY <1>1 DEF Reports, Requests, Logs, Askers, Report
<1>4. \A c \in Logs : c \notin Requests /\ \E h \in LateHorses : c = Log(h)
  BY <1>1 DEF Requests, Logs, Askers, Log
<1>5. \A h \in LateHorses : Caller(Log(h)) = "stable" /\ Caller(Report(h)) = "horses"
  BY <1>1, <1>2, <1>3 DEF Caller, Process, Report
<1>6. \A c \in Requests : Caller(c) \in {"broker", "spectators"}
  BY <1>4 DEF Caller, Process, Requests, Askers
<1> QED
  BY <1>2, <1>3, <1>4, <1>5, <1>6 DEF Calls, Report, Log

LEMMA ExitInit == Init => ExitInv
<1> SUFFICES ASSUME Init PROVE ExitInv
  OBVIOUS
<1>1. \A h \in LateHorses : stage[Log(h)] = "unsent"
  BY HorsesCalls DEF Init
<1> QED
  BY <1>1 DEF Init, ExitInv, LogsFromTheStable, Served

(* When a call may leave the stage it is in.                                *)
MayLeave(c) ==
  /\ stage[c] = "unsent" /\ c \in Logs => stage[<<c[1], "stable">>] = "in the stable"
  /\ stage[c] = "queued" => launcher[c[2]] # "stopped"
  /\ stage[c] = "in the stable" => stage[<<c[1], "general-repo">>] = "answered"
  /\ stage[c] # "answered"

(* A step moves one call at most.                                           *)
Moves(c) ==
  /\ \A d \in Calls : d # c => stage'[d] = stage[d]
  /\ stage'[c] # stage[c] => MayLeave(c)

LEMMA OneCallMoves ==
  ASSUME Next, stage \in [Calls -> Stages]
  PROVE  \E c \in Calls : Moves(c)
<1>1. ASSUME NEW c \in Calls, NEW from, NEW to, Goes(c, from, to), MayLeave(c)
      PROVE  \E d \in Calls : Moves(d)
  <2>1. \A d \in Calls : d # c => stage'[d] = stage[d]
    BY <1>1 DEF Goes
  <2> QED
    BY <1>1, <2>1 DEF Moves
<1>2. ASSUME UNCHANGED stage PROVE \E d \in Calls : Moves(d)
  <2>1. <<Broker, "stable">> \in Calls
    BY ServerNames DEF Calls, Requests, Askers
  <2> QED
    BY <1>2, <2>1 DEF Moves
<1>3. ASSUME NEW c \in Calls, Connect(c) PROVE \E d \in Calls : Moves(d)
  BY <1>1, <1>3 DEF Connect, Goes, MayLeave
<1>4. ASSUME NEW c \in Calls, AgentNext(c) PROVE \E d \in Calls : Moves(d)
  <2>1. CASE ReadCounter(c)
    BY <1>1, <2>1 DEF ReadCounter, Goes, MayLeave
  <2>2. CASE WriteCounter(c)
    BY <1>1, <2>2 DEF WriteCounter, Goes, MayLeave
  <2>3. CASE EnterStable(c)
    BY <1>1, <2>3 DEF EnterStable, Goes, MayLeave
  <2>4. CASE Answer(c)
    BY <1>1, <2>4 DEF Answer, Goes, MayLeave
  <2> QED
    BY <1>4, <2>1, <2>2, <2>3, <2>4 DEF AgentNext
<1>5. ASSUME NEW c \in Calls, LoseConnection(c) PROVE \E d \in Calls : Moves(d)
  BY <1>2, <1>5 DEF LoseConnection
<1>6. ASSUME NEW v \in Servers, LauncherNext(v) PROVE \E d \in Calls : Moves(d)
  <2>1. ASSUME NEW c \in CallsTo(v), Accept(c) PROVE \E d \in Calls : Moves(d)
    BY <1>1, <2>1 DEF CallsTo, Accept, Goes, MayLeave
  <2>2. CASE AcceptTimesOut(v)
    BY <1>2, <2>2 DEF AcceptTimesOut
  <2>3. CASE Check(v)
    BY <1>2, <2>3 DEF Check
  <2> QED
    BY <1>6, <2>1, <2>2, <2>3 DEF LauncherNext
<1> QED
  BY <1>3, <1>4, <1>5, <1>6 DEF Next

LEMMA StoppedStays ==
  ASSUME Next, TypeOK, NEW v \in Servers, launcher[v] = "stopped"
  PROVE  launcher'[v] = "stopped"
<1> USE DEF TypeOK
<1>1. ASSUME NEW c \in Calls, Connect(c) \/ AgentNext(c) \/ LoseConnection(c)
      PROVE  launcher'[v] = "stopped"
  BY <1>1 DEF Connect, AgentNext, ReadCounter, WriteCounter, EnterStable, Answer, LoseConnection
<1>2. ASSUME NEW u \in Servers, LauncherNext(u) PROVE launcher'[v] = "stopped"
  BY <1>2 DEF LauncherNext, CallsTo, Accept, AcceptTimesOut, Check
<1> QED
  BY <1>1, <1>2 DEF Next

(* Who is cut off stays so: nobody accepts its call.                        *)
LEMMA CutOffStays ==
  ASSUME Inv, NEW h \in LateHorses, CutOff(h), Next
  PROVE  CutOff(h)'
<1> DEFINE r == Report(h)
           g == Log(h)
<1>0. /\ stage \in [Calls -> Stages] /\ r \in Calls /\ g \in Calls
      /\ r[2] = "stable" /\ g[2] = "general-repo" /\ g = <<r[1], "general-repo">>
  BY HorsesCalls DEF Inv, TypeOK, Report, Log
<1>1. PICK c \in Calls : Moves(c)
  BY <1>0, OneCallMoves
<1>2. \A v \in Servers : launcher[v] = "stopped" => launcher'[v] = "stopped"
  BY StoppedStays DEF Inv
<1>3. CASE stage[r] = "queued" /\ launcher["stable"] = "stopped"
  <2>1. stage'[r] = "queued"
    BY <1>0, <1>1, <1>3 DEF Moves, MayLeave
  <2> QED
    BY <1>2, <1>3, <2>1, ServerNames DEF CutOff
<1>4. CASE /\ stage[r] = "in the stable"
           /\ stage[g] = "queued" /\ launcher["general-repo"] = "stopped"
  <2>1. stage'[g] = "queued"
    BY <1>0, <1>1, <1>4 DEF Moves, MayLeave
  <2>2. stage'[r] = "in the stable"
    BY <1>0, <1>1, <1>4 DEF Moves, MayLeave
  <2> QED
    BY <1>2, <1>4, <2>1, <2>2, ServerNames DEF CutOff
<1> QED
  BY <1>3, <1>4 DEF CutOff

LEMMA LogsStayInTheStable ==
  ASSUME Inv, LogsFromTheStable, Next
  PROVE  LogsFromTheStable'
<1> SUFFICES ASSUME NEW h \in LateHorses, stage'[Log(h)] \in {"queued"} \cup Served
             PROVE  stage'[Report(h)] = "in the stable"
  BY DEF LogsFromTheStable, Served
<1> DEFINE r == Report(h)
           g == Log(h)
<1>0. /\ stage \in [Calls -> Stages] /\ r \in Calls /\ g \in Calls /\ g \in Logs /\ g # r
      /\ r = <<g[1], "stable">> /\ g = <<r[1], "general-repo">>
  BY HorsesCalls DEF Inv, TypeOK, Report, Log
<1>1. PICK c \in Calls : Moves(c)
  BY <1>0, OneCallMoves
<1>2. stage[g] # "answered"
  BY <1>0, <1>1 DEF Moves, MayLeave, Served
<1>3. stage[r] = "in the stable"
  <2>1. CASE stage[g] = "unsent"
    BY <1>0, <1>1, <2>1 DEF Moves, MayLeave, Served
  <2>2. CASE stage[g] # "unsent"
    <3>1. stage[g] \in {"queued"} \cup Served
      BY <1>0, <1>2, <2>2 DEF Stages, Served
    <3> QED
      BY <3>1 DEF LogsFromTheStable
  <2> QED
    BY <2>1, <2>2
<1> QED
  BY <1>0, <1>1, <1>2, <1>3 DEF Moves, MayLeave

(* The first connection that is lost is that of a horse that is cut off.    *)
LEMMA FirstLossCutsAHorseOff ==
  ASSUME Inv, LogsFromTheStable, exited = {}, NEW c \in Calls, LoseConnection(c)
  PROVE  \E h \in LateHorses : CutOff(h)
<1>1. PICK end, other \in {Caller(c), c[2]} :
        /\ end # other
        /\ Ended(end)
        /\ stage[c] \in {"queued"} \cup Served
  BY DEF LoseConnection
<1>2. end \in Servers /\ launcher[end] = "stopped"
      /\ \A d \in CallsTo(end) : stage[d] \notin Served
  BY <1>1 DEF Ended, Down
<1>3. CASE end = c[2]
  <2>1. stage[c] = "queued" /\ launcher[c[2]] = "stopped"
    BY <1>1, <1>2, <1>3 DEF CallsTo
  <2>2. c \notin Requests
    <3>1. SUFFICES ASSUME c \in Requests PROVE FALSE
      OBVIOUS
    <3>2. c = <<c[1], c[2]>> /\ c[1] \in Askers /\ c[2] \in Servers
      BY <3>1 DEF Requests
    <3>3. stage[<<c[1], c[2]>>] \in Counted
      BY <2>1, <3>2 DEF Inv, StopsAfterTheLastRequest
    <3> QED
      BY <2>1, <3>2, <3>3 DEF Counted
  <2>3. CASE c \in Reports
    <3>1. PICK h \in LateHorses : c = Report(h)
      BY <2>3, HorsesCalls
    <3> QED
      BY <2>1, <3>1, HorsesCalls DEF CutOff
  <2>4. CASE c \in Logs
    <3>1. PICK h \in LateHorses : c = Log(h)
      BY <2>4, HorsesCalls
    <3>2. stage[Report(h)] = "in the stable"
      BY <2>1, <3>1 DEF LogsFromTheStable
    <3> QED
      BY <2>1, <3>1, <3>2, HorsesCalls DEF CutOff
  <2> QED
    BY <2>2, <2>3, <2>4 DEF Calls
<1>4. CASE end = Caller(c)
  <2>1. Caller(c) \in Servers
    BY <1>2, <1>4
  <2>2. c \notin Requests
    BY <2>1, HorsesCalls, ShutdownAssumption DEF ShutdownAssumption
  <2>3. c \notin Reports
    BY <2>1, HorsesCalls, ShutdownAssumption DEF ShutdownAssumption
  <2>4. c \in Logs
    BY <2>2, <2>3 DEF Calls
  <2>5. PICK h \in LateHorses : c = Log(h)
    BY <2>4, HorsesCalls
  <2>6. end = "stable" /\ stage[Report(h)] = "in the stable"
    BY <1>1, <1>4, <2>5, HorsesCalls DEF LogsFromTheStable
  <2>7. Report(h) \in CallsTo("stable")
    BY HorsesCalls DEF CallsTo
  <2> QED
    BY <1>2, <2>6, <2>7 DEF Served
<1> QED
  BY <1>1, <1>3, <1>4

LEMMA ExitNext ==
  ASSUME Inv, ExitInv, [Next]_vars
  PROVE  ExitInv'
<1>1. CASE UNCHANGED vars
  BY <1>1 DEF vars, ExitInv, LogsFromTheStable, CutOff
<1>2. CASE Next
  <2>1. LogsFromTheStable'
    BY <1>2, LogsStayInTheStable DEF ExitInv
  <2>2. ASSUME exited' # {} PROVE \E h \in LateHorses : CutOff(h)
    <3>1. CASE exited # {}
      BY <3>1 DEF ExitInv
    <3>2. CASE exited = {}
      <4>1. ASSUME NEW c \in Calls, Connect(c) \/ AgentNext(c) PROVE FALSE
        BY <2>2, <3>2, <4>1 DEF Connect, AgentNext, ReadCounter, WriteCounter, EnterStable, Answer
      <4>2. ASSUME NEW v \in Servers, LauncherNext(v) PROVE FALSE
        BY <2>2, <3>2, <4>2 DEF LauncherNext, Accept, AcceptTimesOut, Check
      <4>3. PICK c \in Calls : LoseConnection(c)
        BY <1>2, <4>1, <4>2 DEF Next
      <4> QED
        BY <3>2, <4>3, FirstLossCutsAHorseOff DEF ExitInv
    <3> QED
      BY <3>1, <3>2
  <2>3. ASSUME exited' # {} PROVE \E h \in LateHorses : CutOff(h)'
    <3>1. PICK h \in LateHorses : CutOff(h)
      BY <2>2, <2>3
    <3> QED
      BY <1>2, <3>1, CutOffStays
  <2> QED
    BY <2>1, <2>3 DEF ExitInv
<1> QED
  BY <1>1, <1>2

LEMMA ExitOnlyIfLate ==
  ASSUME Inv, ExitInv PROVE OnlyLateHorsesAreCutOff
<1> SUFFICES ASSUME exited # {} PROVE \E c \in Reports : stage[c] # "answered"
  BY DEF OnlyLateHorsesAreCutOff
<1>1. PICK h \in LateHorses : CutOff(h)
  BY DEF ExitInv
<1>2. Report(h) \in Reports
  BY HorsesCalls
<1>3. stage[Report(h)] # "answered"
  BY <1>1 DEF CutOff
<1> QED
  BY <1>2, <1>3

(* No process ends by System.exit(1) but for a horse whose report to the    *)
(* stable is not answered, and never will be: brokers, spectators and       *)
(* servers alone would all end in order, whatever the counters lose.        *)
THEOREM ShutdownOnlyLateHorsesAreCutOff == Spec => []OnlyLateHorsesAreCutOff
<1>1. Spec => []Inv
  BY SpecInv
<1>2. Init => ExitInv
  BY ExitInit
<1>3. Inv /\ ExitInv /\ [Next]_vars => ExitInv'
  BY ExitNext
<1>4. Inv /\ ExitInv => OnlyLateHorsesAreCutOff
  BY ExitOnlyIfLate
<1> QED
  BY <1>1, <1>2, <1>3, <1>4, PTL DEF Spec
=============================================================================

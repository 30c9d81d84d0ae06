# The hippodrome, verified

*keep-me-on-running* simulates an afternoon at the races. A broker, some
spectators and, for each race, a batch of pairs Horse/Jockey are Java threads
on client machines; the places where they meet (stable, control centre,
paddock, racing track, betting centre) and a log (the general repository of
information) are monitors on six servers. This directory holds TLA+ models of
the five regions, of the life cycles that call them, of the log and of the
shutdown of the servers, the TLC configurations that check them, and TLAPS
proofs about the regions, the shutdown and the whole simulation.

Paths below are relative to `src/`.

## 1. Inventory

### Parts, state and operations

| part | state | operations |
|---|---|---|
| **Stable** (`hippodrome/Stable.java`) | race last summoned, arrivals so far, three flags | horse: `proceedToStable(int)`, `proceedToStable()`; broker: `summonHorsesToPaddock(int)` |
| **Control centre** (`hippodrome/ControlCentre.java`) | horses on their way, finishers, reported winner, four flags | broker: `summonHorsesToPaddock`, `startTheRace`, `reportResults`, `entertainTheGuests`; spectator: `waitForTheNextRace`, `goCheckHorses`, `goWatchTheRace`, `relaxABit`; horse: `proceedToPaddock`, `makeAMove` |
| **Paddock** (`hippodrome/Paddock.java`) | one counter of arrivals and departures of horses, one of spectators, two flags | horse: `proceedToPaddock`, `proceedToStartLine`; spectator: `goCheckHorses()`, `goCheckHorses(boolean)` |
| **Racing track** (`hippodrome/RacingTrack.java`, `actions/Race.java`) | the race, the queue of turns, positions, finishers, winner, three flags | horse: `proceedToStartLine`, `makeAMove`, `hasFinishLineBeenCrossed`; broker: `startTheRace`, `setRace`; readers `getRace`, `getWinner` |
| **Betting centre** (`hippodrome/BettingCentre.java`, `actions/Bet.java`) | queue of bettors, bets, winners, abilities, odds, money, winners arrived, four flags | broker: `acceptTheBets`, `areThereAnyWinners`, `honourTheBets`; spectator: `placeABet`, `haveIWon`, `goCollectTheGains`; horse: `setAbility` |
| **Broker** (`entities/Broker.java`) | race number, winner | `run()`: one iteration per race, then the guests, then the shutdown requests |
| **Spectators** (`entities/Spectator.java`) | race number, money, "am I the last one" | `run()`: one iteration per race |
| **Pairs Horse/Jockey** (`entities/HorseJockey.java`) | race number (read from the track by the constructor), ability | `run()`: one race, one life |
| **Client launcher** (`clients/ClientLauncher.java`) | the batch | starts the broker, the spectators, and one batch of horses after the other, each joined before the next |
| **Stubs and proxies** (`clients/*Stub.java`, `server/*Proxy.java`) | none | a blocking request and its reply for every method |
| **Service agents, server launcher** (`server/ServiceProviderAgent.java`, `ServerLauncher.java`) | shutdown counters | one thread per request; accept loop |
| **General repository** (`hippodrome/GeneralInformationRepository.java`, `rollfilm/`) | last status of everybody | setters, `newSnapshot`, `raceIsOver` |
| **Communications, configurations, logging** | - | sockets and serialization; constants; console |

### How they interact

A client is sequential and has at most one request outstanding. The server
starts a *service agent* per request, which enters the region's monitor, may
`wait()` there, and answers when the method returns. So the threads of a region
can be named after the clients, and a delayed request or reply is time a client
spends between two steps. Regions do not call one another (only the log): what
connects them is the order in which clients call them. A race passes through
the flags of all five regions:

1. the last horse of a batch lets the broker summon the race (stable);
2. the last summoned horse to leave wakes the spectators (control centre), the
   last spectator to come wakes the broker (control centre) and the horses
   (paddock), the last horse to leave the paddock wakes the spectators;
3. the last bet wakes the broker (betting centre), whose order wakes the horses
   (racing track), which take turns;
4. the last finisher wakes the broker (control centre), whose report wakes the
   watchers; winners wait for the broker and the broker for the winners
   (betting centre);
5. the broker sets the next race (track) and summons it; the finished horses,
   waiting at the stable, go.

### What is hard here

The flags of `while (flag) wait()` loops are re-armed for the next race by
*other* methods than those that clear them, some by every caller, some never.
Everything the repository gets wrong or nearly wrong has this shape: a flag of
the race before is read before it is re-armed, or is re-armed while a woken
thread has not looked at it yet (`notifyAll()` only makes a thread compete for
the lock). Nothing is persisted, no request is repeated once it is sent and no
reply has a timeout; there is no crash recovery to speak of. A thrown exception
in a region kills the agent without a reply, and its client blocks for ever.
At the end the servers are stopped one after the other, by requests that
concurrent agents count without a lock, while horses may still need two of the
servers: connections that are refused, queued for nobody or broken, and the
timeout of `accept()`, matter there.
`PROJECT.json` lists each hazard at its line with the properties that guard it.

### What makes each part correct

- every region: no lost wakeup (a thread asleep in a loop whose condition has
  become false);
- stable: no race is summoned before a batch is there, each batch once;
- control centre: winner, number of finishers and end of the race agree; the
  broker supervises to the end and reports, watchers all get the report;
- paddock: horses and spectators count exactly, both sides are released;
- racing track: one turn per horse and round, positions survive, nobody runs
  before the order to start, no exception from an empty queue;
- betting centre: bets of one race are never accepted, won or paid as another
  race's; as many winners are awaited as come; odds are those of the runners;
- the log: a line shows the bet that will be settled and the run of this race,
  although clients of neighbouring races report to it at the same time;
- the shutdown: a server stops when the broker and all spectators have asked,
  not before, and nobody who needs it is cut off;
- the whole: clients stay within a race of one another, bets are settled once
  and for the right race, races are run in order, and the event ends.

## 2. The modules

| module | models |
|---|---|
| `SimulationConfigurations` | the size of an event: sets of horses and spectators, number of races |
| `Monitor` | the Java monitor: `call` (what each thread is blocked in), `waitSet` (who sleeps), a `while`/`wait()` loop, `notifyAll()` |
| `Stable`, `ControlCentre`, `Paddock`, `RacingTrack`, `BettingCentre` | one region each, its fields under the source's names, one action per method and one (`resume...`) for each thread that re-enters after a notification; `Next` lets clients call in (almost) any order |
| `Hippodrome` | the composition: `INSTANCE`s of the five regions, the three life cycles, the launcher. A client's pc names the method it is about to call or blocked in |
| `Bookmaker` | abstract: what the event promises to those who bet |
| `HippodromeSafety` | what holds however late messages are: invariants, the refinement of `Bookmaker`, and the statement that the life cycles use stable and betting centre as the regions' own specifications assume |
| `RaceMeeting` | abstract: what the event is for those who watch it, with liveness |
| `HippodromePromises` | what holds only of messages that are not too late: what comments in the code promise, the refinement of `RaceMeeting`, and the use of the track |
| `TimelyHippodrome` | the same life cycles under named timing assumptions, fairness, liveness |
| `GeneralInformationRepository` | the log: one function of its records per method, and which bet and run a line shows |
| `LoggedHippodrome` | `TimelyHippodrome` with every report of a region or client to the log, in the step that makes it |
| `Shutdown` | the end of the servers: requests to stop, the unsynchronized counters, `accept()` and its timeout, connections, the last calls of late horses |
| `MCxxx` | symmetry sets and constants for TLC |
| `ConfigurationProofs` | facts about the size of an event that the other proofs share |
| `StableProofs`, `ControlCentreProofs`, `RacingTrackProofs`, `BettingCentreProofs`, `ShutdownProofs` | theorems about the module they are named after |
| `HippodromeProofs` | theorems about `HippodromeSafety` whatever the delays, and about the paddock alone |
| `TimelyHippodromeProofs` | theorems about `HippodromePromises` under timing assumptions of `TimelyHippodrome`, and about `LoggedHippodrome` |

**Atomicity.** A synchronized method is one action from its first statement to
its return or its `wait()`, and one `resume...` action from each re-evaluation
of the loop's condition. `notifyAll()` empties `waitSet`; the notified thread
stays in `call` and re-enters in any order with any newcomer. Spurious wakeups
are not modelled; every `wait()` stands in a `while` loop, so one would only
evaluate the condition again and sleep. `Hippodrome` leaves the calls to the log
out: they do not block and return nothing that is used. `LoggedHippodrome` adds
them: a method reports under the lock of its region and before it waits, so that
its reports belong to its first step. Pairs of reports that are always made
together (distance and number of a race, amount and horse of a bet, position and
number of moves, ability and state of a new horse) are one step, so a line
printed between the two is not modelled.
`RacingTrack.setRace` is not synchronized; it is one reference assignment, so it
is one action that can fall between any two others (that a reader on another
thread might see the old reference later still is not modelled; see the hazards).

**Names.** Two regions have a flag `lastSpectatorHasNotArrivedOnPaddock`;
in `Hippodrome` the control centre's is called `announcing`. The identifiers of
horses and spectators, only compared and used as indices in the code, are model
values. `horsePc` also has `"unborn"` and `"deceased"` for a thread not yet
started and one that has ended.

**Data.** A race is its number and its length; a bet its horse and amount.
`evaluateOdds` is computed as in the code, with its integer division and the
exception for a missing ability (`acceptTheBetsFails`: the call never returns,
`NoReply`; the odds of the horses before that one in the array, which may be any
of those with an ability, have been replaced and reported by then); likewise `peek()` on an empty queue in `makeAMove`. Random choices
(`generateDistance`, `generateAbility`, `generateMoney`, the horse bet on, the
portion of the money bet) range over constants. Money is bounded by `MaxMoney`
(`MaxMoneyOnSafe` for the region alone), as `moneyOnSafe` only grows.
`HippodromeAssumption` says what the code's draws guarantee: lengths and
abilities are positive, every ability is smaller than every distance (2-4
against 50-99), so that no horse crosses in one move, and no more than all the
money is bet (`bet()`, `Spectator.java:116-119`, draws one of three portions).

**Shutdown.** A module of its own, as it shares nothing with the races but the
horses that are late: the broker and the spectators ask the servers to stop
right after their last call, without waiting for the horses, each of which has
one more call to make, `Stable.proceedToStable()`, from inside which the
stable's agent calls the log. A call is named by who makes it and the server it
goes to; its `stage` says how far it has come. The agent counts a request in two
steps, because `shutdownArray[i]++` is a read and a write; that the launcher may
read a stale value of the non-volatile array is not modelled. When the loop of
`ServerLauncher.main` ends, `close()` throws (the listening `ServerCom` has no
streams) and the main thread dies with the listening socket still bound; the
process ends with its last agent (`Down`). Until then connections are queued and
nobody accepts them; after it they are refused and tried again, for ever. An
open connection that breaks ends the process that reads from it
(`System.exit(1)` in `ClientCom` and `ServerCom`). Late horses are done with the
track, and the order of the servers is that of `Broker.shutdown`.

**Left out of the life cycles.** `getNumberOfHorses`, a read of a constant.

**Mutants.** Operators commented `Mutant:` are deliberately wrong variants of
the definition that follows them (a missing reset, a dropped `notifyAll`, an off
by one). No specification uses them; substituting one for its original must break
the property `PROJECT.json` names next to it, which shows that the property
notices that bug.

## 3. The runs

| run | instance | what it shows |
|---|---|---|
| `stable` | 2 horses, 3 races | the region with clients calling in any order: no lost wakeup; no summons before a batch is complete |
| `control_centre` | 2 horses, 2 spectators, 2 races | no lost wakeup; winner, finishers and end of the race agree although every watcher resets them |
| `racing_track` | 2 horses, lengths 3 and 4, ability 2, 2 races | no lost wakeup (nobody sleeps for a turn in an empty queue); one turn per horse |
| `betting_centre` | 2 horses, 2 spectators, amounts 0 and 1 | no lost wakeup; the queue counts each bettor once |
| `three_races` | 1 horse of two abilities, 2 spectators, 3 races | with any delays: the broker never accepts a race's bets short of a spectator, nobody runs before all have bet, the broker counts the right winners, the next bets wait for the settlement of the last, odds are those of the horse that runs; every bet is settled as `Bookmaker` promises; the betting centre is used as its specification assumes |
| `two_batches` | 2 horses, 1 spectator, 2 races | with any delays: no lost wakeup in any region; the paddock counts every horse twice; the stable is used as its specification assumes |
| `timely_three_races` | 1 horse, 2 spectators, 3 races of lengths 2 or 3, all five assumptions, with the log | the event completes; every race meeting takes its course; supervision and appraisal last as documented; lines show the settled bets and this race's run; no stale turn in the queue, and the track is used as its specification assumes |
| `timely_two_races` | 2 horses, 2 spectators, 2 races, all five assumptions | nobody is stuck unless the event has completed, so the track has not thrown either (the horse would hang); no crossed position is lost; races keep the order of `RaceMeeting`; bets are settled as `Bookmaker` says, with losers as well |
| `shutdown` | 2 late horses, 1 spectator, 2 servers | a server stops only after the broker and all spectators have asked; it stops once it has counted right, also without further connections; everyone who asks gets an answer; nobody is cut off unless a horse is late |
| `claim_supervision_ends` | 1 horse, 1 spectator, 1 race, one assumption dropped | violated: see section 4 |
| `claim_winner_stands_first` | 2 horses, 1 spectator, 1 race, all five assumptions | violated: the horse that is reported and paid for is second in the log |
| `claim_every_request_counts` | 2 servers, no late horse | violated: two requests count as one and the server waits for ever |

`StableUse`, `RacingTrackUse` and `BettingCentreUse` are refinements: every
behaviour of `Hippodrome!Spec` is, seen through the instance's substitution, a
behaviour of the region's own `Spec`. They are what carries the regions' runs
and theorems over to the simulation. The stable and the betting centre are used
so with messages of any delay; the track only if nobody is late: a broker that
reports too early sets a new length under horses that still run (section 4).
For the control centre and the paddock, whose specifications let anyone call
almost anything, the invariants are checked in the composition directly
(`NoMissedSignal`, `TypeOK`).

**Refinements.** `BetsAreSettled` maps the five regions and three life cycles to
`Bookmaker`: a bet is taken once per race with money the spectator has, odds are
fixed only when nobody is to be paid at the old ones, a race is decided when all
bets are in, and every spectator is settled once per race, with gains if and
only if its horse was reported as the winner. It holds with messages of any
delay, although two of the betting centre's flags are never re-armed: the order
of the calls alone keeps the races apart. `MeetingKeepsOrder` and
`MeetingTakesItsCourse` map them to `RaceMeeting`: all horses leave the
paddock, all spectators that have seen them bet, the race is started, the horses
finish, the first to arrive at the control centre is reported, and (with
fairness) the next race follows. It needs the timing assumptions. Two things
were learned from the mappings: horses constructed before `setRace` may be in
the paddock before their race is summoned, and fast spectators may bet on the
next race while the broker still settles the last one; both are harmless to the
bets, and the second is why the log keeps a copy of them
(`BetsArePrinted`, from `temporarySpectators`).

**Bounds and why they suffice.** All differences between races come from a
flag's first value, its value left over by a previous race, and the last race's
missing successor: three races have a first, a middle and a last one. "Last of
several" tests (`== NUMBER_OF_...`) and overtaking need two clients of a kind.
Two horses *and* two spectators *and* three races together are beyond a run of
a few minutes, so pairs of the three are combined. Lengths and abilities are
chosen for two to three moves, enough for a turn to pass from one horse to the
other and back; `timely_three_races` draws two lengths, so that a race that
follows may be shorter or longer than the one before. With its one horse that run
says nothing about the last of several: whether the supervision lasts to the
last finisher and the appraisal to the last departure is for `MeetingKeepsOrder`
in `timely_two_races` (two horses) and for the theorems of section 5 (any number).
Nor do the odds change in the runs of `BetsAreSettled`: they are 1 in
`three_races` (one horse) and 2 in `timely_two_races` (two horses of one
ability), as two abilities and two horses exceed a run of a few minutes. That no
bet is settled at the odds of another race is there carried by the phase of `Bookmaker`,
which fixes odds only when nobody is to be paid at the old ones, and for abilities
that do change by the theorem `HippodromeBetsAreSettled`. The counters need no artificial bound in `Hippodrome`; a region
alone has `MaxArrivals`, `MaxFinished`, `MaxHorses`, `MaxSpectators`, each "one
call per client and race" (a horse is counted twice by the paddock), which is
what the life cycles do. Deadlock is not checked where the system really stops: in
`shutdown` when all have ended, in the simulation when the event ends (or hangs, which is what the liveness
properties are about), and in a region alone when its clients have used up their
calls; the control centre's clients never run out of calls, so there it is.

**Symmetry** over horses and spectators is used in runs of invariants and of
action properties only, never with liveness.

## 4. Lateness: when the event completes

At five places the code relies on one client being faster than another. As each
is on a machine of its own, only the speed of the network stands behind it.
`TimelyHippodrome` names them in the constant `Assumed`:

| assumption | why the code needs it | without it |
|---|---|---|
| *arrive before the summons*: the horses of a race have called the stable when the broker summons the race | an arrival sets `brokerDidNotSaidToAdvance` (`Stable.java:53`); after the last summons nobody clears it | horses rest for ever, contrary to `entities/HorseJockeyState.java:18-19` |
| *line up before the start*: the horses are on the line when the broker starts the race | lining up replaces all positions and the count of finishers (`RacingTrack.java:73-75`); the first finisher withdraws the order to start (`RacingTrack.java:138`) | a horse sleeps on the line for ever, or asks for a turn it no longer has |
| *watch before the finish*: all spectators watch when the first horse tells the control centre of its finish, and one of them does when the broker supervises | each watcher resets the finishers and the end flag (`ControlCentre.java:114-116`), the flag of the race before stands till then (`ControlCentre.java:55`) | the broker supervises for ever, contrary to `entities/BrokerState.java:32-34` (run `claim_supervision_ends`) |
| *parade before the appraisal*: the horses are in the paddock when a spectator goes to appraise them | until the first horse parades, the departure of the previous race stands (`Paddock.java:92`), and a spectator that leaves re-arms the horses' flag (`Paddock.java:100`) | horses parade for ever, contrary to `entities/HorseJockeyState.java:23-24` |
| *leave before the return*: all watchers have left before one of them waits for the next race | `waitForTheNextRace` withdraws the report (`ControlCentre.java:88`) that a notified watcher has not read | a spectator watches for ever, contrary to `entities/SpectatorState.java:34-35` |

The two `timely` runs show that the five together are enough, on their instances,
and none of them is idle: without any one of them `StuckOnlyAtTheEnd` fails in the
instance of `timely_two_races`. That they are the weakest such conditions is not claimed:
an event in which one of them fails may well complete.

What they leave out must be said as clearly. They exclude the very interleavings
of eight hazards: an arrival that re-arms `Stable.java:53`; a broker that supervises
by the end flag of the last race (`ControlCentre.java:55`), a late watcher
(`ControlCentre.java:114`), a report withdrawn early (`ControlCentre.java:88`); a
departure left by the last race (`Paddock.java:92`), a flag re-armed early
(`Paddock.java:100`); a horse that lines up late (`RacingTrack.java:73`), a length set
under running horses (`RacingTrack.java:209`). There the code can hang or go wrong, so
nothing can be shown of them. What the timely properties (`SupervisionLasts`,
`AppraisalLasts`, `QueueMembers`, `CrossedIsRemembered`, completion) do show is that
lateness at these places is the only way into such trouble: with nobody late no flag,
count or turn of one race reaches the next, and a missing reset or re-arming breaks
them.

For the safety properties three are enough, and that is proved for all
instances (section 5): the *appraisal* needs the parade before it, the
*supervision*, the track and what the log shows of a run need horses that line up
before the start and spectators that watch before the finish, the order of the
meetings needs all three. The other two assumptions
only keep clients from waiting for ever.
`claim_supervision_ends` drops *watch before the finish* and gets a behaviour that hangs, in
contradiction to the comment that says who wakes the sleeper. As in the other
behaviours that hang, the hanging thread sleeps in `wait()` on a flag that was re-armed against it, and
all others that can step have stepped.

**Fairness.** `TimelySpec` has weak fairness of each client (broker, each
spectator, each horse, the launcher). A client is a Java thread and its service
agent another; a thread that can run is eventually scheduled, and the network
delivers (TCP, no timeouts). A thread in `wait()` has no enabled action, so
fairness gives it nothing until it is notified; a notified thread eventually gets
the lock because no client can call the same region for ever without being blocked by others'
progress. Weak fairness is enough: no strong fairness of lock
acquisition is assumed. The assumptions delay the
one client, they never forbid its step for good unless others hang.

`LoggedSpec` has the same fairness. In `Shutdown`, weak fairness of each
server's main thread and of all clients and agents together (they take finitely
many steps, so fairness to all of them is fairness to each); `accept()` has a
timeout (`ServerCom.java:84`). That a broken connection is noticed is not assumed.

### The other findings

- `ControlCentre.java:217` (`claim_winner_stands_first`): crossing the line, being
  marked (`RacingTrack.java:187`) and telling the control centre are three requests to
  two servers. The last of them decides the winner, so that bets are
  paid on a horse the log shows in the second place. Lateness is not needed for
  it, only that one client overtakes another between two requests. What does hold is
  in `RaceMeeting`: the horse reported is the first to reach the control centre.
- `ServiceProviderAgent.java:90` (`claim_every_request_counts`): a lost update
  makes the server wait for a count that never comes; the equality in
  `getShutdownCounter` is then never true. The losses are harmless otherwise
  (`StopsAfterTheLastRequest`, `AskersAreAnswered`).

### Divergences that are documented here and not run

Met while modelling; each follows from one or two lines.

- `BettingCentre.java:152`: `brokerHaveNotAcceptedTheBet` is cleared by the first
  acceptance and never set again, so from the second race on a bettor does not
  wait for the broker, contrary to `entities/SpectatorState.java:30`.
  `AcceptedMeansAllBet` shows why it is harmless to the broker.
- `BettingCentre.java:183`: likewise `winnersMustNotReceiveTheirMoney`, so later
  winners are paid before the broker honours (`BettingCentre.java:167` says after).
  `HonouredMeansAllArrived` and `BetsAreSettled` show that no gain is
  computed from another race's odds.
- `RacingTrack.java:120`: `winner` and its flags are never reset; `getWinner`
  promises -1 before the race is over (line 172). It has no caller.
- `HorseJockey.java:46` with `Stable.java:58`: a horse constructed before the broker
  has set the next race takes the number of the race before and does not wait
  to be summoned, contrary to `Stable.java:42-43`.
- `BettingCentre.java:150`: `moneyOnSafe` only grows, payments are not taken from
  it. It is never read.
- `Broker.java:108`: nothing more is needed after the requests to stop, but a late
  horse still needs the stable and the log: when the log's server has stopped,
  the stable's agent waits in a call nobody answers, or its process exits with
  the horses'. `OnlyLateHorsesAreCutOff` says that nothing else can.
- `RacingTrack.java:210`: only watchers re-arm the flag the broker supervises by
  (`ControlCentre.java:116`). If none has come yet, the broker reports the race at
  once and sets the next one while horses still run this one. If that is shorter, a horse that
  has moved is told it has crossed, with its turn still in the queue, contrary
  to `RacingTrack.java:133`, and the horses of the next race wait for that turn.
  Found by an attempt to prove `QueueMembers` for messages of any delay, and
  confirmed by TLC (1 horse, 1 spectator, 3 races, lengths 2 and 3); the property
  holds, and is checked, if nobody is late.
- A late client also breaks the comments at `ControlCentre.java:47-48` (the broker
  supervises to the last horse), `Paddock.java:75-76` (the spectators see all
  horses leave) and `RacingTrack.java:133` (a crossed horse has crossed);
  in the timely runs these are `SupervisionLasts`, `AppraisalLasts` and
  `CrossedIsRemembered`.

## 5. What is proved

For all sizes of an event, from the named assumptions of the modules alone:
`ConfigurationAssumption` (finite nonempty sets of horses and of spectators,
disjoint; a broker who is neither; at least one race; -1 is no horse),
`HippodromeAssumption` (section 2, *Data*; likewise `TrackAssumption` and
`BettingAssumption` for the two regions alone), `ShutdownAssumption` (each
server is asked once, the log and the stable are among them, and no server is
called like a process of clients).

| theorem | says |
|---|---|
| `StableTypeOK`, `StableNoMissedSignal`, `StableSummonAfterFirstBatch` | the three invariants of run `stable` |
| `ControlCentreTypeOK`, `ControlCentreNoMissedSignal`, `ControlCentreWinner` | the three invariants of run `control_centre` |
| `RacingTrackTypeOK`, `RacingTrackNoMissedSignal`, `RacingTrackOneTurnEach` | the three invariants of run `racing_track`, for any lengths and abilities |
| `BettingCentreTypeOK`, `BettingCentreNoMissedSignal`, `BettingCentreQueueCountsBettors` | the three invariants of run `betting_centre`, for any abilities and amounts |
| `PaddockTypeOK`, `PaddockNoMissedSignal` | the paddock's part of `TypeOK` and `NoMissedSignal` of run `two_batches`, for clients that call the paddock in any order |
| `ShutdownTypeOK`, `ShutdownStopsAfterTheLastRequest`, `ShutdownOnlyLateHorsesAreCutOff` | the three invariants of run `shutdown` |
| `HippodromeTypeOK`, `HippodromeNoMissedSignal`, `HippodromePaddockCountsHorses` | the three invariants of run `two_batches`: in the whole simulation the ranges hold, no wakeup is lost in any region, the paddock counts right |
| `HippodromeUsesStable` | `StableUse` of run `two_batches`: `Hippodrome!Spec` implements the stable's own specification |
| `HippodromeUsesBettingCentre` | `BettingCentreUse` of run `three_races`: it implements the betting centre's, as long as the bets fit in the bound `MaxMoney` of that specification |
| `HippodromeAcceptedMeansAllBet`, `HippodromeHonouredMeansAllArrived`, `HippodromeOddsOfTheRunners` | the three invariants of run `three_races` |
| `HippodromeRaceAfterTheBets` | the action property of run `three_races` |
| `HippodromeBetsAreSettled` | the refinement: `Hippodrome!Spec` implements `Bookmaker` |
| `TimelyAppraisalLasts` | if the horses parade before the appraisal: `AppraisalLasts` |
| `TimelySupervisionLasts`, `TimelyCrossedIsRemembered`, `TimelyQueueMembers`, `TimelyUsesRacingTrack` | if the horses line up before the start and the spectators watch before the finish: `SupervisionLasts`, `CrossedIsRemembered`, `QueueMembers`, and `RacingTrackUse` (the track's own specification is implemented) |
| `TimelyMeetingKeepsOrder` | if all three: the steps of `TimelySpec` are steps of `RaceMeeting`, or stutter |
| `LoggedLogTypeOK`, `LoggedBetsArePrinted` | `LogTypeOK` and `BetsArePrinted`, whatever the delays |
| `LoggedRunIsPrinted` | if the horses line up before the start and the spectators watch before the finish: `RunIsPrinted` |

So every safety property that a run checks, the refinements among them, is
proved, except `StuckOnlyAtTheEnd`. The `Timely` theorems are stated of
`TimelySpec \/ LoggedSpec`: the simulation with its log is one with delays
(`LoggedStep`), so that the promises hold in both. Which of the timing assumptions
a theorem needs is an assumption on the constant `Assumed`, and nothing is said
of the others: they may hold or not.

### The regions and the shutdown

Each proof has the same form: `InitInv`, one lemma per method that `Inv` is
preserved (its clauses one by one), `NextInv`, and `SpecInv == Spec => []Inv`.

- *Stable.* `SummonAfterFirstBatch` is not inductive: the summons looks at the flag
  `horsesAreNotAvailable`, not at the count. `AvailableAfterFirstBatch` relates
  the flag to the count; `Inv` has both, with `TypeOK` and `NoMissedSignal`.
  `NoMissedSignal` needs `TypeOK` (the wait set holds threads) and that a thread
  sleeps in one method only, which the value of `call` says.
- *Control centre.* `WinnerGoesWithFinishers` says three things that are inductive
  only together: resets set all of count, winner and flag, so the flag implies
  a count and the count a winner; a full count without the cleared flag is what
  `makeAMove` must never leave behind.
- *Paddock* (`PaddockAloneInv`, in `HippodromeProofs`). `TypeOK /\ NoMissedSignal`.
- *Racing track.* `TypeOK /\ NoMissedSignal /\ OneTurnEach`. A horse appended to the
  queue does not change whose turn it is unless the queue was empty, and then
  nobody slept for a turn; a queue empties only with a move, which notifies.
  `OneTurnEach` bounds the queue.
- *Betting centre.* The queue fills with the bet that notifies the broker and is
  emptied only by the broker. The odds come last, in an invariant of their own:
  `evaluateOdds` divides a sum over all horses. Such a sum is a `FoldFunction`,
  whose value no prover finds by unfolding, and the library's induction
  theorems take an operator. `SumIsNat` (`ConfigurationProofs`) goes around
  them: if no function summed over the subsets of some size, there would be a
  smallest such size (`SmallestNat`, about sets), and the function for one
  element less can be extended.
- *Shutdown.* A server looks at its counter, not at the requests. `CounterIsNotAhead`
  bounds the counter by the number of askers whose agent has finished counting,
  `CopyIsNotAhead` the copy of an agent that is counting; a request that has
  been counted stays so (`CountedStays`), and an agent's own request is not yet in the
  count (`RoomForOne`). A full counter then means that every asker was counted.
  Who is cut off follows from that: `ExitInv` says that once a process has
  exited, the call of some horse is in the queue of a server that has stopped
  (`CutOff`), for good. The first process to exit loses a connection to a server
  that is down, whose agents are done, so the call is queued; it is not a request,
  since the server has counted them all; and the stable cannot be down while
  its agent calls the log for a horse (`LogsFromTheStable`).

### The simulation

`HippodromeProofs` has one invariant for each chain of signals, each preserved
by every step given the ones before it. As the five regions share no variable,
most steps leave most invariants alone; the lemmas `...KeepBets`,
`OthersKeep...` say so once.

- *Bets* (`BetsInv`). Broker and spectators are placed on one scale: races
  accepted, started, reported, decided (functions of the broker's pc), races
  entered and bet on (of a spectator's). `haveIWon` is held back from the
  acceptance to the decision; therefore no spectator asks for, or collects, a race that
  is not decided, and none is two races ahead; therefore the queue holds exactly the
  bettors of the next race, each once, and a full queue means that all have bet.
- *Start* (`StartInv`). A start order is for this batch or for a later one not
  yet born: the first finisher withdraws it before its batch can die.
- *Winners* (`HonourInv`). The count of winners is the number of those of the last
  decided race who have come or are through with it; nobody else collects, and
  the broker cannot close the next bets before all have.
- *Parade* (`ParadeInv`). The longest chain, through stable, control centre and
  paddock: both counters (horses and spectators) are the sizes of sets of clients
  in certain phases, and no spectator is a race ahead of the horses, or behind
  what the last one has told the broker. It follows that all the horses of a race
  have left stable and control centre before its bets are accepted
  (`HorsesComeBeforeTheBets`), so that the abilities are those of the runners
  (`AbilityInv`) and none is missing.
- *Paddock* (`PaddockInv`). Arrivals and departures add up to twice the number of
  horses exactly when all are gone (`TwoPerHorse`).
- *Race numbers* (`RacesInv`), and the *sleepers* of the five regions
  (`StableSleepers`, ...), each inductive with the types of the methods its
  clients are in.
- *Money* (`MoneyInv`, `WinnersInv`). A bet handed in is on a horse and no more
  than its spectator has (`PortionOfMoney`: a portion, rounded down); the list
  of winners is that of the last decided race for all who have yet to settle it.
- *The bookmaker.* A step of the simulation is booked as a step of `Bookmaker` or
  a stutter: the acceptance, the start and the report of the broker, the recording of a
  bet, a losing answer of `haveIWon`, the payment of `goCollectTheGains`; every
  other step leaves the mapped variables alone. It rests on all of the above
  except the paddock's count and the sleepers.
- *The stable* (`ArrivalsInv`). The stable has counted every batch so far and those
  of this one that came, and knows the race that was summoned last, so that the
  life cycles stay within the bounds its own specification gives its clients.

- *The betting centre* (`SafeInv`). The broker names winners only after it has
  accepted bets. With `BetsInv` (who is about to bet is not in the queue) and
  `HonourInv` (who is about to collect is a winner that has not been counted) the
  calls are those of the region's own specification. That one caps its safe, the
  code does not; so the theorem assumes that `moneyOnSafe` stays below the cap,
  which can be as high as one likes.

### The simulation when nobody is late

What holds of any delays holds here too (`TimelyIsSpec`), so the invariants above
are used throughout.

- *Appraisal* (`AppraisalInv`). The paddock's flag of the last departure is down
  only when all horses of this batch have left, or none has come yet. The
  assumption rules the second out for a spectator that goes and checks them.
- *Supervision* (`SupervisionInv`). Between the start and the report of a race the
  spectators may still be on their way to watch it, but all of them do once the first
  horse has told of its finish, and nobody leaves before the report. As soon as
  somebody watches, the finishers counted are the horses of the batch that have told
  of their finish, and flag and winner agree with the count: while nobody has
  finished, a reset is what the count should be anyhow. Before the race starts,
  whoever watches has found the counts reset, or has reset them. The broker finds a
  watcher when it comes to supervise, so that it does not take the flag of the last
  race for this one's. The invariant also implies that no horse of a reported race
  still runs (`EarlierAreAtRest`), on which the following rests.
- *Track* (`TrackInv`). A horse has a turn in the queue exactly from lining up to
  crossing the line; until the start positions and finishers are zero as soon as
  one has lined up; from then on all have lined up or finished, and the finishers
  counted are those that have. A new length can only be set while nobody
  runs. Lemmas about the queue (`TurnAdded`, `QueueGrows`, `QueueAdvances`) say
  whose turns an append and a rotation keep.
- *The meeting.* As for the bookmaker, each step is one of `RaceMeeting` or a
  stutter: the last departure from the paddock, the bets, the start, the
  finishes, the report. Its guards are the invariants: nobody bets before all have
  left (`AppraisalInv`), the winner is the first finisher from its finish to the report
  (`SupervisionInv`); before it, what `raceWinner` holds is left from the last race or
  reset, and not mapped.
- *Log: bets* (`CopyIsKept`). While a spectator is shown with a bet, its temporary
  record is the bet that the betting centre holds, and its record either that or
  cleared: the late `raceIsOver` clears the second only, and a line falls back
  on the first.
- *Log: runs* (`RecordsInv`). The late `raceIsOver` comes before the broker's
  next race starts, as the broker itself makes the request; therefore the
  records are clear then (`RecordsAreClear`). From the start to the report, the
  record of each horse that is not at rest is its position, between once and
  `horseAbility` times its moves (`RunIsRecorded`).
- *Log: places* (`FinishersAreFew`, `StandsAreFew`). Whatever the delays, from the
  first horse of a batch on the line no more are counted at the finish than have
  left the track: a late arrival can set the count back under a race, never
  ahead of it. So a place is never beyond the number of horses.

`SupervisionInv`, `TrackInv`, `AppraisalInv`, `CopyIsKept` and `RecordsInv` were
checked by TLC on small instances before they were proved. What the proofs showed:
the places of the log need no timing at all, and the records of the runs need the
broker's sequence of calls, not only their content.

### What stays with TLC

- Liveness (`EventCompletes`, `MeetingTakesItsCourse`, `StopsOnceCounted`,
  `AskersAreAnswered`): TLAPS has no rules for fairness and `ENABLED`.
- `StuckOnlyAtTheEnd` speaks of `ENABLED` too. What it says of the calls that fail
  is proved otherwise: nobody looks into an empty queue (`TrackInv`), and no
  ability is missing (`OddsOfTheRunners`).
- The three claims of section 4 are violated; there is nothing to prove.

## 6. What is not modelled

- *When a line of the log is printed and how*: `newSnapshot` suppresses lines
  before the first race until every horse is there (`wereWaitingTheHorses`) and
  lines equal to the last one; a report before the broker's first one throws
  (`GeneralInformationRepository.java:185`). Layout, headers and the file are
  output only.
- *Communications*: streams and serialization, and the failure of a host; what
  becomes of connections is in `Shutdown`, delays are everywhere.
- *Stale reads* of fields that are written without the lock their readers hold
  (`RacingTrack.race`, `shutdownArray`).
- *Console output, scripts and diagrams.* `docs/` and `docs_public/` hold the
  output of javadoc with its search scripts and two copies of jQuery; they are no
  part of the simulation, and no module maps them. The program is Java.

## 7. Plan

Done: the five regions, the composition, its safety, its two abstract
specifications and their refinements, timely completion, the log, the shutdown;
the proofs of the regions, of the shutdown, and of all the safety of the
simulation, with messages of any delay and with the timing its code relies on.

What a next step could add:

1. in the log, the suppression of lines before the first race and of equal
   lines (`newSnapshot`), as far as a property depends on it;
2. a relaxed memory for the two fields that are written without the lock their
   readers hold (`RacingTrack.race`, `shutdownArray`);
3. the liveness of single regions, as a chain of leads-to properties that a
   person can follow where TLC only answers yes.

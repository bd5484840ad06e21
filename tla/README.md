# Netrek server: verification notes

TLA+ models of the Netrek server (`netrek-server-vanilla-2.18.0`) and of its
client's half of the UDP link (`cow-client`), the TLC runs that check them on
small instances, and TLAPS proofs for every instance.

The server is a set of Unix processes over one shared-memory segment
(`include/struct.h`, `struct memory`): one `ntserv` per connected client and
one `daemon` that runs the frames of the game. There are two SysV semaphores,
`LOCK_PICKSLOT` and `LOCK_QUEUE_ADD`, each held around a few lines; everything
else is written with plain C stores. A client is removed by its own process, by
that process's SIGTERM handler, or by the daemon. The hard part of the server
is therefore not any one function but that several processes each keep a part
of the same bookkeeping: which process owns which player slot, which entry of
the waiting line, which docking bay, which torpedo. These four are modelled,
and three protocols in which state is kept twice and must be brought together
again: the switch of a client between TCP and UDP, the draft of a league game,
and the planets with the counts and clocks that decide the fall of a team. A
rule book is modelled too: who may join which team, and how that leads to
tournament mode.

## Inventory

| component | state | operations | who runs them | what makes it correct |
|---|---|---|---|---|
| player slots (`slotmaint.c`) | `players[].p_status`, `p_process`, `w_queue`; `queues[].enter_sem`, `free_slots` | `pickslot`, `freeslot` | ntserv, its signal handler, daemon | one owner for each slot; the slot of a dead process comes back; the counters agree with the slots |
| an ntserv's life (`main.c`, `input.c`) | its pid, its slot, its signal mask | connect, wait, claim, enter, exit, panic | ntserv | leaves its own slot, and only that one, behind |
| wait queues (`queue.c`, `findslot.c`) | `waiting[]`, `queues[].first/last/count` | `queue_add`, `queue_exit`, `queue_update`, `queues_purge` | ntserv, daemon | order of arrival; no lost entry; no lost process |
| docking bays (`bay.c`, `orbit.c`) | `p_bays[]`, `p_dock_with`, `p_dock_bay`, `PFDOCK`, `PFDOCKOK` | dock, release, release all, consistency check | the ship, the base, a third ship's tractor, daemon | the ship's and the base's records agree |
| torpedoes and plasmas (`torp.c`, `plasma.c`, `detonate.c`, `phaser.c`, `daemon.c`) | `torps[]`, `p_ntorp`, `p_nplasmatorp` | fire, turn off, detonate, deflect, move, explode, free | ntserv, daemon | the counts agree with `torps[]`; the unchecked search stays inside the player's own entries |
| life of a ship (`enter.c`, `death.c`, `daemon.c`) | `p_status`, timers | enter, explode, die, outfit, observe | ntserv, daemon | no state is overwritten by the other side |
| UDP link (`ntserv/socket.c`, `cow-client/socket.c`, `udpopt.c`) | mode, request and timer of the client, mode of ntserv, a UDP socket on each side | request, reply, verify, time out, reset | client, ntserv, network | a switch ends; both sides end in one mode on one connection |
| modes of the game (`daemon.c`) | `status->gameup`, `tourn` | t-mode, pause, conquest, shutdown | daemon | one mode at a time, and each ends |
| planets and conquest (`daemon.c`, `planet.c`, `conquer.c`, `coup.c`) | `planets[]`, `p_armies`, `te_plcount`, `te_surrender` | bomb, beam, populate, coup, surrender, genocide, parade | daemon, ntserv (coup) | owners agree with armies; the counts with the planets; no fall of a team goes unnoticed |
| team and ship choice (`getentry.c`, `getship.c`, `balance.c`) | masks, team counts | choose, balance | ntserv | limits per team and class; a choice for everybody |
| packets and updates (`socket.c`, `genspkt.c`, `redraw.c`) | last sent state | decode, encode, update | ntserv | the client sees the last state |
| messages, votes, commands | `messages[]`, `voting[]` | send, vote | ntserv, daemon | a vote counts once |
| league draft (`draft.c`, `robots/inl.c`, `inlcomm.c`) | `p_inl_draft`, `p_inl_captain`, `p_inl_pick` | begin, pick, pass, delegate, arrive, end | daemon, ntserv, league robot | captains alternate; a place for each pick; everybody gets home |
| statistics, player file (`ltd_stats.c`, `db.c`) | counters, a file | update, load, save | ntserv | totals |
| shared memory, semaphores (`openmem.c`) | the segment | attach, lock | all | mutual exclusion |
| newstartd, robots, tools, client | | accept and fork; play; edit | other programs | outside the shared bookkeeping |

How they meet: `newstartd` forks an ntserv for each connection; `findslot`
(waiting loop) calls `pickslot` (slots) and `queue_add`/`queue_exit` (queues);
the daemon calls `freeslot` and `queues_purge` for processes that are gone and
sends SIGTERM and SIGALRM; requests of a client run in its own ntserv and write
into the entries of other players (bays, torpedoes); the daemon writes into all
of them at every frame.

Hard behaviours: overlapping unlocked stores; a process dying at any step; a
signal that comes after what it is about has changed; a slot reused while others
still name its old owner; a count kept apart from what it counts; a reply that
comes after its request was given up.
`PROJECT.json` lists them as hazards, each at its line.

## Modules

| module | models | proofs |
|---|---|---|
| `Slots` | `slotmaint.c`, and what `main.c`, `input.c`, `socket.c`, `daemon.c`, `queue.c` do to a slot | `SlotsProofs` |
| `WaitQueue` | `queue.c` and the loop of `findslot.c` | `WaitQueueProofs` |
| `FifoLine` | abstract: a line for each queue, served from its head | |
| `Bays` | `bay.c` and every request that docks or releases | `BaysProofs` |
| `Torps` | `torp.c`, `plasma.c`, `detonate.c`, the plasma part of `phaser.c`, `udtorps()` | `TorpsProofs` |
| `UdpLink` | `handleUdpReq()` and the sockets of ntserv, `sendUdpReq()`, `handleUdpReply()` and the timer of the client, the network | `UdpLinkProofs` |
| `Draft` | `draft.c`, and the robot's commands that begin a draft and name captains | `DraftProofs` |
| `DraftTurns` | abstract: two teams that pick in turn | |
| `Planets` | `plfight()`, `beam()`, `PopPlanet()`, `udsurrend()`, `checkgen()`, `checkwin()`, `ghostmess()`, `coup()`, the end of the parade | `PlanetsProofs` |
| `TeamChoice` | `getEntry()` and `tournamentMask()` of every player, `enter()`, and the stages of T-mode in `move()` | `TeamChoiceProofs` |

An `MC` module instantiates each of them for TLC; `FifoLine` and `DraftTurns`
are instantiated by `WaitQueue` and `Draft`, which implement them.
Each definition is mapped to its source lines in `PROJECT.json`.

### Slots

Every load and store of shared memory that another actor can get between is a
step, with a program counter for each actor. `enter_sem--` is `SemLoad` and
`SemStore`; `scanqueue()` is `ScanSlot` over `Scan[q]`, the order in which it
tries the slots; the test and set under `LOCK_PICKSLOT` is `LockSlot`,
`TakeSlot`, `SetupSlot`; `freeslot()` is `FreeTest` to `ClearProcess`, run by
whoever called it. The daemon's visits are `Die`, `OutfitTimeout`, `PauseKill`,
`Reap` and `Purge`. `Crash` is any death without `exitGame()`; the kernel gives
back the semaphore then (`SEM_UNDO`) but not `enter_sem`.

Abstracted: `PALIVE`, `POBSERV`, `PEXPLODE` and `PDEAD` are `PLAY`;
`enter_sem` keeps whether it is 1, the only comparison made; the reasons of
`verboten()` are part of `Scan`. Bounds: `Busts`, how often the daemon frees a
slot under a living owner; each process connects once, as a pid does.
`Overlap = FALSE` lets one call of `pickslot()` or `freeslot()` run at a time.

- `SlotExclusive`: two living processes own one slot only after it was freed
  under one of them. The second look at `p_status` under the lock is what it
  takes; without it (the mutant) it fails.
- `DeadSlotReaped`: the slot of a process that died comes back, wherever in its
  life it died, also when its pid was never recorded or was overwritten.
- `SemGivenBack`, `NoCapacityLost`, `OwnerKnown` (calls one at a time):
  `enter_sem` is 1 when nobody is inside; `free_slots` is never below the number
  of slots that are not taken through that queue; the owner of a slot in use is the pid recorded in it.

With overlapping calls `SemGivenBack` fails (`Overlap = TRUE`, two processes and
two slots): both get past the test at once, a late store leaves `enter_sem` at 0
or below, and nobody is admitted from that queue again, although the comments of
`slotmaint.c:141-149` speak of an assertion and of giving back control.

The handler of SIGTERM is there from before the slot (`main.c:177`); `main()`
ignores every signal for a moment before each entry (`385-394`, `LoseTerm`).
Elsewhere a signal is delivered before `main()` goes on (`Ready`); in the middle
of `freeslot()` it may be later. `slots_copilot`: the SIGTERM sent after a
ghostbust reaches its process when the slot already has a new owner, and its
handler goes on to free it, though `p_process` is not its pid. With the test of
`exitGame()` (`main.c:500`) in `ForceShutdown` the property holds in this run.
`Panic`, the end in `input()`, makes no such test either; the property is not
about it.

### WaitQueue and FifoLine

Each store of `queue_add()` and `queue_exit()` and each step of
`queues_purge()` is an action; `queue_update()`, which only renumbers, and
`pickslot()`, which takes one of `room[q]`, are one step each. The walk of
`queue_update()` is `Reached`, the one sequence of entries in which each follows
from the one before (`IsWalk`) until the list ends or is damaged. `line` and
`admitted` are history variables, what the list should hold. `queues_purge()`
loads the pid of an entry and its successor (`PurgeEntry`), asks `kill()` about
that pid (`PurgeKill`) and removes the entry as it then finds it (`queue_exit()`);
processes come, go and take entries in between. With `Crashes` a process may die
at any step of a call, and the steps that are left are never taken. One such death
is not modelled: inside the few lines that hold `LOCK_QUEUE_ADD`, which are one
step.

- `EntryExclusive`, `EntryKept` (overlapping calls and deaths in them): one process
  for an entry, and a waiting process keeps it, whatever happens to the links.
  There is one exception, `robbed`: the process the purge looked at leaves and
  exits, another one takes its entry, and `kill()` answers for the earlier one,
  so that the purge removes the entry of a process that runs. That process finds
  it at its next pass (`findslot.c:167`, `LostEntry`) and goes to the end of the
  line; meanwhile the entry may have a second user. Without the exception TLC
  finds `EntryKept` violated, and `EntryExclusive` when the slots of the run are
  taken (`Room = 0`; a third process then queues up in time).
- `ListsHoldLines` (calls one at a time): following `next` from `first` gives
  exactly the line, `previous` mirrors it, and no entry in use is unreachable.
- `ServedInOrder`: WaitQueue implements `FifoLine`, by the refinement mapping
  that is the history variables and the queue a process came for: a slot of a
  queue goes to the head of the line of that queue, or to a newcomer for it when
  nobody waits there; who leaves, leaves the others in order.
- `EveryoneServed`: everyone who waits is served or leaves, also when others die
  in front of him, which needs `queues_purge()`.
- `NoListError` (calls one at a time): nobody who walks a list meets an entry
  that is not of the line. "All ERROR messages should never appear in the log
  file" (`queue.c:17`). With overlapping calls (`Overlap = TRUE`) TLC finds it
  violated: `queue_add()` links the entry before it fills it in, and a purge in
  between reports an error although no list is damaged.

The last four assume calls one at a time and nobody who dies inside one
(`Crashes = FALSE`); processes die as they sleep in line. Not modelled: the delays
before the line for banned and duplicate addresses, and closed queues (`QU_OPEN`),
which end in the same `queue_add()` or in exit; and a pid that the kernel gives to
another process, for which `kill()` would then answer.

### Bays

One step for a request. A ship's `PFDOCK`, `p_dock_with` and `p_dock_bay`
are one value, `berth`, because the last two are read under the first only; the
base's `p_bays` are `bays`. Range, teams, damage and fuel are left to choice.
`Orbit` makes the consistency check of every base it looks at (`Checked`), as
`bay_closest()` does, and clears `PFDOCK` without `bay_release()`, as
`orbit()` does.

- `HoldsBay`: a docked ship is in the bay it says, of a starbase in play.
- `NoBayLost`: a bay that names a ship which is not there is found out before
  anybody is refused for it.
- `ClosedIsEmpty`: a base that refuses docking has nobody docked with it.
- `bays_leave` (violation): the client of a starbase disconnects in play;
  `freeslot()` clears the slot but not the ships docked with it, who are then
  docked with its next owner. The other properties are checked and proved with
  `BaseLeaves = FALSE`, that is, apart from this way out.

### Torps

An entry is `<<"torp", p, i>>` or `<<"plasma", p, i>>`, in the layout of
`torps[]`. A request is one step and so is the daemon's work on one entry.
`Found` is the search as the code has it: the first free entry of the player,
or, when there is none, the entry just past his last (`Beyond`), the next
player's first torpedo or the first plasma. `Expire` counts the weapon off its
owner at that time, which for a plasma need not be who fired it.

- `Counted`: the two counts of a player are the numbers of his weapons in flight.
- `NoOverrun`: whoever may fire finds an entry of his own, so that `Beyond` is
  never used. The code relies on it without a test.
- `RejoinClean`: whoever chooses a ship has nothing in flight; this is why
  `enter()` may start the counts at 0.
- `DeadRejoins`: a dead player does not wait for ever for the counts to fall.

`Early` says what may happen to a player with weapons in flight: `"trade"`
(`change_team()`) or `"leave"` (`freeslot()`). The properties hold for
`Early = {}`. With `"trade"` and two torpedoes each TLC finds `NoOverrun`
violated: `change_team()` clears the counts (`util.c:351`), the player may fire
until his process sees that his ship explodes, and the search of `ntorp()` runs
past his last torpedo, into the next player's. It also lets him return before
"all in-flight weapons have ended" (`daemon.c:1028`). A slot that is freed with
weapons in flight lets its next owner start at 0, with the same effect. Not modelled: the parade after a
conquest, which uses the plasma entries as decoration, and sturgeon.

### UdpLink

The client asks by TCP for UDP and says where it listens; ntserv opens a socket
and answers by TCP; the client sends `COMM_VERIFY` by UDP, which puts ntserv in
UDP mode; the first datagram that comes back puts the client in UDP mode. With
`portSwap` (CONNMODE_PORT) the reply brings the port of ntserv; without it the
client waits for a first datagram and connects to where it came from. `client`
and `server` are records of the variables of the two `socket.c`; `requests` and
`replies` are what is on TCP, in order, `buf` what ntserv has not flushed yet;
`toServer` and `toClient` are the datagrams in flight, which are lost, overtake
one another, arrive at a later socket that has the port, or raise an error at
the sender when the port is closed (`Bounce`). A blocked read of ntserv
(`socket.c:908`) is modelled: `reported` is what `select()` said before the
request opened another socket.

With CONNMODE_PORT ntserv connects its socket when the first datagram comes, in
`doRead()`: `swap` is `portswapflags`, and `PortSwapDue` the test of
`socket.c:942`. The test does not ask which socket is being read, and
`closeUdpConn()` (`2485`) leaves `PORTSWAP_UDPRECEIVED`. So after a second request
any TCP data, a request (`ServerTcp`) or not (`ServerTcpData`), may be taken for the
first datagram: ntserv connects the TCP socket to an address that `recvfrom()`
does not fill in, which fails or disconnects the client, and `udpSock` is not
connected by the datagrams that follow. The verify then brings UDP mode
without a peer, and the next flush ends it. The history field `astray` says that
this has happened to the socket at hand. It is an error of the code that the
two properties below which it breaks except; without the exception TLC finds each
violated, in a trace of 16 states.

- `SwitchEnds`: a switch that was begun ends in one mode or the other. The timer
  is turned off by any reply, also a late one.
- `IdleAccepts`: when nothing is under way the user's next request is not taken
  for one in progress.
- `Recovers`: one request that nothing disturbs brings both sides to UDP on one
  connection, whatever each believed before. `clean` records that nothing did;
  the exception is `astray`.
- `ServerModeHasSocket`: ntserv in UDP mode has a socket to send to, and a connected
  one but for `astray`.

`MayFail` lets the socket calls of ntserv fail. With `TRUE` TLC finds
`IdleAccepts` violated: `SWITCH_DENIED` sets `commModeReq` to the mode the client
is in (`cow-client/socket.c:2959`), and when a denial of an older request comes
between a request for TCP and its answer, every later request is "in progress".
It also shows that "he obviously isn't connected to us" (`socket.c:2264`) is not
always so: a second request after a timeout of the client drops a connection
that the client has come to use; the request recovers it. Not modelled: fat and
double UDP, `COMM_MODE` and `COMM_UPDATE`, duplicated datagrams, the sequence
numbers.

### Draft and DraftTurns

`draft` is `p_inl_draft`, `captain` is `p_inl_captain`, `leader` the robot's own
record of the captains. A request of `inl_draft_select()` is `PassTurn`,
`PickPlayer` or `Delegate`, in the branches of the code; `inl_draft_update()` is
`Join`, `Arrival`, `Done` and `End`. Players connect, log in, enter, die, leave
and time out at any moment; a slot keeps the draft's fields of its last player,
as in the code, until `main.c:322` and `enter()` reset them.

- `TakeTurns`: Draft implements `DraftTurns`, in which the right to pick is with
  one team or nobody, a pick hands it over, and it comes back to a team only by
  its captain's arrival when nobody has it. `Turn` is the refinement mapping. This
  holds until a team has had two captains (`disputed`): `CAPTAIN` said by a
  teammate while the captain is dead removes him from the robot's record but
  leaves his flag (`inlcomm.c:785`, `Overthrow`), said again it makes a second
  captain, and `inl_draft_next()`, which goes by flags, can give one team the turn
  twice. Without the exception TLC finds that in ten states.
- `PlacesDistinct`: no two picks of a team have one place.
- `TeamedAtEnd`: nobody is on his way home, or there, without a team.
- `HomeEnds`: the draft does not stay in its last phase for ever.

Progress of the picking is not claimed: captains may do nothing, and a draft can
stall (`draft.c:574`). One way to that is a captain who leaves:
`player_maint()` (`inl.c:518`) clears the flag of `players[NONE]`, so that whoever
takes his slot has the flag until he logs in and may be handed the turn; when he
loses it both captains are down. Another is a captain who returns: he is pooled
with no team. Not modelled: `TRADE` and `UNCAPTAIN`, overlapping requests of two captains,
where ships are placed, the rank given to a pick, the draft of a pickup game.

### Planets

A step is the daemon's work on one ship or one planet, or a request. `owner` and
`armies` are the planets; `plcount` and `clock` are `te_plcount` and
`te_surrender`, kept apart from the planets and brought up to date by
`checkgen()` and `checkwin()` alone. `Garrison` is the 5 armies that a planet
keeps; `Unowned` the team that gets a system which nobody owns, since
`checkwin()` tests ORI first. `EndParade` resets the galaxy but not `te_plcount`.
`parade` is `"new"` for the rest of the frame in which `beam()` ends the game:
the other ships go on beaming, and planets grow and the minute passes
(`daemon.c:808`-812); from the next frame on everything waits (`Pause`). `Plague`
is the most that a plague kills, `(4499 + armies^2) / 4500`, which from 68 armies
on is more than one. `ArmiesAssumption` keeps planets at 4498 armies at most:
with 4499 a plague may leave a planet none, and its owner with it, and with more
a number below zero, which the code notes (`daemon.c:2666`) and does not prevent.

- `OwnedHasArmies`: an owner exactly as long as armies. `beam()` takes over a
  planet without armies without asking whose it was. It says nothing of planets
  with 4499 armies or more.
- `CountFresh`: while a team's clock runs `te_plcount` is the number of its
  planets.
- `Sustained`, `FallNoticed`: the clock starts at `surrenderStart` planets and
  stops at `SURREND` (`docs/players.CHANGES_bronco_old`), and who loses the last
  planet is out. All these are tests for equality.

`upset` says whether there was a coup, which gives a team its home planet back
without a count: `CountFresh` holds once the next count was made, `Sustained`
and `FallNoticed` for a game without coups. Each exception is needed: without it
TLC finds a coup that leaves the clock running with `SURREND` planets, or never
starts it. The documentation says that the clock starts in T-mode only; the code
starts it at any time and T-mode only lets it run. Not modelled: independents,
the league's rules, pre-T entertainment, the operator's parade, sturgeon, planets
that move, the animation of the parade, and a player who enters for a team
between its genocide and the end of his own choice of a team.

### TeamChoice

`getEntry(o, t)` is the moment in which the choice of team `t` by a player with
`p_team` `o` passes the test of the mask; `enter(o, t)` is the store of `p_team`
that the mask of everybody else counts. Between them others may be let through
(`entering`). `tournamentMask` is the code's, rule by rule: `Open` (full teams),
`Diagonals`, and `Crowded` before T-mode for a newcomer or `Unfair` for others,
with its early return for a team that has no planets. `Large` is what the loop
leaves in `large[0]` and `large[1]`, ties included. `Frame` is the stage of
T-mode; the stage `TS_BEGIN` falls through to `TS_TOURNAMENT` and is one with it,
and whether there are scummers is a choice.

- `NobodyShutOut`: whoever is asked for a team has one to choose, in every order
  of joining, dying, changing sides and falling. Excepted are newcomers without
  T-mode while two teams are crowded (`TwoCrowded`). Without the early return
  (the mutant) it fails.
- `KeepsPlace`: a player may stay in a team of two or more that has planets,
  full or not: the diagonal rule never turns him out.
- `DiagonalsApart`: diagonal teams do not both get two players.

`upset` is set when two players are on their way at once, or a team has fallen.
Two newcomers who are let through together can bring both diagonals to two; then
nobody is shut out, but the players of both may be told to change teams.
`NobodyShutOut` holds even so.

What the exception means depends on `TournPlayers`. With 4 (`TOURN=4` of
`sample_sysdef`) two crowded teams are a T-mode about to begin, or held back by
scummers. With the default of `data.c:124`, 5, they are not: at four against four
the large teams are closed to newcomers as crowded, the others as diagonals, and
T-mode, which would open them again, needs a fifth player in each. The theorem is
for both; the run has the first. `Fallen < 4`: somebody owns a planet. Not modelled: the choice
of a ship, observers, robots, the vote to balance, `CLASSICTOURN`, and the modes
and queues for which the mask is a constant.

## Runs

| run | instance | distinct states | shows |
|---|---|---|---|
| `slots` | 2 processes, 1 slot, 1 queue, overlapping calls, crashes, 1 bust | 195,000 | `TypeOK`, `SlotExclusive`, `DeadSlotReaped` |
| `slots_serial` | 3 processes, 2 slots, 2 queues that share them, 1 bust, calls one at a time | 690,000 | `SemGivenBack`, `NoCapacityLost`, `OwnerKnown` |
| `slots_copilot` | 2 processes, 2 slots, 1 bust | | `FreesOwnSlotOnly` violated |
| `waitqueue` | 3 processes, 2 queues, 2 entries, overlapping calls, deaths inside calls | 1,804,000 | `EntryExclusive`, `EntryKept` |
| `waitqueue_serial` | 4 processes, 2 queues, 3 entries, calls one at a time, fair | 234,000 | `TypeOK`, `ListsHoldLines`, `NoListError`, `ServedInOrder`, `EveryoneServed` |
| `bays` | 3 ships, 2 bays, bases may dock with bases | 725,000 | `HoldsBay`, `NoBayLost`, `ClosedIsEmpty` |
| `bays_leave` | the same, and a client may leave with ships docked | | `FreedSlotClean` violated |
| `torps` | 2 players, 1 torpedo and 1 plasma each, fair | 12,000 | `TypeOK`, `Counted`, `NoOverrun`, `RejoinClean`, `DeadRejoins` |
| `udplink` | 2 ports on each side, 3 requests of the user, 2 datagrams in flight each way, fair | 654,000 | `TypeOK`, `ServerModeHasSocket`, `IdleAccepts`, `Recovers`, `SwitchEnds` |
| `draft` | 4 players, 1 death or departure, 1 arrival, 1 draft, fair | 790,000 | `TypeOK`, `TeamedAtEnd`, `PlacesDistinct`, `TakeTurns`, `HomeEnds` |
| `planets` | 2 teams, of 2 planets and of 1, 2 ships, armies up to 3, a garrison of 2, a plague of up to 2 | 1,525,000 | `TypeOK`, `OwnedHasArmies`, `CountFresh`, `Sustained`, `FallNoticed` |
| `teamchoice` | 4 teams of 3 at most, 6 seats, 2 players who choose at one time, 1 team may fall | 575,000 | `TypeOK`, `DiagonalsApart`, `NobodyShutOut`, `KeepsPlace` |

Why these bounds are enough for the question asked. A race for a slot takes two
processes and one slot; the counters need a second queue over the same slots,
and a third process for a reuse after a reuse. A doubly linked list shows every
case of adding and removing (only, first, last, middle) with three entries; four
processes fill a pool of three and let one be refused. A docking involves a
ship, its base and a third ship that tows or is another base, which three ships
play in every role, and two bays let a stale bay differ from the right one. A
plasma has an owner and one who deflects it. One torpedo each keeps the
liveness check of `torps` short; its invariants also pass with two torpedoes
each (280,000 states), and are proved for any number. `TypeOK`,
`SlotExclusive`, `EntryExclusive`, `EntryKept`, `HoldsBay` and
`ClosedIsEmpty` are proved for any number too, and so are `NoBayLost`,
`SemGivenBack`, `NoCapacityLost` and `OwnerKnown`. A late reply needs two switches,
and a third to show what it does to the next; two ports let a socket be the old
one or another, and two datagrams let one overtake another. A draft needs two
captains and two to pick, one of whom may be a selector; one who leaves and one
who takes his slot, before or after he logs in, are the cases of a captain who
disappears. (Safety also passes with three players in two drafts.) On the planets, two teams are who
loses and who wins; one of two planets can fall to one and to none and regain all
three (`Surrend`), with `SurrenderStart` one and a state in between in which the
clock is suspended, and one of a single planet is destroyed at once; a garrison of
two takes all three ways below, at and above it, and a scale of five lets a plague
kill two of three armies, the most there are. `Hold`, `Surrend` and the other numbers are smaller than the
game's, whose values satisfy the same assumptions. In `teamchoice` two crowded
teams fill four of six seats and two full ones all, so that every rule of the
mask takes hold, alone and with each other; two who choose at one time show the
race. It also passes with teams of 4 and 8 seats, where a team can be two and more
ahead in T-mode (1,700,000 states), and with three who choose (3,100,000).

`CHECK_DEADLOCK FALSE` stands in the runs of `Slots`, `WaitQueue`, `UdpLink` and
`Draft`: each process connects once, an ntserv may end, deaths and requests are
bounded, and when all is over nothing is left to do. `Bays`, `Torps`, `Planets`
and `TeamChoice` never stop.

### Fairness

Only liveness properties use it, and it is stated for what the code runs again
and again, never for a player's decision to act, with one exception.

- `Slots`: the frame loop of the daemon visits every slot (`move()`), hence
  `Die`, `OutfitTimeout` and `Reap`, strong because a visit may find the slot in
  the middle of another process's call; a `freeslot()` that has begun goes on
  unless its process dies.
- `WaitQueue`: a waiting ntserv goes round its loop of a few seconds, and the
  daemon purges; both find the lists idle only now and then, hence strong
  fairness, of the waiting processes taken together: each has a finite number of
  steps when calls do not overlap. `Depart` is fair: players leave in the end. That
  is the exception; without it a full server serves nobody.
- `Torps`: the daemon moves every entry at each frame and a fuse burns down,
  an entry that was detonated explodes at the next, and an ntserv sees every
  update. A deflected plasma gets a longer fuse, so its fuse burns down only for
  an owner who keeps it: two players who deflect it for ever are not ruled out,
  and then neither of them is dead.

- `UdpLink`: both sides read what TCP brings; ntserv flushes at every update;
  the wait of `recvUdpConn()` ends; updates reach the client and run its timer
  down as long as ntserv lives and is not blocked; a blocked ntserv does not
  show up and the daemon ends it. Nothing is assumed of UDP or of the user.
- `Draft`: the daemon visits every ship and its ship gets where it is sent; who
  is asked for a name or a team answers or is timed out. Nothing is assumed of
  the captains.

## Proofs

All proofs are for arbitrary constants that satisfy the named assumptions.

| theorem | states | argument |
|---|---|---|
| `SlotsProofs!TypeCorrect` | `Spec => []TypeOK` | `TypeOK` needs that a process in the scan has a queue and a cursor inside `Scan`, and that whoever is inside `freeslot()` has a slot: `TInv` |
| `SlotsProofs!Exclusive` | `Spec => []SlotExclusive` | `SInv` adds who holds the lock, that a slot somebody owns is in use, that the slot about to be taken is free, and that a slot freed under its owner is recorded in `lost` |
| `SlotsProofs!OwnPid` | `OwnerKnown`, if `~Overlap` | `OInv`: one call runs at a time (`OneCall`), and the pid in a slot is that of its owner, of one who was evicted from it, or about to be stored |
| `SlotsProofs!ControlGivenBack`, `CapacityKept` | `SemGivenBack`, `NoCapacityLost`, if `~Overlap` and no process dies inside a call (`~Crashes`) | `EInv`: `enter_sem` is below 1 only while who lowered it is on the way to give it back. `FInv`: `free_slots` is at least the queue's maximum less the slots `Counted` against it, which are those in use, without the one whose decrement is still to come, with the one whose increment is |
| `WaitQueueProofs!EntriesExclusive`, `EntriesKept` | `EntryExclusive`, `EntryKept` | `~robbed => QInv`. `QInv` speaks of `inuse`, `process` and `w_queue` only: links may be damaged, and the purge follows them, but the process it asked `kill()` about is gone, and so, until somebody is robbed, is the one whose entry it removes |
| `WaitQueueProofs!TypeCorrect` | `TypeOK`, whatever the overlap | `TInv` adds where an actor is and what it then has in hand (a queue, an entry), and `ReachedIs`: the walk of `queue_update()` exists and is unique, so that its `CHOOSE` means what the loop of the code computes. Existence is from a longest walk, uniqueness from the least place where two differ |
| `WaitQueueProofs!NoErrors`, `ListsWhole` | `NoListError`, `ListsHoldLines`, if `~Overlap` and `~Crashes` | `GInv`, which adds to the two invariants above `SInv`, what every link is after every single store: the entries of a line are a function of its positions, `previous` mirrors `next`, and each program counter names the one or two links that are not yet, or no longer, so. For the purge it says which positions are still to visit and that `killcount` and they are together at most `MaxWaiting`; that a line fits the pool is a pigeonhole argument on the entries. `IdleCount`: the counter is zero between purges |
| `WaitQueueProofs!Refinement` | `Spec => ServedInOrder`, if `~Overlap` and `~Crashes` | under `GInv` each action is a step of `FifoLine` or leaves its variables alone: who is at `first` is the first of the line, who leaves is at one position only (`Distinct`) |
| `WaitQueueProofs!HeadMayMove` | `HeadHasTurn` (in no run): the safety half of `EveryoneServed`, if `~Overlap` and `~Crashes` | from `GInv`: when no call is at work a line is whole, so that its first entry is that of the head of the line, who is in the waiting loop and has his turn, or is dead and is the purge's to remove |
| `BaysProofs!DockedHoldsBay`, `ClosedBaseEmpty` | `HoldsBay`, `ClosedIsEmpty`, if `~BaseLeaves` | `BInv`, their conjunction with the type, is inductive: each needs the other, since a base releases its ships through its bays |
| `BaysProofs!BaysTypeOK`, `EveryBayCounted` | the types (proved, and in no run), `NoBayLost`, if `~BaseLeaves` | from `BInv` by counting: the bays that are not free once they are checked and the docked ships are in bijection |
| `TorpsProofs!CountsAgree`, `FindsOwnTorp`, `RejoinsClean`, `TypeCorrect` | `Counted`, `NoOverrun`, `RejoinClean`, `TypeOK`, if `Early = {}` | `TpInv`: the counts are cardinalities (finite sets, one element added, removed or moved at a time), torpedoes are in their owner's entries (`Placed`), and the players who are out have nothing in flight (`OutClean`). A player without a free entry then has `MaxTorp` torpedoes in flight |
| `UdpLinkProofs!UdpLinkTypeOK`, `ServerNeverMute`, `VerifyComesByUdp` | `TypeOK`, `ServerModeHasSocket`, and that `COMM_VERIFY` never comes by TCP | `IInv` adds the last, since ntserv takes the verify at its word, and that the client's port is known while a socket is open (`PortKnown`), since an error connects the socket to it again. A socket without a peer has the flag by which its first datagram connects it, and not yet the one that says it is, unless `astray` (`SwapKnown`) |
| `UdpLinkProofs!IdleMayAsk` | `IdleAccepts`, if `~MayFail` | `IdleInv`: TCP is in order, so what is under way there (requests, what ntserv has not flushed, replies) ends with the client's last wish for UDP or with an answer to it (`LastForUdp`); status and modes fit (`StatusFits`); and a client that a late `SWITCH_TCP_OK` put back into TCP mode while it wants UDP still has one answer to come (`AnswerComes`) |
| `UdpLinkProofs!SwitchNotStranded` | `NeverStranded` (in no run): the safety half of `SwitchEnds`, with or without `MayFail` | `EndsInv`: the same of a client that is asking or verifying (`LastForStatus`, `AskingFits`), and that where the timer is off, or does not matter, the answer is still to come (`StillComes`) |
| `UdpLinkProofs!RequestRecovers` | `Recovers`, with or without `MayFail` | `Undisturbed`: a request that nothing disturbed is in one of four stages (`Asked`, `Answered`, `Verifying`, `Switched`), each of which says where the sockets are connected and what is in flight between them; every step stays in a stage, goes to the next or counts as a disturbance; a request that has gone astray stays so, as long as it is undisturbed (`Astray`). `ClientSocket`: a client without a socket has no peer and no error |
| `DraftProofs!DraftTypeOK`, `HomeForEverybody`, `PicksApart` | `TypeOK`, `TeamedAtEnd`, `PlacesDistinct` | `IInv` is four parts: the type; `Order` (a captain's flag, state, team and queue agree, and while nothing is `disputed` a team has one captain and one captain is up); `Ends` (who has no team is in the pool, which is empty once the draft is done); `Places` (a picked player's place is below the count of his team, and places differ) |
| `DraftProofs!DraftRefines` | `Spec => TakeTurns` | under `IInv` each action is a step of `DraftTurns` or leaves `Turn` and `picks` alone; `OneUp` makes the turn of a team well defined; while no team has had two captains |
| `PlanetsProofs!PlanetsTypeOK`, `OwnersHaveArmies`, `ClockCountsRight`, `ClockStops` | `TypeOK`, `OwnedHasArmies`, `CountFresh`, `Sustained` | the four together are inductive: planets change hands one at a time, so that a count moves by one (lemmas on the cardinality of what a team owns; a surrender takes all, but stops the clock with it), and equality meets every number; a planet without armies is nobody's, so that a take-over takes from nobody. A plague spares an army (`PlagueSpares`), by `ArmiesAssumption` |
| `PlanetsProofs!FallsAreNoticed` | `Spec => FallNoticed` | from the same invariant, action by action |
| `TeamChoiceProofs!TeamChoiceTypeOK` | `TypeOK` | inductive: a step moves one player from one place to another (`SumInc`, `SumDec`, `SumMove`, `SumJoin`) |
| `TeamChoiceProofs!TeamChoiceApart`, `PlaceKept` | `DiagonalsApart`, `KeepsPlace` | `DInv`: while nothing is upset at most one player is on his way (`OneComing`), and the team he joins still has a diagonal below two (`MayCome`). Of any three teams two are diagonals, so that a team of two players is one of the two largest, to whose diagonals the rule applies (`TwoIsLarge`) |
| `TeamChoiceProofs!ChoiceLeft` | `NobodyShutOut` | from `TypeOK` alone, by cases on whether the two largest teams are diagonals: if they are, a third team is open, since three full teams have no seats (`ThirdOpen`); if not, the own one or the smaller of the two is (`SmallerOpen`) |

Every invariant that a passing run checks is proved, and every action property and
refinement. Only model-checked are the liveness properties (`DeadSlotReaped`,
`EveryoneServed`, `DeadRejoins`, `SwitchEnds`, `HomeEnds`): they depend on
fairness, so on `ENABLED`, which this prover does not reason about. Of two of
them the part that is not temporal is proved, that what would make progress is
never lost: `HeadMayMove` for `EveryoneServed`, `SwitchNotStranded` for
`SwitchEnds`.

## Not modelled

The robots but for the league's commands of a draft, the tools, the rest of the
X11 client and `newstartd` are other programs. Packet coding, text, statistics,
the player database and damage formulas belong to one process or to a file;
their loops are arithmetic over the fields of one player, which a test reaches.
Of the modes of the game the parade and the draft are modelled as far as
`Planets` and `Draft` need them, and T-mode in `TeamChoice`; the votes, pauses and
the shutdown of an empty game are not. Two things the present modules leave out are the overlap of
requests inside `Bays` and inside `Torps` (see the plan) and a process dying
inside `pickslot()`, whose effect on `enter_sem` is plain from the code: nobody
gives it back.

## Plan

In this order; each step brings its runs, mutants and, where given, theorems.
The planets, the draft, the UDP link and the choice of teams are done.

1. Finer `Torps`: `p_ntorp++` and `p_ntorp--` as loads and stores, and
   `detothers()` split into look and store. Question: which of `Counted`,
   `NoOverrun` and `DeadRejoins` survive a lost update.
2. Finer `Bays`: `dock()` split into the look (`bay_closest`) and the claim
   (`bay_claim`) that follows it. Question: what the consistency check repairs
   when two ships were given one bay.
3. `ShipLife`: `p_status` with the timers of the daemon and the stores of
   `enter()`, `death()` and the observer changes, composed with `Slots`.
4. `GameMode`: `status->gameup`, pause, and the timeline of
   `conquer.c` with the plasmas it borrows, composed with `Torps` and `Planets`.
5. Proofs: the safety halves of `DeadSlotReaped`, `DeadRejoins` and `HomeEnds`.

# A verification of B3

B3 (BigBrotherBot) administers game servers: it follows a server's log or
connection, keeps track of who is playing, looks up who may do what, and sends
kicks, bans and messages back. This directory holds TLA+ models of the parts in
which something can go wrong between two actors or over many steps, TLC runs over
small instances of them, and TLAPS proofs for instances of any size. Paths below
are relative to `src/src/b3/`; `PROJECT.json` maps every definition to its lines.

Contents: [the system](#the-system), [the modules](#the-modules-and-the-code),
[the runs](#the-runs), [the proofs](#the-proofs),
[disagreements with the code's own words](#disagreements-with-the-codes-own-words),
[what else was met](#what-else-was-met), [what is not modelled](#what-is-not-modelled),
[the plan](#the-plan).

## The system

One process, one asyncio loop. `cli.py:_run_live` polls the log source, feeds
each line to the bot and awaits it, ticks the scheduler and sleeps. The bot
(`runtime/bot.py`) hands a line to the parser of its game, which changes the
roster and publishes events; plugins handle events and commands and call the
bot's verbs. Three things run beside that loop, and most hazards come from them:
**asyncio tasks** (a status poll per joining player, events published in the
background, a web lookup that a handler waits for), **worker threads**
(`asyncio.to_thread`: reading a remote log, asking for a status table) and **the
game server**, whose log, table and ban list move on regardless. An operator's
commands (`b3 doctor`, `b3 plugins`, `b3 db`) change what the next start finds.

| Component | State it keeps | Operations | Talks to | What is hard | What makes it correct |
|---|---|---|---|---|---|
| AuthManager (`parsers/cod/auth.py`) | a task per slot | schedule, cancel, cancel_all, poll | parser, the bot's resolver | cancellation is a request; a cancelled task's `finally` runs after its successor is stored | remembers live polls only; every poll ends |
| Bot and Call of Duty parser (`runtime/bot.py`, `parsers/cod/parser.py`, `core/clients.py`) | clients by slot, their guid, record, `authed`, `rejected` | join, quit, chat, other lines, late answers, sync, ban, unban | log, RCON, storage | lines, polls and a stale table disagree about who is where; two spellings of a guid | nobody banned is admitted; a slot's client is one person; the roster converges |
| Parsers with identities in their lines (`parsers/source`, `altitude`, `ravaged`, `homefront`, `frostbite`, `battleye`, `frontline`) | clients by slot, name or guid | join, identity, leave, chat, team, kill, rename, roll call | connection | lines are lost while the bot is paused or cut off; slots and names change hands | nobody acts as another; the roster is the players |
| Quake 3 and Source RCON (`net/rcon.py`, `net/source.py`) | socket, timeout, cached status; connection, request number | write, command, get_status | server; loop and workers | a datagram names no question; threads share a socket; retries of what was done | a reply answers its own question; a map change is sent once; a bad password is refused once |
| Streams (`net/frostbite.py`, `homefront.py`, `frontline.py`, `ravaged.py`) and BattlEye (`net/battleye.py`) | buffers, sequence numbers, events, back-off | read_lines, command, write, reconnect | server | events and replies on one connection, acknowledgements, silence without goodbye | each event once and in order; back after a restart |
| Log sources (`net/logsource.py`) | offset, buffer, back-off | read_lines | a file, FTP, SFTP or HTTP | truncation, growth during a transfer, failure between three requests | every line once, whole, in order |
| Run loop, scheduler, event bus (`cli.py`, `core/scheduler.py`, `core/bus.py`) | schedules and when each last fired, background publishes | read, feed, drain, tick, stop | everything | an event that waits; events sent on meanwhile; a tick that is missed | nothing due or published is forgotten; the loop goes on |
| Penalties (`runtime/bot.py`, `storage/store.py`) | the penalties table; the server's ban list | ban, tempban, kick, warn, unban, enforcement | storage, server, clock | record and command are two steps over a lossy link; timed verbs are capped and rounded | a sentence is served, no longer and no shorter |
| Commands, plugin switching, match mode (`core/commands.py`, `core/plugin.py`, `plugins/cmdmanager`, `admin`) | registry, levels, aliases, stored overrides, what runs | register, alias, level, enable, disable, match on and off, restart | each other, in load order | several owners of one registry; stored rows meet a new load order | one word, one command; what an operator decided stays |
| Loading, installing, diagnosis (`core/pluginmgr.py`, `plugininstall.py`, `doctor.py`, `cli.py`, `storage/migrate.py`) | configuration, lockfile, directories, schema | load, start; install, update, enable, disable, remove; doctor, run, db | operator, disk, database | cycles; a kill between two writes; a check that is stale when the bot starts | dependencies first; records match the disk; what the doctor passed starts |
| Ranks and who is let in (`plugins/admin`, `login`; `geolocation`, `ipban`, `vpnblocker`, `banlist`, `netblocker`, `countryfilter`) | groups, masks, caches, lists | grants, login, register; address checks | storage, web service | a copy of a record written back; handlers go on after a wait | nobody rises by themself; whoever is listed does not stay |
| Justice (`plugins/tk`, `afk`, `makeroom`, `callvote`, warnings of `admin`, mutes of the bot) | points, deadlines, held slots, votes | event handlers, timers, commands | penalties, scheduler, server | deadlines that outlive their cause or their player; a kick that is not yet a departure | one punishment per cause; promises are kept |
| Teams (`plugins/poweradminurt`, `poweradminmoh`, `poweradminbfbc2`, `poweradminhf`, `poweradminbf3`, `duel`, `core/matchmode.py`) | locks, marks, plans, counts, readiness | balance, shuffle, swap, ready, duel | server | the bot's picture of the teams lags behind its own moves | even in the end, and nobody moved back for what the bot did |
| Orders and other duties (`poweradmin*`, `jumper`, `urtserversidedemo`, `spamcontrol`, `censor`, `pingwatch`, `nickreg`, `spree`) | pending orders, exclusions, demos, scores | commands, passes, timers | server | an order outlives the round, the plugin or the bot | what was announced is done once, and nothing held over |
| Storage, domain objects, configuration, text, other plugins | rows, files | | | text and queries | |

The hazards, each at its line and with the properties that cover it, are in
`PROJECT.json`. It holds the forty that bite hardest; those left out are named under
[what else was met](#what-else-was-met).

## The modules and the code

| Module | Models | Used by |
|---|---|---|
| `AuthTasks` | AuthManager | `Session`, `MCCore` |
| `RunLoop` | `_run_live`, `EventBus.publish_soon` and `drain`, `Scheduler.tick` | `MCCore` |
| `Penalties` | records, the server's list, enforcement | `MCCore`; refines `Sentences` |
| `Sentences` | abstract: sentences and who may come in | |
| `Session` | bot, Call of Duty parser and roster, with the server that seats players and writes the log; extends `AuthTasks`, whose steps are steps of the session | `MCSession`, `MCSettles`; refines `Admission` |
| `Admission` | abstract: nobody banned is admitted | |
| `Rcon`, `SourceRcon`, `Rosters` | `Q3RconClient` under threads; `SourceRcon`; the rosters of seven kinds of server | `MCReplies` |
| `LogTail`, `Streams` | `RemoteLogSource`; the Frostbite, Homefront, Frontline and Ravaged clients | `MCLines` |
| `BattlEye` | `BattleyeClient`: a reader, askers and the server's session | |
| `Commands` | registry, cmdmanager, plugin switching, match mode, restarts | `MCCommands`, `MCPlugins` |
| `TeamDamage`, `Afk`, `MakeRoom`, `CallVote`, `Warnings`, `Mutes` | tk, afk, makeroom, callvote, the warnings of admin, the mutes of the bot | `MCPlugins` |
| `Ranks`, `Gate`, `Conduct` | groups, masks and login; the six plugins that look at addresses; spamcontrol, censor, pingwatch, nickreg, spree | `MCPlugins` |
| `Referee`, `Jumper`, `Orders` | poweradminurt beside the teams; jumper and urtserversidedemo; what admins have the server do on five titles | `MCPlugins` |
| `Loading`, `Install`, `Doctor` | pluginmgr and start; plugininstall; doctor, `b3 run`, `b3 db` and the schema | `MCPlugins` |
| `UrtTeams`, `TeamBalance`, `Duels`, `ReadyUp` | teams of Urban Terror; of the Frostbite titles and Homefront; duel; matchmode | `MCSettles` |
| `MC*` | constants for TLC, and components that share nothing checked one at a time in one run | |
| `*_proofs`, end of `AuthTasks` | proofs | |

**Components side by side.** `MCCore`, `MCLines`, `MCReplies`, `MCPlugins` and
`MCSettles` hold components that do not interact. A constant variable `part` says which
one a behaviour is about; the others rest. Where parts have variables of different
names, some of them share one (the `WITH` of each `INSTANCE` names them). The state
space is the sum of the parts', and each property says of which part it speaks.

**Atomicity.** An action is what runs between two points at which something else
may run: two awaits for tasks (`AuthTasks`, `RunLoop`, `Gate`), two socket calls for
threads (`Rcon`, `BattlEye`), a whole line or sync for the run loop (`Session`,
`Rosters`), a whole chat command where nothing awaits (`Commands`, `Penalties`,
`Ranks`), one write to disk where the process can be killed after it (`Install`,
`Doctor`, `Jumper`, `Orders`), one of the three requests of a poll (`LogTail`).

**AuthTasks.** `registry` is `_tasks`, `phase` says at which await a task is
suspended, `doomed` is the set on which `cancel()` was called. `Cancelled` is the
`CancelledError` raised at that await; a task doomed before it started ends in
`Start` and never runs its `finally`. `Finish` is that `finally`: it clears the
slot whoever has it now.

**RunLoop.** `background` is the set of published tasks, each with how many more it will
publish; `Drained` is `drain`, which waits for those it finds and then for theirs. A
job fires at most once a second: `fired` stands for `_last_fired`.

**Session.** `seat` and `lines` are the server's; `table` is the status table a
query gets, which lags `seat` (a cached reply and a slow server). A client is the
record of what `domain/client.py` keeps and the properties distinguish. `Seen` is
`_get_or_create`, `Authenticate` is `_authenticate` with the ban lookup, `Resolve`
is `_on_resolved`, `Reconciled` is one slot of `_reconcile`. A ban sends its verb to
a *slot*; `Enforce` lets the server throw out whoever sits there now, or lose the
command. `Miss` is a line that was lost or read during `!pause`.

**Rosters.** A line carries slot, name and, on some titles, identity and team; `Miss`
loses one. Each parser's look-up (`SourceEnsure`, `RavagedEnsure`, `HomefrontEnsure`,
...) is an operator of its own, and `RollCall` is what each makes of a full list.

**Rcon.** A reply is a pair (which command, which attempt): the datagram itself does
not carry it, so only the properties look at it. `Clear`, `Discard`, `Discarded`,
`Listen`, `Receive`, `Quiet` are the socket calls of `_request`; `nonblocking` is the
timeout setting all threads share. **SourceRcon** numbers its requests, and `owed` is
what the server has still to send.

**Penalties.** `penalties` is the table, newest last; `serverBan` the server's own
list. `Connect` needs the server to let the player on; `Join` is `_authenticate` with
`_ban_in_force` and `enforce_ban`. What verbs a title has is in the constants
`Timed`, `Cap`, `ZeroIsForever`, `ByGuid`, `KickOnly`, `CanUnban`. `stuck` is a
history variable: an unban never reached the server, so its list is not the bot's
doing any more.

**LogTail.** Bytes are numbered as the server wrote them, across truncations, so
"handed over twice" is a fact about sets of bytes. `Measure` is `_size`, `Read` the
transfer, each with a failing twin; `Rest` is the buffer's incomplete line, `Kept` the
fragment dropped after a skip.

**BattlEye.** `Drain` and `MeetEvent` are the same datagram met by the reader and by
a thread that awaits a reply. `Collect` and `Return` are the two steps of
`lines, self._events = list(self._events), deque()`. The server side (`Push`,
`PushAgain`, `Restart`) is modelled from what the client must cope with and marked
external where it has no line. `Window` is `SEEN_WINDOW`, `Outrun` how many later
events may reach the bot before a copy of one does.

**Commands.** `registry` is the `CommandRegistry` as a record, so that `Register`,
`SetAlias` and `ApplyRow` are functions on it and a start of the bot is a fold over
the plugins in load order, then over the stored rows in any order (the query has no
ORDER BY).

**Plugins.** Each module's head says what is assumed and what is left out; its actions
carry the names of the handlers. A clock is a bounded counter where a deadline
matters, and "at any time" where only the order does (`Jumper`, `Referee`). What is
asked of the server is a set or a record that the server's actions work off later.

**Jumper.** A handler is a function from one `World` to another. What fails while it runs is the
`fate` of that world: the command, the answer with the demo's name, the stop, the deletion,
the look at the row of before. A row is written (`Write`) in a step of its own after the
handler that deleted the demo it replaces; before it, the bot may be killed or the row
refused (`WriteFails`). Three history variables keep what came of failures: `lost`, demos
whose name never came back or that nothing names any more; `stray`, who is recorded though
a stop was sent; `cut`, the rows that were to be written and were not.

**Orders.** Every command to the server may be lost or refused, and the bot, whose
`rcon_words` never raises, goes on as if it had not been (`Missed`). `gaps` is the history of
the lines of a file that did not arrive, in the file under way and in the one on the
server's disk.

**Doctor.** Whatever can be wrong with an installation is a member of `wrong`. The checks
of the doctor and the steps of the run each look at what the code looks at, which is not
always the same: `Unasked` is what only the run stumbles on, and the account on a Ravaged
server is wrong for one of them (`badUser`) or the other (`otherUser`).

The operators commented `Mutant:` or `A bug:` are not part of the models. Each is a
defective variant of the definition after it, kept so that every property can be shown
to fail when the code is wrong in that way.

## The runs

| Run | Asks | Bounds |
|---|---|---|
| `core` | polls under every order of join, rejoin, quit, answer and shutdown; the run loop gets done what is due and published; sentences against who is let in and the server's own list | 2 slots, 3 polls, 2 attempts; 2 jobs over 2 seconds, 2 lines, events that publish one more; 1 player, 2 records, lengths of 0, 1 and 3 minutes of 2 ticks, cap 2, lossy link |
| `session` | who is authenticated, as whom, on a title whose log spells players its own way; refinement of `Admission` | 2 slots, 2 players, 1 poll, 2 log lines, 2 unread, 1 lost; symmetric in slots |
| `settles` | the roster converges once nobody moves; duels are mutual; teams end up where promised; a match starts for those who agreed | 1 slot and 2 players; 3 players in duels and matches; 2 or 4 players in two teams, 3 or 2 lines unread, and players forced to a team or to spectate; each value is in `Settles.cfg` |
| `replies` | repeats, staleness, age of the cache, termination; the Source connection; who a line is about | 2 threads, 2 commands, 2 tries, 1 tick; 3 commands and 3 faults; 2 slots, 2 names, 2 people and an AI player, 2 lost lines, 7 titles |
| `lines` | lines whole, in order, none dropped, all arriving; the same over four kinds of connection, and no hammering with a bad password | 8 bytes in lines of 2, 1, 3 and 2, 2 truncations, 2 failures, skip above 2 bytes; a few events, faults and commands per title |
| `battleye` | events once, own replies, order, coming back up | 1 reader and 1 asker, 2 commands, 1 event, 1 fault, sequence numbers modulo 2 |
| `plugins` | fifteen components: what a word finds and what runs; promises kept; nothing without cause; order of loading and installing | per component, in `MCPlugins`: two or three players, one or two of each kind of list, a clock of a few ticks; of runs and demos, 1 player, 2 times, 2 demos at once, 2 lines unread and 1 order, no map cycled, and one thing failing in a step; of orders, 2 maps, a file of five lines sent three in a pass, and 1 command or answer lost |
| `session_unreadable`, `session_ban_follows`, `rcon_shared`, `commands_restart`, `afk_kicks` | violated: see [disagreements](#disagreements-with-the-codes-own-words) | as above |

**Why the bounds are enough to be interesting.** Each property is accompanied by a
variant of the code that breaks it under the same configuration (`mutants` in
`PROJECT.json`), one for each component a composed property speaks of, so every
property can fail within its bounds. What the bounds leave out is covered by proof where
the next section says so, and open elsewhere. In particular: `session` has one poll at
a time (two polls of one slot are part of `core`); `core` has one player because no
operation on penalties relates two; `battleye` has one event, so the duplicates TLC
sees are copies of that event, before and after a lost connection (the proof has any
number of events and any window).

**What is claimed with a condition.** `OwnReply` of `BattlEye` holds while the reader
and an asker take turns (`~overlap`); when they do overlap, the client's unlocked
fields break it, which is listed under hazards. `ServerKeepsToTheSentence` excludes a player
whose unban was lost. `DeliveredWhole` excludes the place where tailing began mid-line
or where a skip's transfer failed or held no newline. `ForgottenHasCause` states what
really holds of the registry: a live poll may be forgotten, but only through the
cleanup of a cancelled predecessor. `EachActsAsOneself` has two exceptions by title, and
`RosterIsTrue` holds once a roll call has made up for what was lost. `DemosAreKept` speaks of the
demos whose name the bot has and that it could delete, and of the records that stand; the
others are counted by `lost`, `stray` and `cut`. `FilesAreWhole` excludes the maps of a file whose own
lines were lost, and nothing else of it; `ExclusionsComeBack` a list whose reading, setting or
putting back was lost, or that a kill took. `DoctorIsRight` names what the doctor does
not look at, what it only warns of, and the account on a Ravaged server. Each exception is a
behaviour of the code, told under [what else was met](#what-else-was-met).

**Deadlock** is checked in `session`, its two violated runs, `battleye` and
`commands_restart`. Elsewhere a run ends where nobody has to do anything more: clocks,
commands, moves and faults are bounded, and the run loop of `core` really ends.

**Fairness.** Liveness is stated under the fairness of the code's own scheduling and
nothing else:
- `core`: every task step, as the event loop runs ready tasks and sleeps end; the steps
  of the run loop, its clock and the delivery of what was published; of penalties, that
  the log is read (strong for a join line, which a ban may throw off the server first),
  the clock runs, and players keep coming and do not stay for ever: the last is an
  assumption about people that "is let in again" is conditional on.
- `settles`: reading a line, the sync, the table catching up, the polls. No
  fairness on players, admins or losses.
- `replies`: every step of a request, as `recv` has a timeout.
- `lines`: polling and reading, and the clock.
- `battleye`: the reader's thread runs, and the clock; strong fairness of a login that
  is tried again and again, which says the server does come back. None on those who ask.

## The proofs

Checked by TLAPS from the modules' named assumptions on constants, for every value of
the constants: any number of slots, players, polls, threads, commands, events, records,
plugins. The bounds of the runs are constants too, so they are no limit either.

- **Polls** (at the end of `AuthTasks`: `AuthCorrect`). Types, `RegistryIsLive` and
  `ForgottenHasCause`. The inductive invariant `AuthInv` adds that a poll that will
  ask again has an attempt left (`AttemptLeft`, or the counter leaves its type) and
  that only polls that exist are doomed (`DoomedExist`, or a new poll could be born
  doomed).
- **Sessions** (in `Settles_proofs`: `SessionTyped`, `SessionCorrect`,
  `SessionRunsPolls`, `SessionAdmits`, `ClientsStayThemselves`). `Session` is a
  composition, so `SessionRunsPolls` shows first that each of its steps is a step of
  `AuthTasks` or leaves the polls alone, and the polls' invariant carries over.
  `SessionInv` adds `SoundRoster`: a confirmed or authenticated client has a guid of the
  status table, and its record is that guid's. `AuthedOnIdentity` alone is not
  inductive: a client that is *confirmed* but not yet authenticated would be
  authenticated under whatever guid it has. `SessionAdmits` is the refinement: the
  lemmas give, for each operator on clients, that the result stands `Justly` after
  what was in the slot, which is what a step of `Admission` asks for.
  `ClientsStayThemselves` is the action property `IdentityIsStable`.
- **Sentences, run loop and the core together** (`Core_proofs`). `SentencesKept` is the
  refinement of `Sentences`: the lemmas say what recording and lifting do to the set of
  ends of a player's sentences; a join that admits finds no active row, hence no
  sentence running. `ServerListFollows` needs `Keeps`: every entry of the server's list
  has a sentence on record behind it (`Backed`), unless an unban was lost. It is
  stated under `SaysWhatIsMeant` (the title has a timed ban, and one of 0 minutes is not
  read as a permanent one): without that it is false, and the titles for which it is
  are named [below](#what-else-was-met). `LinesSettle` proves of the run loop that the next
  line waits for the events of the last: outside the drain no event of a line is still
  being delivered (`LoopInv`). `CoreTyped` and `NothingIsForgotten` state the run's
  own properties from these; both assume that there is a slot, without which the
  type of the polls' slots is empty.
- **The two RCON clients** (`Replies_proofs`). `RconCorrect`: `NeverRepeated` and
  `NothingStale`. `OwnerInv` ties the number of sends to the attempts of the one thread
  that owns the command; `WireInv` says a datagram is either flying or in the socket and
  that nothing which waited when a request began is in either place once it listens.
  `AnswersBelong` adds `StatusIsRecent`, from `CacheInv` (a cached reply is dated when
  its command was asked; dating it when it came is the defect this excludes), and the
  Source client's `OwnReply`, from `ReplyInv`: what is still to come of the awaited
  reply, on the wire and in the server, goes on exactly where the packets that were read
  end, in order and with nothing of it twice, and no packet carries the number of a
  request to come. `PasswordRefusedOnce`: after the refusal the connection is closed,
  nothing is left to read from it and no other is opened (`RefusedInv`).
- **Rosters** (`Replies_proofs`: `EachPlayerIsThemselves`; `RepliesTyped` adds the types of
  the whole run), for all seven titles and any people, slots, names and lost lines. None
  of the three parts of `RostersAreTrue` is inductive: they look at the clients a line
  *would* find. `RosterInv` looks at the list instead. `Own`: under the slot or name of
  whoever was introduced is a client that is `Good` for them; it survives a departure that
  was lost because the line that introduces the next player looks at the identity
  (`EnsuredAbout`), except on Frontline and BattlEye, whose exceptions are in `Good`.
  `Present`: while nothing is astray the list is the players. `Homefront`, which keys on
  names and finds by identity, needs its own: no two clients have one identity, and a
  client is under its player's name unless that player has not been stated since. The
  lemmas say of one line read, whichever handler reads it, what becomes of all three
  (`OneRead`), and each action is one or two of them. Two facts about
  the constants are assumed: no slot is called nowhere and nobody has the empty identity.
- **BattlEye** (`BattlEye_proofs`: `BattlEyeTyped`, `EventsReachTheBotOnce`,
  `RepliesAreOnesOwn`, `ChatGoesOutInOrder`). The heart is `Remembered`: the window of
  sequence numbers stands for distinct events, and one that may come again has only
  near neighbours after it, so it cannot be pushed out while a copy of it is on its
  way. That needs a window of at least `2 * Outrun - 1`, since an event overtakes and is
  overtaken; the code's 16 is enough while an event is outrun by at most 7 later ones.
- **Loading** (`Plugins_proofs`: `PluginsStartAfterTheirNeeds`, `OnlyACycleIsRefused`,
  `PluginsAreOffForCause`), for every graph of requirements. `IInv` says of the
  scheduler of `order_names` that what is pending of each plugin is what it needs
  less what is placed. That some plugin comes first in the configuration, which the
  choice of the next one rests on, is proved from finite sets of numbers.
- **Plugins, one by one** (`Plugins_proofs`). Each is an instance of its module, for any
  values of its constants; the assumptions are that times, lengths and limits are numbers
  and those named here.
  - *Mutes* (`LongestMutesHold`). `MuteInv` ties the deadline of a slot to what its
    occupant was promised, and every silence to a deadline.
  - *Idleness* (`OnlyTheSilentAreKicked`). Who waits to be kicked was asked, and has given no
    sign of life since (`WaitedFor`).
  - *Warnings* (`WarningsBanForCause`). The warnings that are counted are no more than those
    given since the last were taken back, and a promised kick has `AlertAt` of them behind it.
    It assumes that `AlertAt` is at most `KickAt`, as the defaults have it.
  - *Votes* (`NoShieldedBanStays`), with no assumption. A ban that protection would lift is
    `Awaited`: the line that makes the bot lift it is still to be read. On Homefront that needs
    `InPairs`: nothing is cancelled there, so the line that ends a vote is read right after
    the one that called it, and finds that vote as the current one.
  - *Ranks* (`SuperadminsStay`, `NobodyRisesAlone`). "There is a superadmin" is not
    inductive, since a client written back whole can undo what a copy of its record was given.
    `RankInv` says that, with nobody to log in, some superadmin is `Anchored`: on record and,
    if they are here, as the client too. Nobody can act on that one. `NobodyRisesAlone` assumes
    a threshold above 0: at 0 the login plugin would make a regular of a user until they log in.
  - *Room for members* (`HeldSlotsAreFree`). Those who are settled (identified, no bots, not
    kicked) are no more than the hold lets be (`HoldsRight`), which is less than the server
    holds. Members who arrive give up the hold; others are within it or kicked.
  - *Timed runs* (`TheDemosAreKept`, `RecordsOnlyImprove`), for any number of players, where the
    run has one, and for any set of things that can fail in a step. `Sound` says whose each demo
    on disk is: a run's, a record's, a row's that is to be written, or nobody's and then
    something went wrong with it; no two own the same; what is recorded is a run's, or the
    stop of it was lost, or nobody was told its name; and what the log has still to tell is
    what the server did, so whoever is away is known to have gone once it is read. It has two
    parameters, the files that change hands in the middle of a handler and the records that do
    not stand, so that each handler is a chain of lemmas that keep it; a deletion that may fail
    (`IsPared`) takes a file from the first. Assumed: times are above 0, no file or map is
    called by one of the marks that say there is none.
  - *The referee of Urban Terror* (`TheRefereeIsFair`, `TheRefereeWaits`). For each order of slaps
    that is pending, those given and those left are no more than were asked (`Owed`), and
    who is struck is whom the order was for. Voting that is off for a round comes back a delay
    after the round's start (`VotingInv`). A player's changes of name are their own but one, and
    none before a name was seen (`NameInv`). A rotation was chosen by a number beyond the margin,
    on the side that chose it (`RotationInv`), so the way back is more than the margin; that needs
    the small limit to be no more than the medium one.
- **How players behave** (at the end of `Core_proofs`, with the sentences this leads to:
  `NobodyIsMistaken`, `NobodySuffersForOneDeed`). `MannersInv` has a part for each watch. *Spam*:
  with no message since the last penalty a player's points are none, or what a mute left, and a
  mute lasts until the dearest message cannot be too much (`SpamInv`, `AddedIs`). That
  needs a limit above 8 messages and a mute no shorter than the radio's falloff and twice the
  chat's; the defaults are 10, 60, 2 and 6.5 seconds. *Words*: the last mute is the ladder's step for the
  offence, and the ladder never descends. *Pings*: a bad spell has a reading in it. *Names*: whoever has
  another's name got it since they were last checked, and no longer than an interval before the
  last sweep or the last change of the map (`InTime`). *Sprees*: `SpreesAreTrue` is inductive,
  but to show it is the work: `WhatLasts` says how the events that nothing has come after change with
  one more event, `TheStoryGoesOn` says it of kills and deaths, and `WhatHappens` that every order of
  announcements does to the scores what the event does.
- **What admins order** (there too: `OrdersAreKept`, `NothingIsHeldOver`), for any rotation and any
  file that are not empty, any number of lines sent in a pass, and orders, losses and
  players without a bound. "All of it, in order, besides what was put in" (`Within`) is an
  embedding of one sequence in another, which composes, and which an insertion and what is
  appended keep (`WithinOn`, `WithinInserted`, `WithinJoined`). That the rotation on the disk
  is whole is not inductive: while a file is under way, the server's own rotation must be
  whole or have as much of the file as is sent (`Half`), or saving it would end the promise; it may
  be the old one too, from a server that was restarted between two passes, and each place of a map
  in the file that did not arrive is known for what it is (`GapsInv`). A pass that carries out
  several orders is a recursive function of the orders, and what it keeps is counted (`PassIs`).
  A slot that someone was told of is kept in the server's memory as well as on its disk, since the next
  change may not read the disk. That what was announced is forgotten where it should be is `OrdersInv`.
- **The books of team kills** (there too: `NoticesAreGiven`), for finitely many players, and any
  points, multipliers, limit and graces. Points are the number of single debts (`Dues`), so that
  who owes more can be read from sets. What forgives, halves, counts or clears is one relation:
  debts only fall, a name goes from the attacker's record only with the debt, and a notice ends only
  with the last victim (`WrittenOff`). `WritingOff` shows that this keeps all of `BooksInv`, even
  when the players differ before and after, which is how a leaver's record and the next
  occupant of the slot are dealt with. Only a hit adds to the debts, of one attacker (`Damaging`), and
  the check behind it (`Checked`) either gives notice or clears them. The type invariant is not
  inductive alone: that no debt passes twice the limit needs that nobody's points pass one and a
  half times (`Within`), and so the agreement of the two records.
- **Commands** (`Setup_proofs`: `CommandsCorrect`, `CommandsTyped`,
  `WordsAndAliasesAgree`, `SwitchedOffIsOff`). `Agrees` says that every word leads to a
  command that has it as its name or its alias, and every alias back to its own. A
  start of the bot registers the commands of each plugin in load order and puts the
  stored rows in any order, which the model writes as folds. That a fold keeps an invariant
  is induction over data: it is proved here from the library's well-foundedness of
  the numbers (`Smallest`, `Counting`), in first-order lemmas for each fold, as the induction
  theorems themselves take an operator as parameter and cannot be used. Registering
  needs more than `Agrees`: a command that its own name does not find must not be there
  yet (`Awaiting`), or its old alias would be left behind.
- **What a server is set up with** (`Setup_proofs`), instances as above.
  - *Installation* (`TheDirectoryIsTrue`). How far a command has come says what is on disk
    and on record of its plugin (`StageRight`); of a plugin that is at rest and that no command
    was killed on, a record means files (`RecordsTrue`), a row means a record or another
    server's removal (`RowsTrue`), and what is required is `Known`. It assumes that tags
    are numbers above 0 and that what a plugin requires can be named.
  - *The start* (`TheDoctorIsRight`), where the exceptions are named: what the doctor does not
    ask, what it only warns of, and the Ravaged account. A verdict stays what the state says (`Says`), since whatever
    changes that clears it, but for a command file's directory, which the start itself makes.
    What a start has been past is not wrong any more (`PastInv`), and tables without
    a stamp are there only between the two steps that make them (`SchemaInv`).
  - *Who is let in* (`TheGateIsKept`, `NobodyIsPutOutForNothing`). `GateInv` says of everyone on
    the roster what the property says of them once all is quiet, with what may still be to come
    in its place: an event that is queued or a question under way (`Followed`), a refresh
    (`OffTheList`), the event of a location (`FromElsewhere`), an answer (`NoProxy`). A question
    is asked only while its answer is not known and nobody waits for it (`AskedRight`). That
    whoever waits for one answer goes on in any order, and whoever is here is checked again in
    any order, are folds over finite sets; what they keep is proved by counting
    (`SetFolding`, `SetFoldKeeps`). It assumes that the players are finitely many and
    that the countries refused are told from addresses.
- **What settles** (`Settles_proofs`: `SettlesTyped`, `DuelsStayMutual`,
  `TeamsComeToRest`, `NothingUnasked`): the whole of the run `settles` except its
  liveness, for any players, games, paces, backlog of lines and quiet times.
  - *Teams.* Both modules have a server whose lines the bot reads later, and a bot that
    already counts by what it asked for. `TurfHeard` and `EvenHeard` say what connects
    the two at every moment: the last unread line about a player says where they are, or
    nothing about them is unread and the bot has them there. For the locks of Urban
    Terror that is not enough, since a line that says what the bot already believes
    raises no event and so puts nobody back: `TurfHeld` adds that whoever is locked and
    elsewhere has a last line which, where the lines before it will have left the bot's
    belief, is news (`Tidings`). A shuffle breaks it for the locked players it moves, and they
    are the exception of the property (`dealt`). For the other games `EvenCalm` says that
    while a line is unread that no player's own switch caused, the quiet time has
    not run out; it needs that a line is read within the quiet time (the guard of
    `Tick`) and that the quiet times are not 0.
  - *Duels.* `DuelInv` adds to the property that a pair who agreed is in a duel
    (`AgreedAreInDuels`). The lemmas are one for a duel that changes, one for duels
    that end and one for a duel that begins, and each handler is one of the three.
  - *Ready-up.* `MusterInv`: those a countdown counts for are here and ready, and it runs
    only while the plugin waits in a match.
  - *Rosters.* `SessionInv`, whose step lemma is cited.

- **Where lines come from** (`Lines_proofs`: `LinesTyped`, `LinesArriveAsWritten`,
  `StreamRepliesBelong`, `RefusedPasswordsRest`): the whole of the run `lines` except its
  liveness, for any log, gap, waits and numbers of truncations, events, commands and faults.
  The assumptions say that the bounds and sizes are numbers and that the first wait is no
  longer than the longest.
  - *The log.* "Each line whole" is not inductive, as nothing in it says what the buffer
    holds. `TailInv` adds that the buffer is the bytes from `s` up to where the tailer is,
    with no newline among them, `s` being where a line starts or where the tailer began
    to read without knowing one (`Holds`); that after a skip, until the transfer, it is
    empty; that what was handed over lies behind the tailer (`TailBehind`, which is why
    nothing comes twice); and that the tailer is past the end of the file only while
    a truncation is unnoticed (`TailPlace`), in which case the buffer is from a file that is gone.
  - *The connections.* `FlowInv` says of what is handed over and kept, one after the
    other, that it is in order, is exactly what was heard but for the notices, and is
    from before everything that is on the wire (`Before`, `Ahead`). So it does not matter
    where a read stops or whether a reply is awaited. `EventsIn` is a recursive function:
    that it is defined for a sequence of any length, and what it keeps of the order, is
    proved by counting, as for the folds of `Commands`.
  - *Refused passwords.* The time still to wait and the time gone by since the refusal are at least
    the longest wait (`RetriesInv`), and the refused client is not connected, so nothing
    shortens the wait.

**Only model-checked.** All liveness (the prover handles neither fairness nor ENABLED);
the composed properties of the run `plugins` (`PluginsTypeOK`, `PromisesHold`,
`NobodyIsOverlooked`, `NothingWithoutCause`, `PluginsInOrder`) as such: of the last four each part is
proved, but as a property of its own module and for any constants, not of the composition, and of the
first those of `Commands`, `TeamDamage`, `Jumper`, `Referee`, `Conduct` and `Orders`;
`FirstKeepsTheWord`, which several stored rows for
one word can break in states that the constants of the theorems allow.

## Disagreements with the code's own words

Five runs are expected to be violated: each states a sentence from the code's
comments, docstrings or documents, and TLC finds the code doing otherwise.

- `OwnAnswer` (`net/rcon.py:174-176`): two threads on one socket take each other's
  answers.
- `UnreadableDropsNobody` (`runtime/bot.py:1720`): the scheduled sync does not look at
  whether the table could be read, and an unreadable one empties the roster.
- `BanFollowsThePlayer` (`runtime/bot.py:1925`): a ban recorded before the status
  table has stated the identity is filed under the log's guid and not found again.
- `OverridesHold` (`plugins/cmdmanager/__init__.py:79`): overrides are applied to what
  had been registered by the time cmdmanager started, put on whichever command the
  word finds, in any order.
- `NeverBelowMinHumans` (`docs/plugins.md:168`): several players whose time is up in one
  pass are all kicked, for the roster counted again before each kick still holds those
  kicked an instant before.

## What else was met

Behaviours the models have because the code has them, where a comment or document
says otherwise or a reader would not expect them. No run is spent on them.

*Start and diagnosis.* `b3 doctor` does not look for a requirement that is not configured, a
plugin configured twice or a cycle, and takes a plugin's file that is no YAML, or that
`check_config` stumbles over, for one without problems (`core/doctor.py:787-792`); it says that
everything checks out, while `load_plugins` refuses or raises an error nobody catches
(`core/pluginmgr.py:149-151`, `163-177`, `192-199`). It logs in to a Ravaged server as "admin",
whatever `rcon_user` says (`core/doctor.py:476-481`; the run passes it on, `cli.py:382-385`): with
another account it fails where the run succeeds, and passes where that account does not
exist. For Frontline it passes it (`core/doctor.py:431`). A missing
`rcon_password` is a warning (`core/doctor.py:283`), and the start fails. The doctor's
database check creates and stamps before the schema check looks, so "unstamped" never
shows and a hand-made schema is stamped as the newest (`storage/store.py:44-57`).
Tables made and the process killed before the stamp are taken for newer than they
are. `start` looks for the wrong game before a Frostbite, Homefront or similar source
is open, so it can never stop there (`runtime/bot.py:561-613`). The systemd template
restarts always (`instance.py:106`), unlike `docs/deployment.md:178-180`.
`plugininstall.update` checks out the new version before it reads its manifest
(`core/plugininstall.py:486-521`), `remove` does not look at who needs the plugin, the
lockfile is rewritten in place and read without a lock, and the later of two copies of
a plugin wins where the log says the first does (`core/plugininstall.py:372`).

*Commands and ranks.* Giving a command its own name as alias and then another removes the
name (`core/commands.py:215`). login's demotion is written to the record by the next save of the
client (`plugins/login`, on_auth: "The database row is never changed by this"), so the
rank is lost and `!iamgod` may open again. The mask is stored but not loaded on
reconnecting, and written back as 0 (`docs/commands.md:157`). A command naming a
connected player by `@id` works on a copy that the next save overwrites.

*Penalties.* A title without a verb for a timed ban, or one that reads 0 as for ever given
a ban of 0 minutes, puts a permanent entry on the server's list for a timed sentence.

*Connections.* Ravaged never reconnects, and drops the events behind a reply in one chunk
(`net/ravaged.py:380-390`). A ping that fails on Homefront ends the run loop
(`net/homefront.py:246-251`). Source sends a command again that may have been carried
out (`net/source.py:257`). BattlEye's memory of 16 events
suffices while an event is outrun by at most 7 later ones; 8 would take one of 17.

*Rosters.* Frontline never compares the profile of a slot it knows
(`parsers/frontline/parser.py:275-287`); BattlEye keeps the first guid, a claimed one
included (`parsers/battleye/parser.py:91-98`); Source, Homefront and Altitude replace a
client without an event that it left; a client without a guid that was an AI player's
stays one; Ravaged and Altitude never take a player off whose leaving was missed.

*Who is let in.* Handlers after the wait of vpnblocker's lookup act on a slot number without
looking who is there now; vpnblocker itself does. An address learnt before
authentication makes a trusted player an untrusted one. geolocation never looks up a
changed address. An expired ban stays in ipban's cache for up to 15 seconds. Whoever moves
to another address and back before the events of both moves are handled is not looked at
again (`banlist/__init__.py:365-368`, `vpnblocker/__init__.py:354-356`: the address is the
one checked last), whatever the list or the service says of it by now; they are the
`returned` of `NobodyListedStays`. The attempt to prove that property showed it.

*Teams.* Shuffles move locked players; a balance put off to the round's end is carried out in
match mode (`plugins/poweradminurt/__init__.py:1319-1326`); Medal of Honor and Bad
Company 2 leave the mark of the bot's own move standing, and the next move by the player
passes for the bot's; Battlefield 3 undoes an admin's `!changeteam`.

*Orders.* Battlefield 3 and Black Ops keep delayed orders over a disable and carry them out when
switched on again, where the other three forget them; an order announced for a round
that ends meanwhile is carried out in the next; a server that restarts in the
middle of a file gets the rest appended to its old rotation; commands that were
refused or lost are reported as done. A line of a config file is taken off the list before it is
sent (`plugins/poweradminbf3/__init__.py:1214-1217`), so one lost `mapList.add` and a `mapList.save`
that arrives leave a rotation on disk without that map. The copy of the operator's
exclusions is dropped before the command that puts them back
(`plugins/poweradmincod7/__init__.py:436-437`): if that is lost, they are gone for good. Black Ops loses the operator's own exclusions on
`!restart` and `!die` too, not only when "killed".

*Demos.* The demo of a record is deleted before the row that replaces it is written
(`plugins/jumper/__init__.py:444-446`), and `!delrecord` deletes before its row (`703-711`): a kill or a
row that fails in between leaves a record without a demo. A demo whose name does not come
back is recorded and never stopped or deleted by the jumper (`391-396`); a stop is forgotten
whether it arrived or not (`plugins/urtserversidedemo/__init__.py:274-282`). Where the best time
cannot be read, the demo of the finished run is left.

*Duties.* `!pavote off` during the vote delay is undone when the delay ends; AI players are not
brought back when the same map is played again; a demo begun late from the waiting
list belongs to no run and is never stopped; spamcontrol's comment on halving does not hold
at its defaults; a high reading from before a map change counts.

*Hazards that are real and not among the forty listed:* `net/battleye.py:482`, `354` and `290`;
`net/homefront.py:248`; `net/ravaged.py:390` and `295`; `net/source.py:252` and `257`;
`core/scheduler.py:261`; `core/bus.py:122`; `core/commands.py:215`;
`core/plugininstall.py:505`; `runtime/bot.py:944` and `1746`;
`parsers/frontline/parser.py:195`; `net/frostbite.py:572`; `plugins/nickreg:241`;
`plugins/spree:287`; `plugins/poweradminurt:1213`.

## What is not modelled

`PROJECT.json` lists every component with its reason. In short: the reading and
writing of text (log lines, packets, messages, configuration), since the properties
are about who and when; queries and the database engine; an operator's dialogs; plugins
that do one thing on one event through a verb already modelled, and those that count and
report. Discord's queue (`plugins/discord`) is the one with state of its own that is
left: lines of a refused or rate-limited post are lost, and a post holds the run loop
up to ten seconds.

Inside the modelled components: userinfo and PunkBuster identification, AI players and
names (`Session`); notices to players (`Penalties`); decompression and opening
(`LogTail`); `remove_ban` and packet encoding (`BattlEye`); levels of players and grants
(`Commands`). Every module names at its head what it assumes.

## The plan

Done: the modules, runs and proofs above. Next, in this order:

1. Discord's queue, the settings of poweradminurt, PunkBuster identification.

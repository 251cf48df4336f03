# soju-webadmin in TLA+

soju-webadmin is a web interface for the soju IRC bouncer and, started with
`-watch`, a watcher that keeps soju's networks alive and the wanted nicks and
ops in place. Both are ordinary IRC clients of soju: neither reads soju's
database. This directory holds TLA+ modules that model the program, TLC
configurations that check them on small instances, and proofs that the TLA+
proof system checks.

Paths below are relative to the repository, which the map in `PROJECT.json`
calls `src/`.

## The system

| Part | Source | State it keeps | Operations | Talks to |
|---|---|---|---|---|
| watcher | `watch.go`, `main.go` | one JSON file per network (`watchState`), one pass in progress | `Run`, `checkNetwork`, `probe`, `repair`, `recoverNick`, `reconnectForNick`, `keepOps`, `loadState`, `saveState` | soju, over a control connection and one per network; the alert command; the policy |
| connection to soju | `client.go` | the socket, the channel `in`, the mutex `rmu`, `IsAdmin` | `dial`, `handshake`, `readLoop`, `Request`, `Await`, `Serv`, `AddNetwork`, `ChangeNetwork`, `DeleteNetwork`, lists | soju |
| sessions | `session.go` | the map of sessions; of each, the connection, `lastUsed`, a flash message, a mutex | `New`, `Get`, `Delete`, `Do`, `redial`, `close`, `reap` | the connection |
| request path | `server.go` | none of its own | `auth`, `login`, `logout`, `render`, `back` | sessions |
| pages | `server.go`, `client.go` | none: what they show and change is soju's | a handler per page: networks, channels, users, console | soju, through the session's connection |
| policy | `server.go`, `config.go` | the policy file | `watcherPolicy`, `watcherOpChannels`, `policySetKey`, `opRows`, `loadConfig`, `MergePolicy`, `NetworkSection` | written by the web interface, read by the watcher |
| state pages | `watch.go`, `server.go` | the watcher's log | `ReadStates`, `ReadLog`, `OpenLog`, `ProbeNetworks` | the state files |
| IRC syntax | `irc.go`, `client.go` | none | `parseMessage`, `formatMessage`, tags, `splitWords`, `servQuote` | soju, which reads what is written and writes what is read |
| configuration | `config.go`, `main.go` | none after the start | flags, permissions | |
| translations, templates | `i18n.go`, `locales`, `templates`, `static` | catalogs loaded once | `Pick`, `T` | |
| update script | `contrib` | a container image | pull, restart | Docker, systemd |

What makes it hard, and what each part has to get right:

- *Watcher.* Its memory is the files, its actions are in the world, and
  nothing makes the two change together: a crash or a failed save forgets what
  was just done. A pass meets networks that die, come back and rename us while
  it looks at them. It must find a zombie connection in the end, reconnect
  nothing that is alive, neither nag services nor give up on a nick, and in a
  rehearsal ask, but change nothing.
- *Connection.* One goroutine reads, others take turns at calling. Calls time
  out without the connection being closed, so replies arrive late; the channel
  drops what does not fit; the connection may break between any two lines. A
  call must not be answered with the replies to another, must end, and must
  not keep soju's PING from being answered.
- *Sessions.* Requests of one browser run at the same time, logout and the
  reaper take sessions away under them, and `Do` runs a command again when the
  connection turned out to be closed. No connection may be lost track of, no
  command repeated that was answered, nobody may wait for ever.
- *Policy.* A text is edited by line numbers, written in place without a lock
  by several administrators, and read by another process. What is in the file
  must be something the watcher takes, and a saved form must be in effect and
  change nothing else.

- *Pages.* A page is a copy of what soju had when it was loaded, and a handler
  that has only a network's id looks up the name first and sends a second
  command for that. Other tabs, other clients and the watcher change the same
  networks meanwhile. A deed must reach the network it was meant for and leave
  alone what nobody asked to change, and its outcome must be told.
- *IRC syntax.* What a user enters is quoted, escaped and split by four
  functions of two programs, which have to agree on every character.

`PROJECT.json` lists under `hazards` the lines where each of these bites.

## The modules

| Module | Models | Checked by |
|---|---|---|
| `Watch` | the watcher, soju and the networks as it sees them | `WatchSafety`, `WatchLive`, `WatchDryAlert` |
| `WatchProofs`, `WatchPaceProofs` | theorems about `Watch` | the proof system |
| `Rpc` | what a connection promises of a request: the abstract specification | as a property in `ClientSafety` |
| `Client` | one connection: `readLoop`, the calls, two FIFO streams, soju | `ClientSafety`, `ClientStale` |
| `ClientProofs` | theorems about `Client`, the refinement of `Rpc` among them | the proof system |
| `Connection` | how a connection comes about: `dial`, `handshake`, "user status", and then `Client` | `ConnectionLive` |
| `ConnectionProofs` | theorems about `Connection`, over the lemmas of `ClientProofs` | the proof system |
| `Session` | sessions, requests, the reaper | `Session`, `SessionIdle` |
| `SessionProofs` | theorems about `Session` | the proof system |
| `PolicyText` | a policy text: what it means over the watcher's own configuration, how a form shows and edits it | through `Policy` |
| `Policy` | administrators, the file, the watcher that reads it | `PolicySafety`, `PolicyStale` |
| `PolicyProofs` | theorems about `Policy` | the proof system |
| `Pages` | the pages of networks, tabs, the flash message, the watcher's writes beside them | `PagesSafety` |
| `PagesProofs` | theorems about `Pages` | the proof system |
| `Irc` | messages, tags and escapes, commands for BouncerServ and how they are split | through `Text` |
| `Languages` | the choice of a page's language | through `Text` |
| `WatchLog` | how the watcher's log is cut down and read | through `Text` |
| `Text` | every short text, header and log, and what becomes of it | `TextForms` |
| `TextProofs` | theorems about `Text`: commands, fields, languages and the log | the proof system |
| `MCWatch`, `MCClient`, `MCConnection`, `MCSession`, `MCPolicy`, `MCPages`, `MCText` | values of the constants | |

How they fit together: `Client` refines `Rpc`; `Connection` puts the login before
`Client`; `Session` uses of a connection
only what a call over it may end in (`Outcomes`), which are the ends `Client`
has: no error, an error of soju's, a timeout or a failed write ("error"), or
`errClosed`. `Watch` likewise uses of a connection that a command was sent or
not, answered or not, and carried out or not. `Policy` is read by `Watch` as the
constants `Skip`, `Reconnect`, `OpChannels` and `Cooldown`: the code reads the
policy once per process. `Pages` uses of a session that one handler at a time is
inside `Do` and that `Do` runs a function again at most once, and of a connection that
a command is carried out or not, and answered or not. A definition marked "Not the code" is a plausible
mistake in the definition that follows it; no behaviour of a module uses it.

### Watch

`pc` is the place in a pass: `Run` takes the list of connected networks
(`todo`), `Bind` begins a `checkNetwork`, `Silent` and `Answered` are the two
ends of `probe`, `Repair`, `RecoverNick`, `ReconnectForNick` and the loop of
`keepOps` are what follows, and `SaveState` ends it. `st` is the state in
memory and `disk` what `loadState` would find. `link`, `nick` and `ops` are the
world, which changes at any moment; `current` is the nick soju welcomed the
connection with, which may be out of date by the time it is used. A crash may
come anywhere; a save may fail, and may leave the file truncated, which
`loadState` reads as a new state.

Timestamps are ages in ticks, saturated at `Cooldown`, because the code only
asks whether less than the cooldown has passed, and a missing timestamp is as
good as an old one. `hist` and `opHist` record what really happened, for the
properties: the code's own counters are what is in doubt. They begin anew when
a nick or an op is lost in the world (`LostAnew`, `NoOpHist`), seen by the
watcher or not, and not where the code forgets its counters, which is where it
sees them in place. `keepOps` reads the clock once, and the answers to its
questions take time: `lag` is how old that reading is. `out` is what a step sends;
the questions, WHOIS and NAMES, are left out of it, and the AWAY that begins
each `checkNetwork`, in a dry run too, is not. `LastRepair`, which is
only shown, is left out, as is the wording of every line.

### Client and Rpc

The two directions of the connection are FIFO queues (`wire`, `pipe`), `in` is
the buffered channel, `lock` is `rmu`. A call goes through `Start`, `Lock`, the
drain, the command and (for `Request`) the PING, and then takes messages until
its end, its timeout or a closed channel. `Timeout` may happen at any moment of
the wait: how long 20 seconds are is not modelled. A write may fail over a dead
connection, and over one that soju takes nothing from until the write's deadline;
over a dead one it may also succeed, and be lost. Messages carry the number of
the call they belong to; where the code can tell (the nonce of a PONG, the
channel of a NAMES reply) the model looks at it, elsewhere only the properties
do. soju answers commands in order, once each, as the calls assume.

### Connection

`Connection` extends `Client` with the time before there is anything to call.
`stage` is what `dial` waits for: each loop of `handshake` is a stage, with an
action for the message it heeds (`ReadLS`, `ReadACK`, `ReadPrompt`, `Read903`,
`Read001`); what it does not wait for it skips, and `LoginPing` answers a PING
in all of them. `LoginFails` is the end of the stream and the deadline alike.
`Read001` hands the stream over: the handshake's reader goes, with any number of
messages it may have taken in already, the last of them perhaps in part, and the
PINGs among these are counted in `mislaid`. A connection for one network (`bound`) is then ready; for another
`Dial` makes the first call, "user status", whose end sets `isAdmin`. From the
hand-over on the actions are those of `Client`. What soju says in a login
(`LoginReplies`) is what `handshake` has a case for, and some messages it has
none for.

### Session

A critical section in which nothing blocks is one step, taken while the lock is
free; `Do` and the reaper's loop, which block with a lock held, are several.
`Fn` is the function `Do` runs, with every end `Client` allows and whether soju
carried out the command. The web server starts requests for any cookie, the one
of a session that is gone included. A request with kind "page" calls `Do`,
"plain" does not, "admin" asks `IsAdmin` first, "logout" ends the session.

### PolicyText and Policy

A text is a sequence of lines; a line is a header, a `key = value`, a comment or
blank line, or one the parser refuses. `Setting` is what `MergePolicy` takes for
a key, `Effective` what `NetworkSection` makes of it with `[network default]` and
the watcher's own configuration (`Own`), `OpRows` is the table the page shows, and
`SetKey` is `policySetKey`. `Truncate` and `Write` are the two halves of
`os.WriteFile`; a write may fail in the middle, also of a line (`Parts`: what is
left of a `key = value` is refused, or is a shorter value), and two writes may
run into each other. The pages' checks of who asks, and whether there is a policy at
all, come before anything these actions do. The watcher reads the file when it starts, once per process, either for
one pass (`-watch-once`) or for all.

### Pages

`nets` and `live` are soju's networks, by their ids. A tab (`tab[t].at`) is at a
page; it posts a form, waits for `Do`, is inside it (`list`: the handler calls
`Network(id)`; `command`: it sends its command), redirects (`back`), and loads
(`load`) and renders (`render`) the next page. `form` is the network as the page
showed it, `listed` as the handler found it, and a command goes by one or the
other, as the code does. `scan` is the listing a pass of the watcher works
with. `flash` is the session's slot. `Elsewhere` is everybody else. A call may
fail before or after soju carried it out, and `Do` runs its function again for
`errClosed`. soju may refuse any command; what it does with a name that is no
network's is taken from `locales/en.json:61`.

The attributes of a network are reduced to a name, a host, TLS, a password and
whether it is enabled; the port, nickname, username and realname are treated
like these by the code. Channels, SASL, certfp, users, the notice and the console
are commands that change no network; `userDelete` without a token shows a
confirmation instead of redirecting. A post to the pages of users by somebody who
is no administrator is answered with an error and goes no further; it is no step
of the model.

### Irc, Languages, WatchLog and Text

A text is a sequence of letters, and the functions of `irc.go`, `servQuote`, and
the parts of `ListNetworks`, `Channels` and `consoleRun` that read and write texts
are operators on those. `Text` has no program: its states are all texts within
the bounds, its properties relate the operators. soju is taken to read commands
as `splitWords` does (the console shows by it what soju would make of a command)
and messages by the protocol, where only a space ends a parameter (`SojuParse`).
`Languages` takes a header as a sequence of tags and weights, `WatchLog` a log as
letters and ends of lines.

## The runs

| Run | Question | Bounds |
|---|---|---|
| `WatchSafety` | Does the watcher keep its pace, spare what is alive, and leave no trace in a rehearsal, whatever the world does and whenever it crashes? | 1 network with `recover = reconnect`, 1 channel, cooldown of 2 ticks, real and dry passes, at most 2 crashes or failed saves |
| `WatchLive` | Does the escalation keep its pace and its order, is a zombie cleared, is a lost nick tried for again and again? | 1 network, cooldown of 2 ticks, at most 1 fault |
| `WatchDryAlert` | Does a dry run send no alert? (It does.) | 1 network, no faults |
| `ClientSafety` | Is a call answered after soju dealt with it, with its own replies? | 2 callers, 2 calls of any of 4 kinds, 1 unasked message, a channel of 2 places |
| `ConnectionLive` | Does a login keep its order and end, what makes an administrator, do calls end, are PINGs answered? | 1 caller, 2 calls ("user status" one of them, unless the connection is for one network), 1 PING or 1 broadcast at any time, a channel of 1 place |
| `ClientStale` | Does success mean success? (Not after a timeout.) | 1 caller, 2 calls |
| `Session` | Is every connection accounted for, is a command repeated only if its answer was lost, does every request and every round of the reaper end? | 2 requests at a time, 1 session, pages, admin pages and logouts |
| `SessionIdle` | Is only an unused session reaped? (No.) | 1 request, 1 session, every kind |
| `PolicySafety` | Is the file valid, is a saved form in effect, does it change nothing else, does saving it unchanged change nothing? | 2 administrators, 2 posts, every valid text of up to 3 lines, of a network and the default, that says nothing twice and begins with a header, and 3 longer ones, 4 posted texts, 4 forms, 1 failed write |
| `PolicyStale` | Does the next pass run on the saved policy? (No.) | 1 administrator, 1 post |
| `PagesSafety` | Does a deed reach its network, is an edit kept, is an outcome told? | 2 tabs of 1 session, 2 posts of 8 deeds, 2 networks and a third to create, 2 names, 2 hosts, 1 failed call, 1 change made elsewhere |
| `TextForms` | Is what is written read back, is the language the right one, does the log keep its end? | texts of up to 4 letters out of 11, headers of up to 3 preferences, logs of up to 9 letters with a bound of 6 |

Why the bounds are enough for the cases to happen:

- `Cooldown`: an escalation of three steps fits into a cooldown of 1 tick as
  well as of 2, since no tick need pass between passes; with 2, steps may also
  be at different distances from the pause. Passes, ticks and changes of the
  world are not bounded.
- `MaxFaults` 2 lets a fault hit the recovery from another.
- The channel of `Client` holds 256 messages; with 1 or 2 places it overflows
  with the replies of the two calls there are, and one call that timed out is
  what it takes for replies to be late.
- In `Session` two requests are enough for one to hold the lock the other waits
  for while the reaper waits too; requests, breaks and ticks are not bounded.
- One network is enough for `Watch` in the runs, because what networks could do
  to each other is to share a state, and `RepairNeedsTwoSilent`,
  `EscalationPaced`, `OpPaced` and `EscalationInOrder` are proved for every set
  of networks that do not.
- In `Policy` the first texts have a key in the section of a network, in the
  default, in both and in neither, before and after another key; the longer
  ones have two networks, a network in two places, and a key set to nothing.
  Forms add a second network. Two posts are the least that can interfere.
- In `Pages` the one network without a name is at a host that is the other's
  name, so that names can be mistaken for each other, and the network that is
  created takes a name that has become free. Two posts, a change elsewhere and a
  pass of the watcher are what it takes for a page and a listing to be old, and
  for a message to be replaced or shown in another tab.
- In `Text` four letters hold an escaped character beside a mark and a blank, or
  a quotation with something in it; nothing the functions do depends on more
  than two letters side by side.

`CHECK_DEADLOCK FALSE` stands in the runs of `Client` and `Connection`, whose
callers stop after `MaxCalls` and whose logins may fail for good, in
`PolicySafety`, whose administrators stop after `MaxSaves` and whose watcher
refuses a torn file, in `PagesSafety`, where there may be neither a network nor a
post left, and in `TextForms`, where texts stop growing. Everywhere else deadlock
is checked.

### Safety, in words

`EscalationPaced`, `OpPaced`: each time a nick, or an op, is lost, attempts at it
without a pause of the cooldown between them stay within the budget, plus one budget for
each lost save. A nick that is regained and lost again is a new loss, for which
the code begins anew at once, whatever the last attempt was (see below).
`EscalationInOrder`: recover comes after one attempt, identify
after two. `RepairNeedsTwoSilent`: a reconnect takes two silent probes in a row.
`DryRunChangesNothing`: no file changes, and nothing is sent but the questions
and AWAY; the alert is left to `WatchDryAlert`.

`VerdictFaithful`: what it returns is what soju decided, unless a reply of an
earlier call was on its way when it began, or a message was dropped.
`OpVerdictOfItsChannel`: not even then does NAMES answer for the wrong channel.
`ImplementsRpc`: whatever timed out before, a call that returns an answer returns
once, after soju dealt with it; this is what the nonce is for.

`PasswordOnRequest`: the password goes to nobody who has not offered SASL PLAIN
and asked. `RegisteredBeforeUse`: soju has taken the password and registered the
connection before any command reaches it. `AdminIsAdmin`: no timeout, dropped
message or broken connection makes an administrator; it takes soju's consent, or
a line of BouncerServ's that nobody asked for among the answers.

`OneConnection`: at most one open connection per session, and the session knows
it. `RunOnce`: a command is carried out twice only if the connection broke
between the two. `ClosedWithSession`: a session that left the store leaves no
connection behind, unless a request that had found it before calls `Do` after.

`FileValid`: a file that is the whole text of a save parses and sets nothing a
policy may not. `FormInEffect`, `OthersKept`: what a form says is what the
watcher goes by, a blank row included unless there is something for it to fall
back to, and the rest is as it was, if nobody interfered and the text said
nothing twice.
`ResaveHarmless`: the table of op-channels, saved as the page shows it, changes
nothing that is in effect.

`ActsOnItsNetwork`: a deed that goes by a name is done to the network whose page
asked for it, unless the name went astray (`Astray`: there is none, or the network
was renamed or deleted in between).
`EditsKept`: no other network changes, unless the name went astray; of the
network itself a field nobody asked to change only ever changes back to what it
was when the page was loaded or the networks were listed, a password never, and
only what was asked for is deleted. `OutcomeTold`: the outcome of a post is shown
at most once, and shown or replaced by the time its tab has a page.

`CommandCarried`: BouncerServ gets the words that were meant. `FieldsSurvive`:
soju gets a field of a form as it was entered, and the web interface gets
networks and channels as soju lists them. `LanguageChosen`: the reader's
language, else one that fits the browser's first that any fits, for the region
or for the language, else the instance's.
`LogTailKept`: cutting the log down loses old lines, no new ones and no parts of
lines. Each states its exceptions; they are listed below.

### Fairness

`Watch`: the timer (or `RunForever`) starts passes and a pass runs on, every
call in it having a time limit; time passes. Strong fairness is assumed of three
things the program does not control: a network can be bound again and again, so
in the end it is; a probe over a live connection is answered some time; soju
carries out a reconnect some time. Without them the watcher cannot do anything,
and the properties do not say otherwise. The probe of a zombie is never answered.

`Connection` (and with it `Client`): goroutines run, `Dial` makes its call, soju
takes the calls and PONGs it is sent. That soju goes on with a login, or answers
a call in time, is not assumed: the deadlines are what ends both.

`Session`: goroutines run, and `Dial` and calls have time limits. Strong
fairness stands for `sync.Mutex`, which hands itself over to a waiter that
starved for a millisecond, so that a lock that is free again and again is got.

## The proofs

Each component's theorems stand in a module of their own and hold for every
value of the constants that its assumption allows: any number of networks,
callers, calls, requests, sessions, tabs and faults, any size of the channel and
any cooldown or timeout. Every one is about the specification the runs check:
`Spec => []Inv`, `Spec => [][A]_vars`, or the refinement of `Rpc`. The invariants below were checked by TLC, on
the runs' instances, before they were proved.

### Watch (`WatchProofs`, `WatchPaceProofs`)

From `WatchAssumption` and, where it is said, `OwnFile`.

- `TypeCorrect`: `Spec => []TypeOK`. `TypeOK` says that no file holds two
  silences, which is not inductive: `CountInv` adds that the count in memory
  reaches 2 only at a repair, or in a dry pass on the way to the save it does
  not do.
- `TwoSilencesBeforeRepair`: `Spec => RepairNeedsTwoSilent`, if every network
  has a file of its own (`OwnFile`). `SilenceInv` relates the count the code
  keeps to the silences there really were: of the network being checked the
  count in memory is at most the silences, plus one after a fault; of every
  other network, and between passes, the count on file is. The network being
  checked is excepted because its file is out of date until the save.
- `AttemptsArePaced`, `RequestsForOpArePaced`, `StepsComeInOrder`:
  `EscalationPaced`, `OpPaced` and `EscalationInOrder`, each under `OwnFile`. The
  three rest on `LedgerInv`, which compares what a state says of the attempts at
  a nick (`NickStep`, `NickLast`) and of the requests for op (`OpLast`) with what
  really happened: as long as the nick, or the op, is lost, a state that knows the
  last attempt counts all but a budget
  for each fault, and one that does not know it is only possible if no more than
  that were made. While it is in place a state need say nothing (`KeepsNick`,
  `KeepsOps`), since what is forgotten then is not counted after the next loss. What is
  seen is not what is, however: over a connection welcomed with another nick
  attempts go on though the nick is back, and over one welcomed with the wanted
  nick the counters are cleared though it is lost again, which `Memory` accounts for. Again the state in memory counts for the network being
  checked, and the file for every other. That a state never says more than its
  budget, and that `recoverNick` and `reconnectForNick` each keep to their
  networks, are part of the invariant because a fault must not be forgiven more
  than one budget.
- `DryRunIsHarmless`: `Spec => DryRunChangesNothing`; no invariant is needed, as
  each action but those that send AWAY and the alert looks at `dry` itself.

The hypothesis `OwnFile` is not idle: `statePath` (`watch.go:560`) replaces
characters, and two networks whose names differ in one of those share a file.

### Client (`ClientProofs`)

From `ClientAssumption`. The invariant is `ClientInv(M, mis)`, for streams of
messages in `M`, of which `mis` PINGs went astray before the first call
(none in `Client`). Its parts: what each call is doing and in which order calls
are numbered (`CallsInv`, `BookInv`); how many PINGs are under way (`PingInv`);
that a command is on its way to soju once, with its PING behind it, and that soju
decides in that order (`WireInv`, `WrittenInv`); that every message under way
fits what soju decided on the call it belongs to (`FitInv`); that what a verdict
is drawn from arrives once (`OnceInv`); and, of a call that nothing stale was
in the way of, that what it has heard and has yet to hear is its own, in
order, the PONG last (`FaithInv`).

- `TypeCorrect`, `OpVerdicts`: `TypeOK` and `OpVerdictOfItsChannel`.
- `VerdictsFaithful`: `VerdictFaithful`, if soju sends no notices unasked
  (`"notice" \in Noises`) or nobody makes a call that reads notices (`Serv`).
  This is what the code needs too: a broadcast looks like a reply of
  BouncerServ's, and with both TLC finds the property violated.
- `RpcImplemented`: `Spec => ImplementsRpc`, the refinement of `Rpc`. A call is
  asked when it begins, decided by soju, and answered or given up when it
  returns; `BookSteps` shows every other step to be a stutter.

### Connection (`ConnectionProofs`)

From the same assumption. Every step of the login is a step of the streams, so
that `ClientInv` with `mis = mislaid` is kept by the lemmas of `ClientProofs` and
by those here for the login's own steps. `TurnInv` says whose turn it is: a
line of the login is on its way to soju, or the answer to it is on its way back,
or neither, never both; it is why no answer can be taken for that to an earlier
line. `ProgressInv` relates the stage to what soju did, `UnusedInv` says that no
call is made before the connection is handed over, and `StatusInv` that the first
call of a connection that is for no network is "user status", which is told what
soju decided.

- `ConnTypeCorrect`, `PasswordAsked`, `RegisteredFirst`: `ConnTypeOK`,
  `PasswordOnRequest`, `RegisteredBeforeUse`.
- `AdminsOnly`: `AdminIsAdmin`, whatever soju sends unasked: the verdict is
  drawn from lines that fit what soju decided, but for those that were overheard.

### Session (`SessionProofs`)

From `SessionAssumption`. `SessionInv` has a part for what requests share
(`SharedInv`), what each is doing (`RequestInv`), who holds which lock
(`LockInv`), that the session's connection is the open one (`ConnInv`), what
`Do` has run so far (`RunInv`), and that a connection outside the store is in
somebody's hands who will close it (`CloseInv`).

- `TypeCorrect`, `NoConnectionLost`, `RetriesAreSafe`,
  `ConnectionsEndWithSessions`: `TypeOK`, `OneConnection`, `RunOnce`,
  `ClosedWithSession`.

### Pages (`PagesProofs`)

From `PagesAssumption`, which says also that the first networks have names of
their own. `KnownInv` says what a handler may rely on: a network that is there
has all its attributes, a page with a form shows a network, and a command
for a name is sent with a network in hand. `MessageInv` is about the numbers of
posts: a handler's is its own, and neither in a slot nor shown; a page that is
loaded after a post finds its number in the slot of its session, or it was
shown; no two slots hold one number. `EffectIsProper` says of every command what
it may change.

- `TypeCorrect`: `TypeOK`.
- `DeedsReachTheirNetwork`: `ActsOnItsNetwork`; what it needs is that soju never
  has two networks of one name.
- `OthersEditsKept`: `EditsKept`. A command for a name reaches the network that has
  it (`NameReachesIts`), and that is the one that was listed unless the name went
  astray.
- `OutcomesAreTold`: `OutcomeTold`.

The lemmas before the theorems say what each operator returns; the proof that a
step preserves an invariant has a step, or a lemma, for every action.

### Policy (`PolicyProofs`)

From `PolicyAssumption`: there are finitely many networks, a form gives values
to some of them, texts are sequences of lines, and the first text is one the
program took before. `PolicyInv` is the inductive invariant: every text there
is, read, edited, on its way to the file or in the watcher, is a sequence of lines a
policy may have, and what is about to be written, what a whole file holds and
what the watcher runs on parses. `SaveInv` says what a request holds: the text it
makes of the one it read (`SetAll`), and, as long as nobody else touched the
file, the empty file between its truncation and its write, and the text it
wrote after.

What `SetKey` does to a text is one lemma, `SetKeyIsEdit`: it is an edit that
moves the lines of the old text, in their order, into the new one, leaves out or
adds at most the line of the key and its header, and moves each kept line into the
section it was in. From that alone follow that such an edit says nothing
twice (`EditedIsWellFormed`) and sets the key and nothing else
(`EditedSettings`). `SetAll` works a form into a text one network after the
other; it is a recursive function, and `SetAllInSteps` proves that this function
exists. What is said of its result is said by an induction over a set of
numbers (`UpTo`), which rests on the library's theorem that the naturals
are well-founded: that theorem takes a set, where the library's induction
principles take an operator.

- `TypeCorrect`, `WholeFilesAreValid`: `TypeOK` and `FileValid`.
- `FormsKeepTheRest`, `FormsTakeEffect`: `OthersKept` and `FormInEffect`, as the
  properties have it for saves that nobody interferes with and texts that say
  nothing twice; of a blank row, for networks that have nothing to fall back to.
- `TableMayBeResaved`: `ResaveHarmless`. The text may say things twice and hold a
  section in pieces, so that the lemmas about edits do not apply; `RowResaved`
  shows of one network after the other that the row and every setting stay.

### Text (`TextProofs`)

From `TextAssumption`, `LanguagesAssumption` and `WatchLogAssumption`. There is no
program in `Text`, so that the invariant, `TextInv`, only has the types; the
theorems are about the functions, for texts, headers and logs of any length and
any set of letters without an end of a line.

- `LanguagesFit`: `LanguageChosen`, with the exceptions it states. `SortedInv` is kept as the preferences are
  sorted in one after the other: what is sorted falls, and the first in it that
  there is a catalog for is the foremost of those so far. Stability of the
  sort is part of this, as of equal weights the first is to be taken.
- `CutLogsKeepTheirEnd`: `LogTailKept`. A log is cut behind an end of a line
  before its last line (`CutIs`), and what is split in two places is split in
  one and then in the other (`SplitBoth`).
- `CommandsGetThrough`: `CommandCarried`. `ServQuoteRead` shows that splitWords,
  between two words, reads what `servQuote` wrote as the one argument it was, for
  each of the cases of quoting; `CommandSplit` that it takes apart what was
  joined, and `CommandReceived` that soju's parser has the whole command as one
  parameter, with a colon in front or without. What was typed
  has only its own letters in the words splitWords finds (`TypedWords`), so that the
  same holds of them.
- `FieldsGetThrough`: `FieldsSurvive`. `ValueReadsBack`: unescaping undoes escaping,
  as each letter's escape is read as that letter, whatever stands before it.
  `TagsReadBack`: so do the tags, in whichever order the map is gone through, as
  no escaped value has a semicolon in it. `NetworkSent` and `NetworkListed`: the
  line that carries them has the words that were put in it (`ToldRead`), behind a
  prefix, behind tags and a prefix, or behind nothing (`PeelOff`). `StatusRead`: the last
  slash of a channel's line is the one in front of its network.

What the functions of `Irc` read letter by letter they read as walks: the state
after a text, `After`, is the state after its first part, gone on from with the
rest (`InParts`). And what holds of the empty text, and of one more letter
whenever it held, holds of every text (`OneByOne`). These two lemmas stand in for
induction over sequences, with a set in place of the predicate: the library's
theorem takes an operator, which the provers cannot instantiate.

### Only model-checked

Liveness (`ZombieCleared`, `NeverGivesUp`, `DialEnds`, `CallsEnd`,
`PingsAnswered`, `RequestsEnd`, `RoundsEnd`, `AbandonedReaped`), which the proof
system cannot do under fairness. All other properties of the passing runs, the
safety invariants, the action properties and the refinement of `Rpc`, are proved.

## Where the code and its documentation differ

Four runs show it, with a counterexample each; `findings` in `PROJECT.json`
quotes the lines.

- A dry run that comes to the third attempt runs the alert command
  (`WatchDryAlert`).
- A call that timed out leaves its reply in the way of the next one, which then
  takes an error for success (`ClientStale`). With `"notice"` among `Noises` a
  message that an administrator broadcasts through BouncerServ does the same.
- A session in use through pages that call no `Do` is closed as idle
  (`SessionIdle`).
- A watcher that runs for ever does not pick up a saved policy (`PolicyStale`).

Seen while modelling, without a run. The first four are at odds with what the
documentation says, and are stated as exceptions by the property that is nearest:

- `IsAdmin` may be true for somebody who is no administrator: a broadcast
  (`server.go:1018` sends such) that arrives while "user status" is awaited looks
  like a second line of the answer, and its "error:" is then no error
  (`client.go:92`, `395`). soju refuses such a session the commands for users, but the
  pages of the watcher go by `IsAdmin` alone and are about files beside the
  program (`server.go:634`, `710`, `757`): they would show the watcher's state and
  its log, and write the policy. "shown to admins only" (`locales/en.json:113`);
  "Admins only." (`README.md:70`). `AdminIsAdmin` excepts what is `Overheard`.
- A blank row of op-channels takes the key out of the network's section; that
  does not switch it off where `[network default]` or the watcher's own configuration
  sets it (`config.go:51`, `server.go:775`). "leave a network blank to switch it off"
  (`locales/en.json:128`). `FormInEffect` excepts it.
- Every reconnect, a watcher's or a user's, writes back the address that was
  listed before (`watch.go:234`, `326`, `server.go:877`), so that an address edited in
  between is undone; and if the network has no name, and goes by a host that is
  another's name, it is the other that gets the address and is reconnected
  (`client.go:411`). "Deletes nothing — just a short outage" (`locales/en.json:98`)
  leaves both out. `EditsKept` allows the first for host, port and TLS, and the
  second where the name went `Astray`; that a network without a name "may not
  resolve: give it one" is said in `README.md`.
- A browser's region is stripped before a catalog is looked for (`i18n.go:133`), so that a
  catalog like pt-BR is never chosen by a header, though a catalog is to be
  named "after the language tag" (`README.md:77`), and a weight of 0 counts as a
  preference. `LanguageChosen` excepts both.

The others:

- A network on SASL whose nick is regained, seen in place and lost again is reconnected
  again at once, though its last reconnect was less than a cooldown ago, and
  another escalation likewise begins anew, since seeing the nick in place clears `NickStep` and
  `NickLast` (`watch.go:171-174`). Op that is regained, seen and lost again is asked for again
  at once, as seeing it deletes the date of the last request (`watch.go:362`). "one step per
  pass, then an hour's pause" (`README.md:52`) is about one loss; `EscalationPaced`
  and `OpPaced` bound what is done about each.
- AWAY is sent to every network a pass checks, in a dry run too (`watch.go:151`).
- A connection to soju that breaks during a probe counts as a silence of the
  network (`watch.go:200`).
- The handshake and `readLoop` each have a `bufio.Reader` on the same stream
  (`client.go:119`, `247`). What soju sent together with 001 stays in the first
  and is lost; if there is a PING in it, nobody answers. `PingsAnswered` excepts
  those by `mislaid`.
- A refusal that comes before the last stage (a NICK in use, a mechanism that is
  refused before it is asked for) is skipped, and the login fails 30 seconds
  later with "soju closed the connection during login" (`client.go:120-128`).
- `IsAdmin` stays false for a connection whose "user status" timed out
  (`client.go:92`).
- The alert of the third attempt is sent without another look at the nick
  (`watch.go:309`).
- `LastRepair` is set though soju refused the reconnect (`watch.go:240`, `333`);
  the page shows it as "Last reconnect".
- A request that found its session before a logout, and calls `Do` after it,
  dials a connection that nobody closes (`session.go:144`); `ClosedWithSession`
  excepts it by `revived`.
- `Do` may carry a command out twice when the connection broke after soju had
  done it (`session.go:72`); `RunOnce` excepts it by `lost`.
- After a failed redial the session has no connection, and an administrator is
  answered "admin only" until a page that calls `Do` succeeds.
- The flash is one slot per session: a message may show in another tab, or
  replace one that was not seen; `OutcomeTold` allows both.
- A network's form sends all its fields, so that saving one reverts what
  somebody else changed in the others meanwhile (`server.go:410`).
- A network without a name goes by its host in commands that take a name, and
  another network of that name gets them (`client.go:411`).
- A creation that soju carried out before the connection broke is refused the
  second time `Do` runs it, if it has a name, and is then told as a failure; if
  it has none, it may be created twice (`server.go:359`).
- `servQuote` leaves an apostrophe alone and `splitWords` begins a quotation
  with it (`client.go:368`, `irc.go:171`), so that a word with an apostrophe and no blank
  does not arrive; `CommandCarried` excepts it.
- Parameters of a message end at any white space (`irc.go:61`): a tab, which tags do
  not escape, cuts a listed network off. A network with a slash in its name is
  taken for a shorter one by `Channels` (`client.go:548`). `FieldsSurvive` excepts both.
- A last line as long as half the log's bound is cut or lost (`watch.go:495`).
- A line `op-channels =` overrides the default with nothing; the table shows it
  as empty, and saving the table removes it, so that the default holds again.
  `ResaveHarmless` excepts it.
- `userDelete` takes the last word of soju's first line without looking whether
  there is one (`server.go:990`).
- Two administrators who save at once lose one of the saves, and a write that is
  interrupted leaves half a policy (`server.go:769`, `804`). `FormInEffect` and
  `OthersKept` are about saves without interference (`alone`).
- In a text that sets a key twice, `policySetKey` edits the first and
  `MergePolicy` takes the last, so a saved form is without effect; hence
  `WellFormed`. A header with more than one space is found by the reader and not
  by the editor.

## Not modelled

- `Users` and what channels and users there are: the pages that show and change
  these do it like those of networks, and no two of their commands depend on
  each other.
- `watcherCheck` and `ProbeNetworks`: one `Await` per network, on connections of
  their own, with the verdict shown and nothing kept.
- `ReadStates`: it reads what `Watch` writes and leaves out a file that does not
  parse. The web interface may read the state files and the log in the middle of
  a write, and two watchers may cut and append to one log: no property of the
  code speaks of either.
- Cookies, the CSRF check, `setLang`; flags, durations and file permissions,
  which are read once.
- The lookup of messages in catalogs and the filling in of their values;
  templates, style, scripts and the update script: presentation, or other
  programs' work.
- Collisions of `statePath`, whose consequences the hypothesis `OwnFile` of the
  proofs excludes; case, wherever names are compared without regard to it.

## Plan

No safety property, action property or refinement is left without a theorem. What
is left:

- abstract specifications of what the other components promise their callers, as
  `Rpc` is one of `Client`: of `Session`, one call per request, made again only
  when its connection was lost; of `Policy`, one file whose saves are
  all or nothing; each with its refinement checked and
  then proved step by step from the invariants there are;
- what the hypotheses leave out: without `OwnFile`, which networks an alert may
  be wrong about when two of them share a state file.

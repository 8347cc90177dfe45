# Formal models of the network programming servers

TLA+ models of the programs in this repository, TLC configurations that check
them on small instances, and TLAPS proofs of what holds on every instance.
Everything is translated from the sources; the assignments in the `doc`
directories are used only to judge what was found.

## 1. The system and its parts

The repository holds four assignments that build on each other.

| Part | Sources | State it keeps | Operations | Interacts with |
|---|---|---|---|---|
| npshell | `hw1/src/main.cpp`, `hw2/1/shell.cpp` | vector of numbered pipes, those due (`cur`), file table | one command line: built-in, command, pipeline, line with `\|N` or `!N` | its children through pipes, `fork`, `waitpid` |
| np_simple | `hw2/1/main.cpp` | none | accept, fork, wait | runs npshell on a socket |
| Remote working ground (np_single_proc) | `hw2/2/*` | `Client_Mananger`: `id_map`, the clients (number, name, PATH, numbered pipes), the table of user pipes; the environment of the one process | accept; one command line of one client: `setenv printenv exit who tell yell name`, commands, pipelines, numbered pipes, `<n`, `>n` | all users share the process; broadcasts |
| console.cgi | `hw3/src/cgi.cpp`, repeated in `hw3/src/main.cpp` (`shell_connect`) and `hw4/src/cgi.cpp` | per session: a file of commands, one buffer, a socket | resolve, connect, read, write, each with a completion handler | up to five remote shells; the browser's page |
| http_server | `hw3/src/echo_server.cpp`, `env.*`, `exe.*` | the peer of the last connection, in globals | accept, read a request, fork, exec a CGI program | browser, CGI programs |
| cgi_server | `hw3/src/main.cpp` | the above in one process | accept, serve the panel or the console | browser, remote shells |
| SOCKS server | `hw4/src/sock_server.*`, `socks.conf` | per connection a process: two sockets, two buffers, operations in flight | request, firewall, lookup, connect or bind and accept, relay | client, destination |

What is hard in them:

* **Shared state without a lock but with many hands.** In the working ground
  one user's logout frees a number that other users' pipes still name; who is
  logged in is kept in two places; one environment serves everybody.
* **Descriptors.** The shells close some descriptors twice and forget others;
  a number closed once may be something else by the second time. Every fork
  copies every end, so whether a reader sees the end of its input depends on
  closes made in processes that have nothing to do with it.
* **Countdowns.** `|N` means a later line; lines in between may open, share and
  finish other numbered pipes.
* **Asynchronous handlers.** The relay and the consoles are chains of reads and
  writes over reused buffers, with short writes, and with two lookups that run
  beside each other. The console decides what to do by looking for a `%`.
* **Forks of a server.** `http_server` has one environment and one pair of globals for
  the peer, forks in the middle of a handler, and each child inherits all
  open sockets. `cgi_server` runs a second event loop inside a handler.

What makes each part correct:

* working ground: the two records of who is logged in agree; names differ; a
  command runs with its own user's PATH; the table of user pipes changes by
  what is announced, has one entry per pair, and a refusal has its reason;
* npshell: a command reads what the line before it in the pipeline, or the
  lines whose `|N` counts down to it, wrote; nothing open is lost or leaked
  without bound; every line that is waited for ends;
* console: the page reads as if the commands had been typed; no command goes
  out twice, out of turn or before a `%`; sessions end;
* web servers: every browser gets the page of its own request, in order and whole, and
  is served however many others there are and however slowly they read;
* SOCKS server: only permitted destinations are connected and reported; each direction
  is a byte stream that is complete when its sender ends; sessions end.

`PROJECT.json` lists the hazards behind these points, at their lines.

## 2. The modules

| Module | What it models |
|---|---|
| `NumberPipes` | the vector of numbered pipes of one shell: countdown, removal, sharing (operators) |
| `UserPipes` | the table of user pipes, with the erase-while-walking loop of `free_user_pipe` (operators) |
| `Rwg` | the remote working ground; one action per command line (extends the two above) |
| `UserDirectory` | abstract: users under the smallest free number, unique names; `Rwg` implements it |
| `RwgProofs` | theorems about `Rwg` |
| `Filters` | the loop over a vector that keeps some of its elements (operator, used by the shells and in what is said of the console's pages) |
| `NpShell` | npshell's file table and command lines, for hw1 (`ReleaseEarly = TRUE`) and hw2/1 |
| `ShellIO` | the same lines seen as processes, pipe ends and blocking reads, writes and waits |
| `NpShellProofs` | theorems about `NpShell` |
| `ShellIOProofs` | theorems about `ShellIO` |
| `Firewall` | `firewall()` over the lines of `socks.conf` (operators) |
| `Socks` | one SOCKS session; one action per completion handler |
| `ByteStreams` | abstract: a sink is a growing prefix of its source; `Socks` implements it |
| `SocksProofs` | theorems about `Socks` |
| `Console` | the sessions of a console with their remote shells, reached directly or, in hw4, through a SOCKS server |
| `ConsoleProofs` | theorems about `Console` |
| `Connections` | browsers and the list of connections of an acceptor (used by the two servers below) |
| `HttpServer` | `http_server`: accept, read, environment, fork, and the children |
| `HttpServerProofs` | theorems about `HttpServer` |
| `CgiServer` | `cgi_server`: accept, read, the panel and the console inside the handler, writes that are taken late |
| `CgiServerProofs` | theorems about `CgiServer` |
| `Answers` | abstract: a page is a growing part of its own answer and ends when complete; both servers implement it |
| `Induction` | lemmas: induction over the natural numbers, and what it gives for folds over sequences |
| `MC*` | instances for TLC |

### How they correspond to the code

**Rwg.** A call of `shell()` runs one command line to its end before the select
loop looks at another socket, so each command line is one action: `SetEnv`,
`PrintEnv`, `ChangeName`, `Who`, `Tell`, `Yell`, `Command`, `Pipeline`,
`NumberedLine`, `Exit`, and `Login` for `Client_Mananger::add`. The variables
`id_map`, `total`, `id`, `name`, `env`, `number_pipe`, `user_pipe` are the fields of
`Client_Mananger` and `Client`; `environ` is the process environment. Every line
first installs its user's PATH (`EnvironOf`) and counts down (`Counting`).
Redirections are carried out in the order of the code: `In`/`Out` give what is
said, `Written`/`Read` what happens to the table. `said` and `served` record the
messages of the last call, `own`, `clock` and `stale` are auxiliary. The select
loop itself is not in the repository (the Makefile names a `test.cpp` that is not
there): which client is next is a free choice, and a connection is accepted
only when a number is free.

**NpShell.** A state is the shell between two lines: its file table, the waiting
numbered pipes and `cur`. A line is folded over its stages in program order
(`Stage`): open, fork, close, let go. A child's stdin and stdout are what `dup2`
finds in its copy of the table, so a descriptor closed too early shows up as the
wrong input. The close of `pi[-1][0]` at the first stage is a close of a number that
is no descriptor.

**ShellIO.** The same lines, but with the children as processes: `held` and
`child[c].holds` say who has which end, `waits` whom the shell waits for. A read
blocks while somebody could still write, a write while the pipe is full, and
SIGPIPE comes only when nobody could read. What commands do is one of four kinds; an unknown
command that is the last of several before `|N` goes on as a second shell (`Became`).
After `Exit` of the shell its children live on.

**Socks.** `flight` is the set of asynchronous operations that have been started;
each completion is an action that removes its operation and starts what its
handler starts. When nothing is left in flight the process ends. Class `server`
exits on a failed read, class `bind_session` closes both sockets and lets the
other operations fail (`Aborted`). The request is chosen freely: an address, a
name with what its two lookups find, BIND, or anything else.

**Console.** One operation per session is in flight (`op`). A read takes any
number of the pieces that have arrived, so a prompt may come with the output
before it or alone. The remote shell is external: it answers each line with its
output and a prompt. `through` chooses hw4's console: the handler of the lookup makes
the session, connects to the SOCKS server and waits for the reply (`op = "reply"`), and no
other handler runs meanwhile (`Free`); when that connection fails the exception ends the
process (`JoinFails`). The reply is not looked at: after a refusal the session starts to
read and finds the end of the connection.

**HttpServer.** `Accept`, `ReadDone` and `ReadFails` are the handlers of `do_accept` and
`do_read`. `ReadDone` sets the environment and forks; when there are already `MaxProc`
children the handler is left waiting (`forking`), all others with it, until `Reap`, which is
`waitpid` and the next `fork`. `Forks` is the parent's and the child's view of the fork: the
child gets the environment and every open socket (`has`), the parent closes its copy, its
`do_write` then fails and the session is gone. `Exec`, `Output` and `End` are steps of
the child. A browser sees the end of its page when nobody has its socket (`Over`).

**CgiServer.** `Writes` is a call of `async_write_some`: the browsers in `Slow` may have the
system take it later (`Taken`), and then it takes what is in the array by that time.
`buffer` holds what is in `data_` and each `data_b`. `ReadDone` is the handler of the
request; for a console it only begins there: `busy` says that its inner loop runs, `Output`
are steps of that loop, `ConsoleEnds` its return. How much a session of a console has to
show, and whether it ever ends, is `Console`'s matter and chosen with the request.

## 3. What the runs show

| Run | Question | Result |
|---|---|---|
| `rwg_pipes` | Three users, three sockets, up to three pipes, numbers handed on, `<1` and `>1` in texts: does the table do what is announced? | `IdsAgree`, `OnePipePerPair`, `AnnouncedUsersOnline`, `TableMovesAsAnnounced`, `RefusalsAreTrue`, `NeighboursNotBothLeft` hold |
| `rwg_users` | Two sockets, a name, two variables, two values, `\|1` and `\|2` | `TypeOK`, `NamesDiffer`, `OwnPath`, `CountsOnSchedule` hold; `Rwg` implements `UserDirectory` |
| `rwg_stale` | Are a user's pipes gone when the user is? | no: `PipesCloseWithUser` is violated |
| `shell_lines` | hw2/1, five lines of up to three commands, eight descriptors | `TypeOK`, `PendingIntact`, `OnTime`, `Joined`, `OneEndLeftAtMost` hold |
| `shell_early` | hw1, three lines | `Joined` is violated |
| `io_two` | three lines of up to two commands, any kinds of commands, the end of the shell | `TypeOK`, `FilterGetsAll`, `LineCompletes`, `ChildrenEnd` hold |
| `io_middle` | a line of three commands | `LineCompletes` is violated |
| `socks_relay` | any request, three bytes each way, buffers of two, whole writes | `TypeOK`, `CompleteAtEnd`, `PermittedOnly`, `RepliesAreTrue`, `RulesDecide`, `EndsAfterBoth` hold; `Socks` implements `ByteStreams` |
| `socks_short` | the same with short writes | `CompleteAtEnd` is violated |
| `console_pages` | two sessions, four files, replies cut anywhere, writes that may be cut, with and without a SOCKS server | `TypeOK`, `ReadsAsTyped`, `OnePerSign`, `EndsForAReason`, `SessionEnds` hold |
| `http_pages` | three browsers, two places for children, programs that end or stay | `TypeOK`, `PeerUnlessOvertaken`, `EveryoneAnswered` hold; `HttpServer` implements `Answers` |
| `cgi_pages` | three browsers, one slow, panels and consoles | `TypeOK`, `LateWrites`, `ServedInTurn` hold; `CgiServer` implements `Answers` for the others |

The four violations, each against a line of the assignment quoted in
`PROJECT.json`:

* **`free_user_pipe` skips an entry** (`hw2/2/client.cpp:97`). After an erase the
  index still advances, so a pipe of the departed user survives just behind one
  that was closed, and belongs to whoever gets the number next. It is no worse
  than that: of two neighbours one always goes (`NeighboursNotBothLeft`), and
  survivors never make a second pipe for one pair (`OnePipePerPair`).
* **hw1 closes a numbered pipe twice** (`hw1/src/main.cpp:376`). The descriptor of
  its write end has by then been given to the pipe between the line's own
  commands. hw2/1 lets go after the last stage, and there `Joined` holds.
* **A middle command keeps the read end of its own pipe** (`hw2/1/shell.cpp:299`),
  so it never gets SIGPIPE and the shell waits for ever.
* **Short writes are forgotten** (`hw4/src/sock_server.cpp:273`).

Three more weaknesses are not violations of a run but limits the properties state:

* **Any `%` is a prompt** (`hw3/src/cgi.cpp:119`), also one in a command's output, which lets the
  next line go before the prompt (NP_Project3_Spec_Part1.pdf:411, section 2.2, item 4, says "send
  them line-by-line whenever you receive a shell prompt"). Still, every line goes out once and in
  order, and only after a `%` of its own (`OnePerSign`).
* **REMOTE_ADDR and REMOTE_PORT may be somebody else's** (`hw3/src/echo_server.cpp:102`): two browsers
  that are accepted before the first one's request is read both get the second one's.
  `PeerUnlessOvertaken` says that this is the only way.
* **A page may never end although it is complete** (`hw3/src/echo_server.cpp:48`): a console
  started meanwhile has a copy of the socket. `EveryoneAnswered` says when.

### Bounds

* Users: three numbers and three pipes give `free_user_pipe` every pattern of neighbours
  (hit-hit, hit-miss, miss-hit, both ends), and a number passes from one user to another while
  a third one's pipe names it. Names, variables and numbered pipes need two users and their
  successors under the same numbers.
* Numbered pipes: N up to 2. In `rwg_users` any number of lines of two users that take
  turns, in `shell_lines` five lines of up to three commands: two waiting pipes of
  different counts, one shared, and a reader of several commands between them. Eight
  descriptors are enough for two waiting pipes and a pipeline, few enough that `pipe()` also
  fails.
* Pipes hold one chunk and a big command writes two: full, empty and blocked occur.
* Socks: three bytes and buffers of two need more than one round of each chain and
  a last, partly filled read.
* Console: files of up to four lines with plain, silent and `%` output, and one
  without an exit; `MaxJunk` stops the echo of such a file from going on for ever.
* Web servers: three browsers over two places for children: a request finds the places
  taken by zombies, by programs that run, by one that never ends and one that does. A console of
  two sessions with two pieces and one; every number of pieces may be left untaken.

In `rwg_users`, `shell_*`, `io_*`, `socks_*`, `console_*` and the web servers' runs deadlock is not an error:
`printenv` of an unset variable ends the server, and shells, sessions and consoles
end.

### Fairness

None for `Rwg` and `NpShell`, whose properties are safety: users type when they like.
In `ShellIO` each child and the return of `waitpid` are weakly fair: the kernel runs
what can run; users may stop typing. In `Socks` the handlers are weakly fair:
`io_service.run()` calls what has completed; the peers need not speak, and
`EndsAfterBoth` assumes that both have shut down. In `Console` the handlers
and the remote shells are weakly fair, per session: one `io_context` serves all in
turn; a shell that goes away is never fair; the SOCKS server answers or closes. In
`HttpServer` each handler, the return of `waitpid` when there is a zombie, and each child
are weakly fair, for the same reasons; in `CgiServer` the handlers of each browser's session
are. Nothing is assumed of browsers: they need not ask, nor read.

## 4. What is proved

Every theorem holds for all values of the constants that satisfy the module's assumption on
them; where one needs more, its statement says so.

### Induction over sequences

Much of the code is loops over vectors, and their models are folds. The provers cannot use
an induction theorem that takes a predicate as its parameter, so `Induction` states
induction with sets: a set of natural numbers that has 0, and with each number below `N` the next, has
all of `0..N` (`UpTo`), which follows from the library's theorem that `<` is well-founded.
A proof by induction defines the set of the steps after which something holds. From it:

* `FoldingExists`: the recursive function that `FoldLeft` is defined by does exist, so
* `FoldingWalks`: there is a function from `0..Len(seq)` that starts with the fold's first value, applies
  its operator once from each number to the next, and ends with what `FoldLeft` returns;
* `AmongLeaves`: `Among` keeps the wanted elements, in their order, each at a place of its own;
* `AmongJoin`: what it keeps of two sequences joined is what it keeps of each, joined.

The proofs below follow a loop along such a function.

### The working ground

`RwgProofs`, from `RwgAssumption`:

* `IdsAlwaysAgree`: `id_map` and `total` agree and numbers are unique; `NamesAlwaysDiffer`;
* `PathAlwaysOwn`: `OwnPath`;
* `DirectoryHolds`: every step of `Rwg` is a step or a stutter of `UserDirectory`;
* `PipesAlways`, and from it `PipesAlwaysOne`, `AnnouncedAlwaysOnline`, `TableAlwaysMoves`,
  `RefusalsAlwaysTrue` and `NeighboursNeverBothLeft`: all that the runs check of the user pipes;
* `NumbersAlways`, `CountsAlwaysOnSchedule`: of the numbered pipes;
* `ClientsAlwaysTyped`, `AlwaysTyped`: the types.

`IdsAgree` and `NamesDiffer` are inductive with `ClientsTypeOK`: a login needs a free
slot of `id_map`, which is a number nobody has only because the two agree.
`OwnPath` needs its first conjunct, which no single line shows: what a client's `env` holds
is what this client set, through other users' lines that overwrite `environ` in between.
The refinement maps the clients to a function from numbers to names, which is well
defined by `IdsAgree`; each of its steps is a lemma over one action.

The table of user pipes is a sequence without two entries for one pair (`PipesInv`). That makes
"the first entry that matches" the only one, so a read removes what it announced and
a write adds a pair that was not there. `free_user_pipe` is followed along its loop: after `n` turns
what is left is a selection of the table, and of each entry and the one behind it one has been
looked at. `NumbersInv` relates the counts of a client's numbered pipes to its own clock.

### npshell

`NpShellProofs`, from `NpShellAssumption`, for any file table size, lengths of lines and counts:

* `AlwaysTyped`: `TypeOK`;
* `PendingAlwaysIntact`, `AlwaysOnTime`: a waiting numbered pipe is open at both ends and
  nothing else has its descriptors, and a command finds exactly the lines that are due, for both
  programs;
* `AlwaysJoined`: under `~ReleaseEarly` (hw2/1) each command reads what the one before it wrote.
  For hw1 it is false (`shell_early`);
* `AlwaysOneEndLeftAtMost`: a line leaves at most one end open.

They rest on `WaitingInv`: the two ends of every waiting pipe are in the file table, apart from
the ends of the others, and its count and writers are those of its lines. The invariant holds as long
as `pipe()` has not failed and no built-in left a due pipe behind (`Sane`). A line is followed
stage by stage (`StagesWork`): between two stages the table holds, besides what waits, the two
ends of the last pipe and what was left open, and the read end of that pipe is what the
next stage's child finds as its input. A stage is eight changes of the file table, each with a lemma of
its own (`EndsAre`, `ShutIs`, `ForkedIs`, `ReleaseIs`).

`ShellIOProofs`, from `ShellIOAssumption`, for the same lines as processes, with commands of any kinds:

* `FilterAlwaysGetsAll`: `FilterGetsAll`;
* `AlwaysTyped`: `TypeOK`.

`FilterGetsAll` is about a write that finds nobody to read. It is not inductive: what excludes that
write is who holds which end. `IInv` says that the shell holds both ends of every numbered pipe
that waits, outside what it will close (`WaitsWell`); that every living child holds the ends it works
with (`HoldOwn`); that a waiting pipe has no reader yet and none of its writers got SIGPIPE
(`NotYetUsed`); and that a reader outlives its writers, since it ends only when nobody could write
(`ReadersStay`). A line adds children and pipes in a fold over its stages, which is followed
(`StagesWork`): the ends of the waiting pipes and the read end of the last stage's pipe are
never among those that a stage closes.

### The SOCKS server

`SocksProofs`, from `SocksAssumption`:

* `RepliesAlwaysTrue`, `AlwaysTyped`;
* `RulesAlwaysDecide`: `firewall()` permits a request exactly as the lines of the file say, by
  following its loop;
* `OnlyPermittedConnected`: under `LookupsAgree`, a name the connection's lookup finds is also
  found by the firewall's. Without it the property is false: a lookup that fails leaves
  the request unjudged (section 5);
* `AlwaysComplete`, `RelayIsStreams`: under `~ShortWrite`, whole writes. `socks_short` shows that
  they are false without it.

The invariant all but the rules rest on says which operations are in flight together
(`PhaseInv`): one that prepares the session, the two lookups, or operations of the
relay. A handler is a function of what it finds, so nothing is known of it
before that. `PermitInv` carries the verdict from the first lookup to the second; `StreamsInv`
says that what was read of a direction is what was delivered and what the array holds,
in that order, which makes a read after a whole write continue where the last one ended.

### The web servers

`HttpServerProofs`, for every set of browsers, limit of children and length of a page,
from `HttpAssumption`:

* `PeerIsOwn`: `PeerUnlessOvertaken`;
* `AlwaysTyped`: `TypeOK`, whose bound on the children needs that a child is made only
  below `MaxProc` and the cardinality lemmas of the library;
* `PagesAreAnswers`: every step is a step or a stutter of `Answers`.

What a page looks like (`PagesInv`) is known from the state of its child, and the child's
environment is its own request's only because nothing runs between the read and
a fork that had to wait (`LinksInv`).

`CgiServerProofs`, for every set of browsers and of slow ones, and any panel and consoles:

* `LateWritesStay`: `LateWrites`. The property alone is not inductive, because a
  late write shows what is in the array then. `ArrayInv` says what that is: the last piece that
  was written from the array, counted by how many were;
* `PagesAreAnswers`: the pages of the browsers that are not slow are those of `Answers`;
  `AlwaysTyped`. `AnswerInv` adds to `ArrayInv` that the pieces are
  sent once and in an order that fits the answer, how many of each source have been, and that a page
  is over only when all have.

### The console

`ConsoleProofs`, from `ConsoleAssumption`, for every set of sessions, any files and replies, with
short writes or without, and reached directly or through a SOCKS server:

* `EndsHaveReasons`: `EndsForAReason`. What is being written is the line `next` of the file or
  output, so an end after a write is an end after `exit`;
* `PagesReadAsTyped`: `ReadsAsTyped`;
* `LinesAlwaysPerSign`: `OnePerSign`;
* `AlwaysTyped`: `TypeOK`.

A handler changes one session, so the invariant of the last three (`ConsoleInv`) is a relation between the
values of one session, `Well`, and each handler and each step of the shell is a lemma about these values.
`Well` says that the lines on the page are the first `next` of the file and that there are
as many signs (`Counted`); that nothing is read or written after an `exit`, so what was read
never goes back to the shell of a file that has one (`Exiting`); and, when no output has a `%`, that the page,
followed by what is on its way from the shell or to it, is the conversation with the first lines of the file
(`Conversed`). The last is needed because a read may take the output before a prompt without the
prompt: then the page is a prefix of the conversation only together with what has not
been read. The conversation itself is a fold (`Told`) and is followed along its walk.

### Only model-checked

* The liveness properties `LineCompletes`, `EndsAfterBoth`, `SessionEnds`, `ChildrenEnd`,
  `EveryoneAnswered` and `ServedInTurn`: they need fairness and `ENABLED`, which are beyond the prover.
* The four violations are counterexamples on small instances and need no proof.


## 5. What is not modelled, and what was noticed

Not modelled: parsing and formatting (a line is its kind, a page its pieces), what
commands print, files written by `>`, and the listeners that keep no state (`hw2/1/main.cpp`,
which waits for each client's shell before it accepts the next, and the accept loop of
`socks_server`). Of `http_server`, what a child does whose `exec` fails: it goes on as a second
server on its parent's epoll set and meets events of objects it does not have, so anything
may follow (`hw3/src/exe.cpp:44`); the assignment names only programs that exist. Of both web
servers, a request that comes in several pieces: the parsers index lines that are not there.

Some behaviours are in the models and the properties say where they stop,
without a run of their own:

* a pipeline that reads a user's pipe to itself and writes it again deletes the new one
  (`hw2/2/shell.cpp:523`); `TableMovesAsAnnounced` leaves such pipes out;
* words `<n` in chat text announce a pipe as received and leave it (`hw2/2/cmd.cpp:47`);
* `setenv` of any variable overwrites the user's PATH (`hw2/2/cmd.cpp:138`), and variables other than
  PATH are everybody's; `OwnPath` is about users that set PATH only;
* `printenv` of an unset variable ends the working ground (`hw2/2/cmd.cpp:142`);
* a built-in line leaves a due pipe to the next line (`hw2/1/shell.cpp:121`); the properties of
  `NpShell` hold until then (`missed`);
* each pipeline leaves one read end open (`hw2/1/shell.cpp:274`), so the shell ends on a
  failed `pipe()` one day;
* the last command of a longer line `|N` keeps the read end of that pipe
  (`hw2/1/shell.cpp:247`), so a big one is never told that nobody reads (`ChildrenEnd` excepts it), and,
  when it is unknown, goes on as a second shell;
* a rejected SOCKS request gets no reply, an accepted BIND one instead of two; the end of
  one direction drops what was read of the other; no rule of the kind means permitted;
* of a named address only two octets are judged (`hw4/src/sock_server.cpp:158`), addresses like
  10.0.0.1 are taken for names (line 138), and when the firewall's lookup fails and the
  connection's does not, nothing is judged (the runs give both lookups one outcome);
* at the end of a file without `exit` the console sends output back to the shell
  (`hw3/src/cgi.cpp:140`).

## 6. Plan

Done, in this order: user pipes and the working ground with `UserDirectory`; numbered
pipes; npshell's descriptors; its processes; the SOCKS session with `ByteStreams` and the
firewall; the console; the proofs of section 4; the two web servers with `Answers`; hw4's
console through a SOCKS server; unknown commands and the end of the shell.

Then the theorems: of `SocksProofs`, `HttpServerProofs`, `CgiServerProofs` and `ConsoleProofs`; the
refinement of `Answers` by `CgiServer`; `Induction`, and with it the user pipes and numbered pipes of the
working ground, the firewall's rules, all properties of `NpShell`, what the console's pages show, and who holds which end in `ShellIO`.

Every safety property that a run checks is stated by a theorem now. Left to do:

* liveness stays with TLC; what of it is safety could be said separately, such as that no handler of
  the relay is ever lost, from `PhaseInv`;
* a refinement of `ShellIO` and `NpShell` by one another: both model the same lines, one by descriptors,
  one by ends, and the ends that a child has should be those its copy of the file table has.

Beyond that: a listener of `socks_server` with several sessions, which share nothing, would add
nothing; process limits in `ShellIO` would bound the zombies of `hw2/1/shell.cpp:97`.

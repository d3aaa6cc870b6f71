# tinyapps: a verification project

tinyapps is a collection of small programs: a client library and two clients
for the Music Player Daemon (MPD), a kernel installation script, a job runner
and some thirty smaller tools in C, shell and Perl.  There is no program that
ties them together.  The parts with state, ordering and failure in them are
modelled here in TLA+, model-checked with TLC, and the most important results
are proved with TLAPS for every value of the constants.

## 1. Inventory

| Component | State it keeps | Operations | What is hard | What makes it correct |
|---|---|---|---|---|
| libmpdclient: protocol (`libmpdclient.c`) | `doneProcessing`, `commandList`, `listOks`, `doneListOk`, `error`, the read buffer | `mpd_send*Command`, `mpd_sendCommandList*`, `mpd_getNext*`, `mpd_finishCommand`, `mpd_nextListOkCommand` | replies arrive late, in parts, not at all; `select` is interrupted by signals; errors end lists early | each reply line belongs to the command being read; `list_OK`s are counted exactly; every call returns |
| libmpdclient: connecting | `sock`, the address list, the welcome line | `mpd_newConnection` | several addresses, non-blocking `connect`, the welcome timeout | one connected socket or an error |
| libmpdclient: search builder | `request`, the search that is being built | `mpd_startSearch`, `mpd_addConstraintSearch`, `mpd_commitSearch`, the commands with arguments | other commands in between; room computed by hand | MPD reads the words that were meant |
| libmpdclient: parsers | the element read last | `mpd_getStatus`, `mpd_getStats`, `mpd_getNextInfoEntity`, ... | entity boundaries are only seen one element late | entities = the groups the server sent |
| mpd-show (`mpd-show.c`) | connection, cached song, formatted line, back-off, the `done` flag of the signal handlers | `connectToMPD`, `getSong`, `display`, `outputScrolled` | signals, reconnects, a song that changes between `status` and `currentsong` | shows the playing song; gives up on a signal; never reads outside the line |
| mpd-state (`mpd-state.c`) | the state text, the command list | print and restore | an error in the middle of a command list | restore(save(s)) = s |
| installkernel | the lock, `/boot`'s images and links, `/lib/modules` | build, `--su` child, install, tidy | two instances, signals and crashes between two renames, a child that shares the lock | one instance at a time; a bootable image at every moment; never removes what is linked |
| foreach (`foreach.c`) | value list, table of running children, exit code | `runCommands`, `run`, `reap` | completion order, failing forks, `-K` | at most `-j` jobs; every value once; exit code tells failures |
| tuptime | the log record on disk, the current uptime | one run per cron tick | reboots and crashes between two runs | total = sum of the uptimes |
| null / drun | parent, child, pipes | daemonise, wait | which exit status is passed on | exit status of the command |
| FvwmTransFocus | focused window, window properties | events from FVWM | partial reads, windows that vanish | only the focused window is opaque |
| cutcom | the state of an automaton | one character | nine tables that refer to each other | the program without its comments |
| tpwd | the directory, a variable's value and its name | `getpwd`, `shorten_pwd`, `output` | lengths and slashes; names that begin like the directory's | what is printed names the directory |
| arpping | the probe, the time that is left | send, wait, read | packets of others; answers that come late | an answer is not overlooked, and nothing else taken for one |
| gz2bz | files on the disk | decompress, compress, remove | one of several steps fails; two files with one target | data are never lost |
| rand-files, cdiff, load, timer, malloc | a few counters | one pass over the input | boundaries | not modelled |
| inplace, mp3rip, mnt, mountiso, virtman, check.sh, changelog | files, children | sequences of external commands | one step of several fails | not modelled |
| text filters, password generators, packaging, viewers | none | text in, text out | nothing that depends on order | not modelled |

The components interact only in the MPD programs: mpd-show and mpd-state call
libmpdclient, which talks over one TCP stream to MPD.  mpd-show's signal
handlers interrupt the library's `select`.

`PROJECT.json` lists every component with its status and every hazard with the
line where it bites.

## 2. Modules, and the code they stand for

| Module | Stands for | Kind |
|---|---|---|
| `MpdSession` | what a program may expect of a connection | abstract specification |
| `MpdConnection` | libmpdclient.c: sending, command lists, the reply reader | detailed; implements `MpdSession` |
| `MpdShow` | mpd-show.c: `main`, `connectToMPD`, `getSong`, `handleSignal` | a client of `MpdSession` |
| `MpdFormat` | mpd-show.c: `doFormat` and its helpers, and mpc's meaning of a format | operators |
| `MpdDisplay` | mpd-show.c: `display`, `output`, `outputScrolled` | state machine |
| `MpdState` | mpd-state.c: the three `print_*` functions and `restore` | state machine with MPD, the file and other clients |
| `WorkPool` | what a bounded pool of jobs promises | abstract specification |
| `Foreach` | foreach.c: `runCommands`, `run`, `reap` | detailed; implements `WorkPool` |
| `ForeachArgs` | foreach.c: `parseArgs`, `takeArguments`, `countProcessors` | state machine over an array |
| `InstallkernelLock` | installkernel: the lock, the handlers, the child run by `su` | state machine of several instances |
| `Installkernel` | installkernel: what one run after the other does to `/boot` | state machine over a disk |
| `MpdConnect` | libmpdclient.c: `mpd_newConnection`, `mpd_closeConnection` | state machine with whoever answers at an address |
| `MpdSearch` | libmpdclient.c: the request lines and the search builder; MPD's splitting of a line | state machine |
| `MpdEntities` | libmpdclient.c: the functions that make structures out of a reply | state machine over a reply |
| `TransFocus` | FvwmTransFocus.c, with the window manager | state machine |
| `NullDaemon` | null.c: the forks, descriptors and waits | up to three processes |
| `Tuptime` | tuptime.c with the scripts of its HOWTO | state machine with power failures |
| `CutCom` | cutcom.c | an automaton, and what it should do |
| `Tpwd` | tpwd.c | state machine |
| `Arpping` | arpping.c: probes, waits, packets | state machine with a network |
| `Gz2bz` | gz2bz: the loop over the files | state machine over a disk |
| `Tools` | `MpdConnect`, `TransFocus`, `NullDaemon`, `Tpwd`, `Arpping`, `Gz2bz`, `ForeachArgs`, one at a time | composition |
| `MoreTools` | `MpdSearch`, `MpdEntities`, `Tuptime`, `CutCom`, `MpdState`, which are about sequences, one at a time | composition |
| `MCTools` | constants for TLC; a program of `Tools` or one of `MoreTools` | composition |
| `MCForeach` | `Foreach` as a shell runs it, with a child inherited, and with `SIGCHLD` ignored | composition |
| `MCInstallkernel` | constants for TLC | |
| `MCMpdDisplay` | constants for TLC; the lines `MpdDisplay` shows are those `MpdFormat` makes of three songs | composition |
| `*_proofs` | theorems about the module they are named after | |

### MpdConnection

The variables `doneProcessing`, `commandList`, `listOks`, `doneListOk`, `error`
and `ret` are the fields of `mpd_Connection` with the same names
(`returnElement` for `ret`).  `call` is the loop the application is inside of
(`mpd_getNextReturnElement`, `mpd_finishCommand`, `mpd_nextListOkCommand`), and
`wake` says that the `select()` of that loop has returned without data.  The
streams are two sequences: `c2s` of request lines, `s2c` of reply lines, the
latter standing for both the socket and `connection->buffer`, whose compaction
is not modelled.  A line that `send()` could only pass in part is remembered in
`half`, and the next command is glued to it (`Garbled`).

One action is one API call (`SendCommand`, `QueueCommand`, `CommandListBegin`,
`CommandListEnd`, `ClearError`, `NewConnection`) or, for the readers, the entry
(`GetNext`, `Enter`), one line read (`TakeLine`) and the ways to end without
one (`PeerClosed`, `GiveUp`).  MPD itself is external.  It reads requests in
order, collects lists, answers each command with lines of its body and then
`OK`, `list_OK` or `ACK`, may block on a client that does not read (`Window`)
and may close at any time.

The application is disciplined as mpd-show and mpd-state are: it begins a list
only when the last reply has been read, and stops using a connection that has
failed.  Everything else it may do in any order, refused calls included
(`Refuse`).

### MpdShow

`conn`, `infoPtr`, `info`, `cur`, `old` are the fields of `D`; `timeout`,
`connected`, `secs` the variables of `main`, `connectToMPD` and `display`.  A
pointer is `"null"`, `"live"` or `"dangling"`, and freeing and forgetting are
two steps because a signal may arrive in between.  A library call is one step
with the outcomes `MpdConnection` has for it.  The only datum of a reply is the
song that is current when MPD answers.  `HandleSignal` may come between any two
steps; a second signal runs `exit` and `disconnectFromMPD` in the handler.
`raced`, `fails`, `late` and `damage` are read by the properties only.

### MpdFormat and MpdDisplay

`DoFormat`, `SkipFormatting` and `SkipBraces` are the recursive functions of
the program, over a sequence of tokens instead of characters.  Beside them
stands what mpc(1) says a format means, as the value of a tree (`Value`), and
the text of such a tree (`Tokens`).  `MpdDisplay` has a step per round of
`display`: it decides whether to format, to compute the highlight and to draw,
and draws through `Output`, `OutScrolled` and `Outs` into `row`, a sequence of
characters with their colour.  `Window` and `Drawn` say independently of them
what the row should be.  The lines of the songs are a constant (`Lines`), any
sequences of characters; for TLC they are what `MpdFormat` makes of the default
format.  `DisplayAssumption` says of the constants that a terminal has a column,
which `handleResize` and `parseArguments` see to, and that twice its width does not
wrap around: what `ioctl` tells is an unsigned short and `hilightLeft` an unsigned.
Only `-c` and `COLUMNS` let a width of 2^31 columns or more through (:237, :315);
the model is not about those.

### MpdState

`server` is MPD, with its playlist, enabled outputs, one setting (standing for
volume, random, repeat and crossfade) and current song; `inList` and `list` are
its open command list.  `file` holds the lines printed.  Each `Print` action is
one request and its reply, which may be skipped by a switch or end early.
`restore` reads one line per step and makes the library call for it through
`Calls`: the command arrives, or times out, which the next call forgets
(`dropped`), or the connection is lost.  MPD executes a list up to the first
command it refuses; the program never learns.  The file may be edited or cut
short at the end of a line, and another client may give MPD a command.

### Foreach and ForeachArgs

`jobs` and `rc` are the variables of `runCommands`; `child` and `collected` are
the process table that the program never sees except through `waitpid(-1)`.
`ReapOne`, `ReapNone` and `Drain` have `waitpid`'s outcomes: any child that has
ended, none without blocking, or ECHILD.  `Inherited` children of whatever
called `exec`, and a `SIGCHLD` ignored from before, are constants; `MCForeach`
runs the program with either and without.
`ForeachArgs` is `takeArguments` run twice over one array that holds the
arguments, the environment behind them and their null pointers, with the read
and the write pointer the function has.

### InstallkernelLock and Installkernel

An instance is at a step named after what it is about to do: `ln`
(`Link`), the `readlink` that confirms it, the two `trap`s, the work, and the
exit handler, which removes the link whatever it holds.  With `--su` the child
runs the same work and the same handler, and the parent only waits.
`SignalTooEarly` is a signal between `ln` and the last `trap`, `Kill` a SIGKILL
or a crash that keeps `/var/lock`.

`Installkernel` has the disk: for each kind of file its names, how many `~` are
behind them and which run wrote them, the links `KIND` and `KIND~`, and
`/lib/modules`.  One `mv`, `cp`, `ln` or `rm` is one step; `cp` is two, so that
`Abort` may leave a partial file.  `Abort` is a failing command (`set -e`), a
signal or a crash, at any step.

### MpdConnect, MpdSearch and MpdEntities

These are the parts of the library that `MpdConnection` takes for granted.

`MpdConnect` names a socket by the address it belongs to.  `Address` is a round
of the loop of `mpd_connect`, `Receive` a piece of the welcome line, and
`NoAnswer` and `Interrupted` are the other outcomes of its `select()`.  At an
address there may be MPD, nothing, or somebody who is mute, closes, never ends a
line or says something else.

`MpdSearch` has a name as a sequence of characters, because quoting and room
are what it is about; `Printed` is `snprintf` with the room it is given, and
`MpdReads` the words that MPD makes of the line.  The search in
`connection->request` is built by several calls among which others may be sent.

`MpdEntities` reads from `reply`, a sequence of lines that may end early,
through `returnElement`, `doneProcessing`, `listOks` and `doneListOk`.  A call of
a parser is one step: it goes on to the line that ends its loop.  `Wanted` is
computed from what MPD has, not from the lines.

### The small programs

`TransFocus`: FVWM writes messages to `pipe` and goes on; the module reads them
when the windows may be gone.  `NullDaemon`: the same `main()` in each process,
with its descriptors as a function from numbers to what they refer to, so that
`Replaced` gives the lowest number that is free.  `Tuptime`: the two files, each
present, empty or missing, with the shell's truncation (`Truncate`) and
tuptime's writing (`Write`) as two steps; `pc = "cut"` when the power has failed
between these.  `CutCom`: the tables, row by row.
`Tpwd`: the replacement in place.  `Arpping`: `tv` is what `select` leaves in it,
as on Linux.  `Gz2bz`: a file holds somebody's data, wholly or in part; the
emptying of a file by the shell is a step, and so is each program.

`Tools` and `MoreTools` run one of them per behaviour: `tool` and `which` say which
one.  Each has the variables of its module, so that its proof reads like one about
that module, and the variables of the rest stay at zero.  They share nothing, and
one state space for all keeps each as small as it is.  `MCTools` is a behaviour of
the one or of the other.

## 3. What the checks show

| Run | States | What is asked | Answer |
|---|---|---|---|
| `mpd_connection` | 84 thousand | are replies paired with requests, parts counted, and do all calls return? | yes, and the connection implements `MpdSession` |
| `mpd_show` | 263 thousand | does the program show what it asked for, recover, back off, stop, free once? | yes, with the two exceptions below |
| `mpd_display` | 237 thousand | is the row on the terminal always the one it should be? | yes, but for one row after a line got shorter |
| `foreach` | 146 thousand | is it a work pool, does the exit code tell all, and does it end though `waitpid` may find a child too many or none? | yes |
| `installkernel_lock` | 53 thousand | one instance at a time, and no lock left behind? | yes without `--su` |
| `installkernel` | 273 thousand | a bootable kernel, the right links, no lost build? | yes |
| `tools` | 2.6 million | do the small programs and the rest of the library keep their promises, and does a restore of mpd-state do what its file says, at its end? | yes, each with the exceptions that its property names |
| `installkernel_su` | | one instance at a time with `--su`? | no |
| `mpd_state_round_trip` | | can mpd-state read what it has written? | no |
| `mpd_state_songs` | | does a restore without `-p` bring the songs back? | no, only one with `-p` does |
| `null_pid` | | does `null -B` print the child's PID? | only to a terminal |
| `cutcom_stars` | | does cutcom remove comments and nothing else? | not behind `**/` |

### The properties worth a reader's time

* `InSync`: the library writes no request number anywhere; that
  `doneProcessing` alone is enough to tell whose line comes next needs every
  path of `mpd_executeCommand` and of the reader to agree.  `Conversation` is
  its inductive form.
* `ReplyMatchesRequest`: the element that the application is given belongs to
  the part of the list it is in; `listOks`, incremented once too often by the
  begin and reset after it, counts what is still to come.
* `CallReturns`: `mpd_finishCommand` loops until `doneProcessing`, so that
  every failing path of the reader has to set it.
* `ShowsAsked`, `Recovers`: the cached song must not outlive the connection
  whose ids it was cached under, nor a `currentsong` that failed.
* `BacksOff`: the delay lives in three places (`main`, `connectToMPD`,
  `display`); after n failures in a row it is 2^n seconds, up to a minute.
* `FreedOnce`: every reconnect frees what any state of the last connection left.
* `RowIsCurrent`: the row is only drawn when one of eight fields has changed,
  and yet always is what a drawing from scratch would give.
* `Count`, `ExitCodeTellsAll`, `StopsSoon`: the counter is the only record of
  the children, and the exit code of their fates.
* `ChangesAtTheEnd`: nothing of a restore has an effect before `command_list_end`,
  because MPD collects the list; if the connection is lost or the program gives
  up at a line it cannot read, MPD forgets it.  It does not say all or nothing: MPD
  executes the list up to the first command that it refuses, with exit code 0, and
  the list of a file that was cut short is executed, too.  It excepts restores of
  which a command has timed out (`dropped`).
* `RestoredAsRead`: after a restore the list of which was executed to the end, the
  outputs are those of the file, and the songs its songs, in their order, if `-p`
  was given; without `-p` there are none of them, against the usage
  (`mpd_state_songs`).  Besides, whatever was lost, timed out or refused, an output is
  only ever switched to what the file says of it (`SwitchedAsRead`).
* `ConnectionUsable`: `sock` is left to the last address that was tried, and
  `error` is set, or not, in nine places.
* `WordsArrive`: quoting, room and the search that other commands interrupt
  must agree for MPD to read the words that were meant.
* `PartAsSent`: each parser begins where another has stopped, with a line kept
  or not, over parts of a list and errors anywhere.
* `OnlyFocusedActive`: it holds once all messages are read, whatever has
  happened to the windows since they were written.
* `CommandDetached`, `StatusPassedOn`: descriptors are replaced by number, and
  an exit status passes through two parents, each with an alarm.
* `CountedAtMostOnce`: cron empties a file before it writes it, and `mv` must not
  move it then; wherever the power fails no session is counted twice, and each that
  was written is counted, but for one: that during whose rewriting the power fails
  is lost, though it had been written before (tuptime.c:45).
* `OriginalKept`: at every moment, not only when gz2bz ends.  The first program of a
  pipe is exempt (`forgone`): that one's failure is not noticed, see section 4.
* `CutsComments`, `NamesDirectory`, `AnswerTaken`, `ParsedAsGiven` compare with
  definitions that are not made like the code.
* `Bootable`, `NothingLost`, `NewAndOldOfOther`: over two runs, one of them cut
  short anywhere, and any two kernels to begin with.
* `Released`, `RefusedByRunning`, `OwnLockOnly`: the exit handler removes a
  link by its name, and must remove only its own.

### Bounds, and why they are enough

* `mpd_connection`: lists of two commands tell "first", "last" and "next part"
  apart, and one command more than parts read.  `Window` = 2 lets an element and
  the line that ends its part wait together and lets the server block.  `Outbox`
  is a whole list.  Two commands tell a reply from another's.
* `mpd_show`: two songs, since only "the same" and "another" matter; failures
  are counted to six, where the delay reaches its limit.
* `mpd_display`: widths 2, 5 and 9: a terminal without room for a line, one
  that only a line of no or one column fits in, and one that only the longest line
  does not; a song of length 2 has three
  positions, with and without highlight.  `Unsigned` = 65536 stands for 2^32; no
  sum comes near either.
* `foreach`: four values and three jobs let the limit be reached, a job end
  before an older one, and a value wait.  `UIntSize` = 8 wraps where 2^32 does.
  The two other worlds have three values and one child inherited, which `jobs` has
  not counted; in one of them the kernel reaps all children by itself.
* `tools`: for mpd-state two songs and a playlist of two, which tell an order from
  another, one output, on or off, and one change by somebody else at any moment
  (`mpd_state_round_trip` has the same).  Three addresses are a first, a last and one between; a welcome line
  of two pieces.  Names that are empty, have a blank, a quote, or a backslash and
  a quote; `INTLEN` is 2 characters, so that one number needs all of them.  Two
  constraints tell the first from the next.  Replies of three entities, or of two
  parts of any kind in a list, ended after any line.  Three windows, one of them a
  television, three messages waiting.  Two exit codes and the signals; every set
  of open descriptors.  Three sessions of up to three ticks.  Texts of six
  characters for cutcom: a comment and two characters behind it.  Directories of up to eight characters and buffers from two on.  Three
  packets of others, two of them in the socket.  Three files for gz2bz, of four
  names with two targets, damaged or not.
* `ForeachArgs`: five words hold a command with its marker, the separator and
  two values; one string of the environment is what the second run can step into.
* `installkernel_lock`: three instances: the parent that comes too late, the
  instance whose lock it removes, and the one that gets in.
* `installkernel`: two runs, the second over whatever the first left; two kinds
  of file show all orders of the loops; two versions and two builds are the
  current and the older kernel and one more.

Deadlock is not checked where the program is meant to stop: `foreach`,
the small programs, mpd-state, mpd-show after its end, installkernel after its last run.
libmpdclient's model never stops.

### Fairness

* `MpdConnection`: `ClientReads` (a process that can run does), `TimeRunsOut`
  (an armed `select()` ends), and the server goes on to the end of a reply it has
  begun, as MPD's replies are finite: it may send elements of one command for
  long but not for ever.  The fairness is strong because the server is blocked
  while the client does not read.  It need never begin to answer; the call
  returns all the same.
* `MCForeach`, in each of its three worlds: the program's steps, and that jobs end.
* `InstallkernelLock`: the steps of each instance that has been started; none
  that one is started, or that a signal or a kill ever comes.
* `MpdShow`: the steps of the program.  That a library call returns at all is
  what `mpd_connection` shows.  `Recovers` speaks of behaviours in which at
  some moment nothing fails or changes any more (`calm`).

## 4. Where code and text disagree

* **With `--su` two locks are removed** (`installkernel_su`).  Child and parent
  both remove the link, the parent perhaps that of the next instance.
* **mpd-state cannot read its own files** (`mpd_state_round_trip`).
  mpd-state.c:227 compares the keyword of the line, which is `state`, with the
  names of the states; every file with the part about the state is refused at
  that line.
* **mpd-state restores songs with `-p` only** (`mpd_state_songs`).  The test of
  mpd-state.c:253 is the wrong way round: without the switch the playlist is cleared
  and nothing added.  The usage (:96) says that `-p` omits the playlist.
* **null -B prints nothing into a pipe** (`null_pid`).  null.c:220 prints the PID
  with `printf`, and the parent leaves with `_exit` (:281, :290, :298), which does
  not write out the buffer.  The usage (:84) promises the PID.
* **cutcom misses the end of some comments** (`cutcom_stars`).  In a run of stars
  every second one leads back into the comment (cutcom.c:88), so that the slash of `**/`
  is not its end; README:41 says that it removes comments.

### Seen while modelling, without a run of their own

* libmpdclient: `err = select(...) == 1` (libmpdclient.c:540) stores a truth
  value, so that line 559 never sees EINTR and every signal during a wait is
  reported as `MPD_ERROR_TIMEOUT`, with the reply still under way.  mpd-show
  reconnects when its terminal is resized.
* libmpdclient: the loop of `mpd_connect` does not end at the first address that
  works: sockets of all but the last stay open.  Of an unknown host `sock` is
  never set, and then closed (libmpdclient.c:430).  A welcome line with fewer
  than three numbers is read behind its end.
* libmpdclient: `mpd_sendSearchCommand` and its like, called while a search is
  being built, add to that search and send it (`Begun`).  The end of a line in a
  name is not quoted.  `mpd_songDup` (:966) does not copy the performer, and
  `mpd_finishSong` (:939) does not free it.  `mpd_getNextOutput` leaks the name
  when it fails and returns an output without an id when none is left (`NoId`).
* FvwmTransFocus: a write that is cut short is repeated from its beginning, and
  a message shorter than its header makes the size wrap.
* null: an alarm that comes before `wait()` is entered is missed (`MissesAlarm`),
  and null waits for the command after all.
* tuptime: without `buptime`, or with two values in it, the biggest uptime is what
  was in memory (`Totals`).  When the power fails between the shell's truncation
  and tuptime's writing, the whole session is not counted, also what had been
  written of it before (tuptime.c:45; `CountedAtMostOnce` excepts it).
* cutcom: a slash at the end of the file is lost, and a quote right behind a slash
  does not open a string (`Row`).
* tpwd: tpwd-test.sh sets `TPWD_VARS`, the program reads `TPWD_DIRS`.
* arpping: packets of others that never pause keep it in one wait for ever, as
  `select` returns them when no time is left; an answer is known by its address
  alone, not by being one.
* gz2bz: without `-k` a decompressor that fails is not noticed, as a pipe has the
  status of its last program (gz2bz:301), and the original is removed; of two files
  with one target the second replaces the first (`forgone` has both).  `gz2gz`
  empties its input before it is read.
* inplace: every command line is refused: line 82 compares a word as a number,
  which ends the loop, and the test of line 85 is the wrong way round.
* changelog.pl: what is added while `new` is between reading and marking is
  never shown as new, and neither is what a call without arguments left out.
* check.sh: the temporary file that the action should use (:76) is removed before
  the action, and is missing from then on with `-k` (:275).
* rand-files.pl: `-i` adds a rule with rank 0 (:83), the manual says 1 (:238).
* An `ACK` inside a list begun with `command_list_ok_begin` leaves `listOks`
  above zero; the next command's `OK` is then reported as "expected more
  list_OK's" (libmpdclient.c:603), although it is complete.  The model has it.
* `mpd_sendCommandListBegin` does not check that the last reply was read
  (libmpdclient.c:1619): the begin goes out, the end is refused, and the server
  takes later commands for parts of the list.  Neither program does that, and
  the model's application does not either.
* mpd-state: the wrapper's `-raP` is refused, as
  `getopt` is not told of `-S`, `-P` and `-O` (:120), and it reads from
  `~/.mpd_sates` what it has saved to `~/.mpd_states`.
* mpd-state: if the beginning of the list times out, the commands behind it are
  executed one by one; if another command does, the rest is executed and the
  exit code is 0 (`dropped`).  It is 0, too, when MPD refuses a command of the list
  and so leaves out those behind it.  A reply that ends early leaves a file that looks
  complete (:329).
* foreach: `-J` counts the lines of `/proc/cpuinfo` that do not begin with
  `processor` (:109, against :60), as `CountProcessors` has it.
* installkernel: `--tidy-modules` removes nothing, because
  `read_version_from_link` (:775) prints its message into the text that is
  captured from it (against the manual, :271; `ReadVersionFromLink`).
* foreach without a `--`: the second `takeArguments` begins behind the null
  pointer and takes the environment for values (foreach.c:132), so that "no
  values given" (foreach.c:212) is never said.  `ForeachArgs` has the case.
* foreach with inherited children: each that ends is counted off as if it were
  one of its own jobs, and more jobs than `-j` run (foreach.c:254).  With
  `SIGCHLD` ignored no exit status is ever seen and `-K` does nothing.
* installkernel: a signal between `ln` (:58) and `trap` (:196) leaves a lock
  that no one removes; the manual (:324) says another instance is running.
* installkernel: installing the version that is current again leaves `bzImage~`
  alone (:858), against the manual (:369); `--tidy-image` removes what
  `bzImage~` leads to, which after `--overwrite` may be the current image
  (:763, manual :251).  `NewAndOldOfOther` names the versions it is about.
* mpd-show: if MPD changes songs between its answers to `status` and
  `currentsong`, the second song is cached under the first one's id (`raced`).
* mpd-show: a second signal in the middle of `disconnectFromMPD` frees a
  pointer twice, from the handler (`damage = "handler"`).
* mpd-show: the scroll position is not reset for a new line, so that one row may
  show what is behind the separator in memory (`ReadsInside` allows one).
* mpd-show: a highlight of the whole row is not drawn when the line is empty,
  because `hilightLeft` is then exactly the columns left (:563); `Drawn` excepts
  that row (`Unfilled`).
* mpd-show: `skipFormatting` consumes the `]` of its group and `skipBraces` stops
  at the first one.  Under the default format a song with track and title and
  neither artist nor album loses its track; `DefaultAsMpc` exempts just these.
* mpd-show: MPD stopped and without a song looks like a failed `getSong`, and
  mpd-show reconnects every second (`GetInfo`).

## 5. Proofs

TLAPS checks these for every value of the constants, from the named
assumptions of the modules alone, but for `Installkernel_proofs`, where two
theorems say what else they assume.  TLC has checked the inductive invariants on the
instances of the runs before they were proved, but for `Cutting`, `Searching` and
`Saves`, which speak of all texts, all words and every state of MPD: there it has checked the property.

**`MpdConnection_proofs`** (2293 obligations).  `Typed` is split in Boolean
flags and data, since the two need different provers.  `InSync` is not
inductive: that the reader leaves nothing behind depends on the server, on what
is on its way and on whether a list is open.  `Conversation` says which of
three situations the conversation is in: nothing owed; a list collected, with
its begin before it; one reply owed, and not yet begun, begun or ended in
exactly one final line.  One lemma per group of actions takes `Conversation` to
`Conversation'`; `Conversing`, `StaysInSync`, `WaitsForDueReply` and
`NeverPipelines` follow.  The last two are about `ReplyDue` and `NoPipelining`,
which no run lists: they are consequences of the invariant that is checked.

`Conversation` says that a reply is owed, not whose it is.  For
`ReplyMatchesRequest` one has to follow each command to the server and each line back: what is left of the
request in `c2s` (`OnItsWay`), the list the server collects and answers
(`Writing`), the lines between (`InOrder`, `Answers`), and the parts that
`listOks` has yet to count (`Counted`); `Script` has them together, for as long
as no ACK has ended a list early.  `Holding` is about the line that the
application has.  `TalksOfRequest` proves them all to be kept, `RepliesMatch`
the property.  `IsSession` is the refinement: every step of library, server and
network is a step of `MpdSession` or leaves what the application sees alone.

**`MpdShow_proofs`** (695 obligations).  Each property has an invariant of its
own, which says what a step of the main loop may count on: `Staged` which steps
there are with a connection and without; `Pointing` between which two statements
a pointer dangles, from which `FreesOnce` follows; `Ending` that one round after
a signal nothing is left but the exit (`EndsPromptly`); `Delayed` the delay by the
number of failures, in whichever of the three places it is (`Backs`); `InTurn`
whose turn it is, from which `IsSession` follows: mpd-show is a client as
`MpdSession` wants it.  `ShowsWhatItAsked` needs the most: `Caching` says of every
step whether the cached song is that of the last status, of the next one, or to
be dropped, and `Showing` what is on the line until the next is made.

**`MpdDisplay_proofs`** (2174 obligations).  The first half is about drawing.
`Painted` says what a row looks like after some text has been printed under a
highlight, `hilightLeft` included; `OutsAdds` that `outs` takes such a row to one
with its text appended, whether the highlight ends before, in or behind the piece.
`hilightLeft` wraps around when it is counted down behind zero, and a row is too
short to bring it back to a small number: that is what the assumption on the
widths is for.  `ScrollDraws` puts the three pieces of `outputScrolled` together to a
window on the endless line, and `OutputDraws` is the whole: `Output` = `Drawn` for any
line, width, highlight and scroll position in range.  The second half is about
time.  `Current` says that line and row are those of `D.old`, that the highlight in
`D.cur` is still the one that was drawn, and that a line too long has been moved on.
It is inductive (`DisplayRound`) because what `Drawn` depends on is what `display`
compares (`SameDrawn`), and because a scroll position never stays the same
(`NeverStill`), so that a line that scrolls is drawn every second.  `RowAgrees`
follows; `ReadsWithin` needs besides that one drawing brings the scroll position back
into range (`OnceStray`); `TextMoves` that to move on and to look one further is the
same, also where the line begins again (`Turns`).

**`Foreach_proofs`** (658 obligations).  `Count` says that `jobs` is the number of
children forked and not collected, with the library's theorems on
cardinalities for `Up` and `Down`; it needs the assumption `OwnChildrenOnly`
(no inherited children, `SIGCHLD` not ignored), without which it is false.
From it follow `RunsAtMostLimit`, `TellsEveryFailure`, and with `Noticing`
(a failure not yet collected is the one the next `reap` finds)
`StopsAfterFailure`.  `IsWorkPool` is the refinement: every step is a step of
`WorkPool` or changes nothing of it.

**`InstallkernelLock_proofs`** (197 obligations).  `Holding`: until `--su` is used
every instance past `ln` owns the lock.  From it `OneAtATime`, and
`RemovesOwnLock` as an action property.  `RefusesForOther` holds with `--su`, too:
as long as nothing is killed, what the lock names is running.

**`Installkernel_proofs`** (1066 obligations).  Four invariants follow a run through
its loops: `Installed` and `Relinked` say for each kind of file what the loops
have done, at the kind they are at and on either side of it; `Kept` that what the
links led to is still under its name, unless that is the one being installed or
tidied away.  From these `LinksNewAndOld` and, as an action property,
`LosesNothing`.  `Booting` says that every run begins with two kernels that boot,
which is what survives one run that is cut short anywhere.  `StaysBootable` assumes
that `bzImage` is one of the kinds and that at most one run is cut short
(`MaxAborts <= 1`), and it has to: two runs that install the versions the two links
lead to, each cut short behind its first `mv`, leave two links that lead to nothing
(TLC finds that with `MaxAborts` = 2).  The number of runs is not bounded.

**`Tools_proofs`** (4184 obligations) is about the programs of `Tools`.  For each, a
lemma (`FocusAlone`, ...) says that what runs as that program in `Tools` is a
behaviour of the program's own specification; the rest is about that.

* FvwmTransFocus: `Focusing` reads the messages that wait as a path from the
  window that is shown as the active one to the focused one, with each window
  announced before it is spoken of (`FollowsPipe`, `ActiveOnly`).  0, which stands
  for no window, must not be one (`NoneAssumption`).
* null: `Daemonizing` has the steps at which each of the three processes may be
  and what each has there: descriptors, session, directory (`Lineage`, `Has`); and
  what a parent's status may be when it is over (`Passes`).  `RunsDetached` and
  `PassesStatusOn` follow.
* `mpd_newConnection`: `Dialling` says that the socket in hand is an open one
  and, with one address, the only one, and that an error is set exactly when
  the call returns without a connection (`UsableIfDone`).
* arpping: `Probing` says that an answer not yet seen is in the queue, and that
  the time spent and the time left add up to a number of full waits (`Probes`,
  `TakesAnswer`), for any length of them (`TimesAssumption`).
* gz2bz: `Converting` says what is in the source, the file between and the
  target at each step, and has `OriginalKept` for a part: it is nearly inductive
  (`Converts`, `KeepsOriginals`), for any sequence of names (`ArgumentAssumption`).
* tpwd: `Naming` says that the name is the path until it is shortened, and then one
  that leads there (`Shortens`, `PrintsItsName`).  The lemmas are about prefixes: a
  variable that fits takes the place of a whole directory, and what is behind it
  stays.  Paths and names are sequences of characters (`PathAssumption`).
* foreach's `parseArgs`: `Rewriting` says where the write pointer is when the read
  pointer is at a word: never in front of it, though the marker may make the
  command one word longer, because the separator that is dropped makes up for it.
  `CommandEnded` and `TakenValues` say what has been written, in terms of the input
  alone (`Rewrites`).  `ParsesAsGiven` then splits a well-formed command line where
  the first run ended.  It needs no bound on words or environment
  (`WordAssumption`).  On the way it turns out that the first list is never empty,
  so that "no command given" (foreach.c:205) is never said, either.

**`MoreTools_proofs`** (5495 obligations) is about four of the five programs of
`MoreTools`, whose properties compare with a fold over sequences of any length.
What the induction over natural numbers of the library's theorems would be for is done
with a set in the predicate's place: `Inductive` follows from there being no
infinite descent, and `Recursion` from it: what is defined step by step over a
sequence is a function.  So the recursive functions of the models and the folds of
the community modules can be unfolded (`SumIs`, `JoinedIs`, `ReadIs`, `StripThere`).

* tuptime: `Counting` says of which sessions each of the two files is the sum and the
  maximum, at every step between the shell's emptying of the one and its replacing
  the other (`Counts`).  `CountsAtMostOnce` is `CountedAtMostOnce` for any number of
  sessions of any length.
* The search builder: `Spells(line, ws)` says that MPD, having read the line up to
  there, has got the words `ws` and is between words.  An argument spells its name
  whatever characters it is of (`AtArgument`, character by character), a line its words,
  and `snprintf` cuts nothing off because the room was counted right
  (`PlainLength`, `ConstraintIs`).  `Searching` says so of the line sent last and of the
  search that is being built (`Searches`, `BringsWords`).  `PhraseAssumption`: no name has
  the end of a line in it, and `INTLEN` characters are enough for a number.
* mpd-state: `Collecting`: while a restore goes on MPD's list is open, unless the
  connection or a command may have been lost (`Collects`).  A call inside an open
  list does nothing to MPD, so that the end of the list is the only step with an
  effect: `RestoresAtTheEnd` is `ChangesAtTheEnd` for any songs and any file.
  For `RestoredAsRead` one has to know what the list does: `Sent` says that,
  whatever MPD is when it executes the list, the songs come out as those of the lines
  before the next one to be read, behind what was there or in its place, and the
  outputs as these lines say.  That is so because no output is both on and off in a
  file, however it was cut short and whatever became of MPD since (`Written`).  The
  songs of a file and the execution of a list are recursive functions (`SavedSongsIs`,
  `ExecuteIs`).  `Saves` has it all (`Restores`).  What is lost or timed out leaves
  commands out, and `AllAsked` says that each one in the list asks for what the file
  says; a list of such commands executed in part switches no output otherwise
  (`SwitchedThen`).  `RestoresAsRead` has both; `StateAssumption` is that MPD has
  finitely many outputs.
* cutcom: `Leads(text, kept, p)` says that whatever follows the text, stripping it
  gives `kept` and then what stripping from `p` on gives; `Takes` says the same of one
  piece, a literal or a comment whose end has been read.  `Cutting` is that the text
  leads to some `p` where there begins what the state tells of, and that nothing of it
  has ended yet: a literal no quote of which is bare, a comment without its end
  (`Cuts`).  A piece that is open is ended by the end of the text, so that
  `CutsItsComments` holds wherever that is.  The state `star` is right only if no two
  stars meet: there the proof needs what `CutsComments` excludes.

Only model-checked:

* all liveness (`CallReturns`, `Returns`, `Released`, `Recovers`), which needs
  ENABLED;
* `PartAsSent`, which compares with what several functions select from a whole reply;
* `DefaultAsMpc`: `MpdFormat` has RECURSIVE operators, as the code is recursive, and
  TLAPS has none.

The other way round, `Conversation`, `JobsBounded`, `Holding`, `ReplyDue` and
`NoPipelining` and the inductive invariants are proved and in no run's list: what
the runs list follows from them or stands beside them.

## 6. Not modelled

The byte buffer of the reader and the parsing of names and values in a line;
replies that MPD does not send, such as a line without a colon or an entity
other than a song where mpd-show asks for one (mpd-show.c:458), which it leaves half
read; a format with a `#` at its end, with which mpd-show reads on behind it
(mpd-show.c:784); children that null inherits from whatever called `exec`, which its
`wait()` (null.c:289) may return in place of the command; the
constructors, copies and destructors of the library's structures, and its
variants for Windows; the character sets, escape sequences and growing buffers
of mpd-show; the compilation, hooks and option parsing of installkernel; the
interface and packet layout of arpping; `getopt`.  They keep no state that
another step depends on.

rand-files.pl, cdiff, load, malloc and timer are loops over their own data,
which a test shows as well as a model.  mountiso, mnt, virtman.sh and mp3rip
check their arguments and run other programs.  inplace refuses every command
line, so that there is no behaviour to model.  check.sh is a counter around
other people's commands.  Programs that only filter text, make passwords, show
files or build packages are listed in the inventory and left out.

## 7. Plan

Done, in the order of importance: the library's protocol and its proofs, the
job pool and its proofs, the kernel installation and the proof of its lock,
mpd-show's main loop and its display, mpd-state; then the other parts of the
library, and the small programs with processes, files or messages.

Left:

1. `Changelog`: adding and reading at the same time, with the marks of the users.

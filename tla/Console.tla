------------------------------ MODULE Console ------------------------------
(***************************************************************************)
(* The console of hw3 (class np_session of cgi.cpp; shell_connect of      *)
(* main.cpp and np_session of hw4's cgi.cpp repeat it, the latter with a   *)
(* SOCKS server in between): each session sends                            *)
(* the lines of a file to a remote shell, one whenever it reads a '%', and *)
(* shows what it sends and reads on its part of the page.  A session is   *)
(* one asynchronous operation in flight; each action is its completion    *)
(* with the handler.  The remote shell is a working ground of hw2.        *)
(* What goes over the wire: <<"prompt", i>> before line i is run, "out" or *)
(* "mark" (output with a '%' in it) of line i, <<"line", i>> of the file.  *)
(***************************************************************************)
EXTENDS Integers, Filters

CONSTANTS
    Session,    \* sessions of the console
    Files,      \* what the files may hold: sequences of commands "quiet", "plain",
                \* "mark" (the kind of output) and "exit"
    ShortWrite, \* may a write deliver a part of a line: main.cpp and hw4 write with
                \* async_write_some, cgi.cpp with async_write
    MaxJunk     \* bound on the lines a shell runs that are not of the file

ASSUME ConsoleAssumption ==
    /\ Files \subseteq Seq({"quiet", "plain", "mark", "exit"})
    /\ ShortWrite \in BOOLEAN /\ MaxJunk \in Nat

VARIABLES
    through,    \* is this hw4's console; the same in every state of a behaviour
    up,         \* the console's process goes on
    file,       \* the lines of a session's file
    op,         \* its operation in flight, or "none"
    next,       \* lines it has taken from the file
    data,       \* data_: what it writes
    page,       \* its part of the page
    shut,       \* it has closed its socket
    (* the network and the remote shells *)
    toShell, toConsole,
    over,       \* the shell has ended and closed the connection
    junk        \* lines the shell has run that are not of the file

setting == <<through, file>>
console == <<up, op, next, data, page, shut>>
remote == <<toShell, toConsole, over, junk>>
vars == <<setting, console, remote>>

Prompt(i) == <<"prompt", i>>
FileLine(i) == <<"line", i>>
Part(i) == <<"part", i>>    \* the beginning of a line, without its end
Junk == <<"junk", 0>>       \* a line of text that was output

Init ==
    /\ through \in BOOLEAN /\ up = TRUE
    /\ file \in [Session -> Files]
    /\ op = [s \in Session |-> "resolve"]
    /\ next = [s \in Session |-> 0]
    /\ data = [s \in Session |-> <<>>] /\ page = [s \in Session |-> <<>>]
    /\ shut = [s \in Session |-> FALSE]
    /\ toShell = [s \in Session |-> <<>>] /\ toConsole = [s \in Session |-> <<>>]
    /\ over = [s \in Session |-> FALSE] /\ junk = [s \in Session |-> 0]
-----------------------------------------------------------------------------
(* The remote shells.  A line is run with its output and the next prompt;   *)
(* a part of a line waits for its end.                                      *)
Output(lines, i) ==
    CASE lines[i] = "plain" -> << <<"out", i>> >>
      [] lines[i] = "mark"  -> << <<"mark", i>> >>
      [] OTHER                -> <<>>

Replied(s, text) ==
    /\ toShell' = [toShell EXCEPT ![s] = Tail(@)]
    /\ toConsole' = [toConsole EXCEPT ![s] = @ \o text]

RunLine(s) ==
    /\ ~over[s] /\ toShell[s] # <<>> /\ Head(toShell[s])[1] = "line"
    /\ LET i == Head(toShell[s])[2] IN
       /\ Replied(s, IF file[s][i] = "exit" THEN <<>> ELSE Append(Output(file[s], i), Prompt(i + 1)))
       /\ over' = [over EXCEPT ![s] = (file[s][i] = "exit")]
    /\ UNCHANGED <<setting, console, junk>>

RunJunk(s) ==
    /\ ~over[s] /\ toShell[s] # <<>> /\ Head(toShell[s]) = Junk
    /\ junk[s] < MaxJunk
    /\ Replied(s, << <<"out", 0>>, Prompt(0) >>)
    /\ junk' = [junk EXCEPT ![s] = @ + 1]
    /\ UNCHANGED <<setting, console, over>>

(* The shell's host goes away, or the shell finds its connection reset: the *)
(* console closed it with replies unread.                                   *)
ShellEnds(s) ==
    /\ ~over[s] /\ op[s] \notin {"resolve", "connect", "reply"}
    /\ shut[s] => toConsole[s] # <<>>
    /\ over' = [over EXCEPT ![s] = TRUE]
    /\ toShell' = [toShell EXCEPT ![s] = <<>>]
    /\ UNCHANGED <<setting, console, toConsole, junk>>
-----------------------------------------------------------------------------
Then(s, operation) == op' = [op EXCEPT ![s] = operation]

(* The host name of the session has an address, or has not.  In hw4 the     *)
(* handler makes the session: it connects to the SOCKS server, sends it the *)
(* request and waits for its reply.                                         *)
ResolveDone(s, ok) ==
    /\ op[s] = "resolve"
    /\ Then(s, CASE ~ok -> "none" [] ok /\ through -> "reply" [] ok /\ ~through -> "connect")
    /\ UNCHANGED <<setting, up, next, data, page, shut, remote>>

(* hw4: there is no connection to the SOCKS server.  Nothing catches what   *)
(* connect throws before main does: the process ends, with all sessions.    *)
JoinFails(s) ==
    /\ op[s] = "resolve" /\ through
    /\ op' = [t \in Session |-> "none"]
    /\ up' = FALSE
    /\ shut' = [t \in Session |-> TRUE]
    /\ UNCHANGED <<setting, next, data, page, remote>>

(* hw4: the reply of the SOCKS server, or the end of the connection to it.  *)
(* Which of them it was the console does not ask; it starts to read.        *)
ReplyRead(s, granted) ==
    /\ op[s] = "reply"
    /\ Then(s, "read")
    /\ toConsole' = [toConsole EXCEPT ![s] = IF granted THEN <<Prompt(1)>> ELSE @]
    /\ over' = [over EXCEPT ![s] = ~granted]
    /\ UNCHANGED <<setting, up, next, data, page, shut, toShell, junk>>

(* do_connect: the file is opened.  The shell greets with its prompt. *)
ConnectDone(s, ok) ==
    /\ op[s] = "connect"
    /\ Then(s, IF ok THEN "read" ELSE "none")
    /\ toConsole' = [toConsole EXCEPT ![s] = IF ok THEN <<Prompt(1)>> ELSE @]
    /\ UNCHANGED <<setting, up, next, data, page, shut, toShell, over, junk>>

(* Mutants of check_read: only the first character is looked at, and none. *)
check_read_first(text) == Head(text)[1] \in {"prompt", "mark"}
check_read_none(text) == TRUE

(* Is there a '%' in what was read? *)
check_read(text) == \E i \in DOMAIN text : text[i][1] \in {"prompt", "mark"}

(* Mutant of Shown: the command is shown before the text. *)
ShownBefore(text, line) == line \o text

(* What a read and the command it lets go add to the page. *)
Shown(text, line) == text \o line

(* Mutant of HasLine: one line more. *)
HasLineMore(s) == next[s] <= Len(file[s])

HasLine(s) == next[s] < Len(file[s])

Reading(s, n) ==
    /\ op[s] = "read" /\ n <= Len(toConsole[s])
    /\ toConsole' = [toConsole EXCEPT ![s] = SubSeq(@, n + 1, Len(@))]
    /\ UNCHANGED <<setting, up, shut, toShell, over, junk>>

Showing(s, entries) == page' = [page EXCEPT ![s] = @ \o entries]

(* do_read: the first n pieces have come, without a '%'. *)
ReadOn(s, n) ==
    LET text == SubSeq(toConsole[s], 1, n) IN
    /\ Reading(s, n) /\ ~check_read(text)
    /\ Showing(s, text)
    /\ UNCHANGED <<op, next, data>>

(* With a '%': the next line of the file goes to the shell. *)
ReadCommand(s, n) ==
    LET text == SubSeq(toConsole[s], 1, n)
        line == <<FileLine(next[s] + 1)>>
    IN  /\ Reading(s, n) /\ check_read(text) /\ HasLine(s)
        /\ Showing(s, Shown(text, line))
        /\ next' = [next EXCEPT ![s] = @ + 1]
        /\ data' = [data EXCEPT ![s] = line]
        /\ Then(s, "write")

(* With a '%' at the end of the file: data_ still holds what was read, and  *)
(* that goes back to the shell.  Its complete lines are commands there.     *)
ReadAtEnd(s, n) ==
    LET text == SubSeq(toConsole[s], 1, n)
        said == Among(text, {x \in ToSet(text) : x[1] # "prompt"})
    IN  /\ Reading(s, n) /\ check_read(text) /\ ~HasLine(s)
        /\ Showing(s, text)
        /\ data' = [data EXCEPT ![s] = [i \in DOMAIN said |-> Junk]]
        /\ Then(s, "write")
        /\ UNCHANGED next

(* The read fails: the shell has gone. *)
ReadFails(s) ==
    /\ op[s] = "read" /\ over[s] /\ toConsole[s] = <<>>
    /\ Then(s, "none")
    /\ shut' = [shut EXCEPT ![s] = TRUE]
    /\ UNCHANGED <<setting, up, next, data, page, remote>>

(* Mutant of IsExit: looks at the line after the one written. *)
IsExitNext(s, text) == text # <<>> /\ next[s] < Len(file[s]) /\ file[s][next[s] + 1] = "exit"

(* The text written begins with "exit". *)
IsExit(s, text) == \E i \in DOMAIN text : text[i][1] = "line" /\ file[s][text[i][2]] = "exit"

Cut(text) == [i \in DOMAIN text |-> Part(text[i][2])]

(* do_write: after exit the session ends, otherwise it reads on. *)
WriteDone(s, whole) ==
    LET text == IF whole THEN data[s] ELSE Cut(data[s]) IN
    /\ op[s] = "write" /\ (whole \/ ShortWrite)
    /\ toShell' = [toShell EXCEPT ![s] = IF over[s] THEN @ ELSE @ \o text]
    /\ Then(s, IF IsExit(s, data[s]) THEN "none" ELSE "read")
    /\ shut' = [shut EXCEPT ![s] = IsExit(s, data[s])]
    /\ UNCHANGED <<setting, up, next, data, page, toConsole, over, junk>>

(* The write fails: nothing holds the session any longer. *)
WriteFails(s) ==
    /\ op[s] = "write" /\ over[s]
    /\ Then(s, "none")
    /\ shut' = [shut EXCEPT ![s] = TRUE]
    /\ UNCHANGED <<setting, up, next, data, page, remote>>

(* No handler runs while another one waits for a reply. *)
Free == \A s \in Session : op[s] # "reply"

Handler(s) ==
    \/ /\ Free
       /\ \/ \E ok \in BOOLEAN : ResolveDone(s, ok) \/ ConnectDone(s, ok)
          \/ JoinFails(s)
          \/ \E n \in 1..Len(toConsole[s]) : ReadOn(s, n) \/ ReadCommand(s, n) \/ ReadAtEnd(s, n)
          \/ ReadFails(s)
          \/ \E whole \in BOOLEAN : WriteDone(s, whole)
          \/ WriteFails(s)
    \/ \E granted \in BOOLEAN : ReplyRead(s, granted)

Shell(s) == RunLine(s) \/ RunJunk(s)

Next == \E s \in Session : Handler(s) \/ Shell(s) \/ ShellEnds(s)

(* io_context.run() calls every handler; the shells run what they are sent;  *)
(* the SOCKS server answers or closes the connection.                       *)
Fairness == \A s \in Session : WF_vars(Handler(s)) /\ WF_vars(Shell(s))
Spec == Init /\ [][Next]_vars /\ Fairness
-----------------------------------------------------------------------------
Wire(s) == {"prompt", "out", "mark", "line", "part", "junk"} \X (0..Len(file[s]) + 1)

(* The values each variable can have. *)
TypeOK ==
    /\ through \in BOOLEAN /\ up \in BOOLEAN
    /\ \A s \in Session :
          /\ file[s] \in Files
          /\ op[s] \in {"resolve", "connect", "reply", "read", "write", "none"}
          /\ next[s] \in 0..Len(file[s])
          /\ data[s] \in Seq(Wire(s)) /\ page[s] \in Seq(Wire(s))
          /\ toShell[s] \in Seq(Wire(s)) /\ toConsole[s] \in Seq(Wire(s))
    /\ shut \in [Session -> BOOLEAN] /\ over \in [Session -> BOOLEAN]
    /\ junk \in [Session -> 0..MaxJunk]

Exits(s) == \E i \in DOMAIN file[s] : file[s][i] = "exit"
Plain(s) == \A i \in DOMAIN file[s] : file[s][i] # "mark"

(* The conversation a user would have had: with the first n lines, and to *)
(* the exit.                                                              *)
Told(lines, n) ==
    FoldLeft(LAMBDA t, i : t \o <<Prompt(i), FileLine(i)>> \o Output(lines, i),
             <<>>, [i \in 1..n |-> i])
Transcript(s) == Told(file[s], Len(file[s]))

(* If no output has a '%', the page shows the conversation as it would have *)
(* been typed, however the replies were cut into reads: each command after  *)
(* its prompt and before its result; all of it when the session has ended   *)
(* with exit.                                                               *)
ReadsAsTyped ==
    \A s \in Session :
        Exits(s) /\ Plain(s) =>
            /\ IsPrefix(page[s], Transcript(s))
            /\ op[s] = "none" /\ next[s] = Len(file[s]) /\ IsExit(s, data[s])
                  => page[s] = Transcript(s)

(* Whatever the output looks like: the lines of the file go out once and in *)
(* their order, and no more of them than a '%' has been read for, so never  *)
(* the whole file at once; if the last one is exit, nothing else goes out.  *)
Signs(s) == Among(page[s], {"prompt", "mark"} \X Nat)
Lines(s) == Among(page[s], {"line"} \X Nat)
OnePerSign ==
    \A s \in Session :
        /\ Lines(s) = [i \in 1..next[s] |-> FileLine(i)]
        /\ Len(Lines(s)) <= Len(Signs(s))
        /\ Exits(s) => Junk \notin Range(data[s] \o toShell[s])

(* A session whose file has an exit ends, for any output and also when its  *)
(* shell goes away, unless a write cut one of its lines: then both sides    *)
(* wait for the other.                                                      *)
CutShort(s) == \E i \in DOMAIN toShell[s] : toShell[s][i][1] = "part"
SessionEnds == \A s \in Session : Exits(s) ~> op[s] = "none" \/ CutShort(s)

(* No session that reached its shell ends before it has sent its exit, or   *)
(* because of what happens to another session, as long as its shell is      *)
(* there; only in hw4's console a failed connection of another can end it.  *)
ExitSent(s) == next[s] > 0 /\ file[s][next[s]] = "exit"
EndsForAReason ==
    (through => up) =>
        \A s \in Session : op[s] = "none" /\ page[s] # <<>> => over[s] \/ ExitSent(s)
=============================================================================

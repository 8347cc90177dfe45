-------------------------------- MODULE Rwg --------------------------------
(***************************************************************************)
(* The remote working ground of hw2/2: one process serves every user.     *)
(* Its select loop accepts connections (Client_Mananger::add) and hands   *)
(* each readable socket to shell(), which executes one command line to    *)
(* its end.  Each action is one such call, with all that it changes in    *)
(* Client_Mananger, in the client and in the server's environment.        *)
(* Commands run in children, which do not touch this state.               *)
(***************************************************************************)
EXTENDS NumberPipes, UserPipes, FiniteSets

CONSTANTS
    Fd,         \* sockets
    MaxId,      \* size of id_map (30 in the code)
    Name,       \* names users ask for
    NoName,     \* "(no name)"
    Var,        \* environment variables users set or print
    Path,       \* PATH
    Value,      \* values of variables
    InitPath,   \* "bin:."
    Unset,      \* what getenv returns for an unset variable, NULL
    Target,     \* user numbers typed after < and > and in tell
    ChatRef,    \* numbers typed after < and > as words of a tell or a yell
    MaxN,       \* the largest N of |N (1000 in the code)
    NoOne,      \* no client: the last call was not a command line of one still there
    PipeBound   \* bound on the user pipes open at one time

Id == 1..MaxId
NoRef == -1     \* no <n or >n on the line

ASSUME RwgAssumption ==
    /\ MaxId \in Nat /\ MaxN \in Nat
    /\ NoName \notin Name /\ NoOne \notin Fd
    /\ Path \in Var /\ InitPath \in Value /\ Unset \notin Value
    /\ Target \subseteq 0..MaxId /\ ChatRef \subseteq Target

VARIABLES
    id_map,     \* id_map[n]: number n is taken
    total,      \* the sockets of the clients; of the client on socket c,
    id,         \* id[c]: its number
    name,       \* name[c]
    env,        \* env[c]: its PATH
    number_pipe,\* number_pipe[c]: its vector of numbered pipes
    user_pipe,  \* the table of user pipes
    environ,    \* the environment of the server process
    up,         \* the server process is alive
    served,     \* the client whose command line was the last call, or NoOne
    said,       \* what that call said of user pipes, <<kind, writer, reader>>, and
                \* the "noUser" of tell
    (* auxiliary *)
    own,        \* own[c][v]: the value client c itself gave to v in this session
    clock,      \* lines client c has entered, modulo MaxN + 1
    stale       \* pipes in the table with an end whose user left since

vars == <<id_map, total, id, name, env, number_pipe, user_pipe, environ, up, served, said, own, clock, stale>>

OfEach(x) == [c \in {} |-> x]    \* a field when there are no clients
Pipes(table) == {table[i] : i \in DOMAIN table}

Init ==
    /\ id_map = [n \in Id |-> FALSE]
    /\ total = {}
    /\ id = OfEach(0) /\ name = OfEach(NoName)
    /\ env = OfEach(InitPath) /\ number_pipe = OfEach(<<>>)
    /\ user_pipe = <<>>
    /\ environ = [v \in Var |-> IF v = Path THEN InitPath ELSE Unset]
    /\ up = TRUE
    /\ served = NoOne /\ said = <<>>
    /\ own = OfEach(<<>>)
    /\ clock = OfEach(0)
    /\ stale = {}
-----------------------------------------------------------------------------
(* Functions with a changing domain. *)
With(f, c, x) == [d \in DOMAIN f \cup {c} |-> IF d = c THEN x ELSE f[d]]
Without(f, c) == [d \in DOMAIN f \ {c} |-> f[d]]

(* Mutant of OccupyId: looks for a free slot from the top. *)
OccupyIdFromTop(n) == ~id_map[n] /\ \A m \in n + 1..MaxId : id_map[m]

(* A connection is accepted on socket c: Client_Mananger::add.  occupy_id   *)
(* takes the first free slot.  With every slot taken the code runs off its  *)
(* end; the select loop is assumed to admit at most MaxId users.            *)
OccupyId(n) == ~id_map[n] /\ \A m \in 1..n - 1 : id_map[m]

Login(c, n) ==
    /\ up /\ c \notin total /\ OccupyId(n)
    /\ id_map' = [id_map EXCEPT ![n] = TRUE]
    /\ total' = total \cup {c}
    /\ id' = With(id, c, n)
    /\ name' = With(name, c, NoName)
    /\ env' = With(env, c, InitPath)
    /\ number_pipe' = With(number_pipe, c, <<>>)
    /\ served' = NoOne /\ said' = <<>>
    /\ own' = With(own, c, [v \in Var |-> IF v = Path THEN InitPath ELSE Unset])
    /\ clock' = With(clock, c, 0)
    /\ UNCHANGED <<user_pipe, environ, up, stale>>
-----------------------------------------------------------------------------
(* What every command line of client c does before its own command: the     *)
(* process environment gets the client's PATH (ENV::ENV) and the client's   *)
(* numbered pipes are one line nearer.                                      *)
Tick(c) == (clock[c] + 1) % (MaxN + 1)
Counting(c) == [number_pipe EXCEPT ![c] = Waiting(@)]

(* Mutant of EnvironOf: the environment is not set up for the line. *)
EnvironLeft(c) == environ

EnvironOf(c) == [environ EXCEPT ![Path] = env[c]]

(* A line of c that leaves the server with environment e and the user pipes *)
(* with this table, and writes these messages.                              *)
Line(c, e, table, messages) ==
    /\ up /\ c \in total
    /\ Len(table) <= PipeBound
    /\ environ' = e
    /\ user_pipe' = table
    /\ stale' = stale \cap Pipes(table)
    /\ clock' = [clock EXCEPT ![c] = Tick(c)]
    /\ served' = c /\ said' = messages
    /\ UNCHANGED <<id_map, total, id>>

(* The same for a line that changes nothing else of the client. *)
PlainLine(c, e, table, messages) ==
    /\ Line(c, e, table, messages)
    /\ number_pipe' = Counting(c)
    /\ UNCHANGED <<name, env, own>>

(***************************************************************************)
(* The redirections <n and >n, as COMMAND::COMMAND parses them: what is    *)
(* said about each, and which pipe (at most one) is to be read or written. *)
(***************************************************************************)
(* Mutant of CheckUserPipeId: id_map read one slot off. *)
CheckPreviousId(n) == n - 1 \in Id /\ id_map[n - 1]

(* check_user_pipe_id.  id_map[-1], read for <0 and >0, is the last byte of a   *)
(* pointer member and never 1 on the 64-bit builds.                          *)
CheckUserPipeId(n) == n \in Id /\ id_map[n]

(* Mutant of InKind: does not ask whether the writer is logged in. *)
InKindAnyone(pipe, table) == IF Has(table, pipe) THEN "received" ELSE "noPipe"

InKind(pipe, table) ==
    CASE ~CheckUserPipeId(pipe[1])                       -> "noUser"
      [] CheckUserPipeId(pipe[1]) /\ ~Has(table, pipe)   -> "noPipe"
      [] CheckUserPipeId(pipe[1]) /\ Has(table, pipe)    -> "received"

OutKind(pipe, table) ==
    CASE Has(table, pipe)                                -> "exists"
      [] ~Has(table, pipe) /\ ~CheckUserPipeId(pipe[2])  -> "noUser"
      [] ~Has(table, pipe) /\ CheckUserPipeId(pipe[2])   -> "piped"

In(c, n, table) ==
    LET me == id[c] IN
    IF n = NoRef THEN <<>> ELSE << <<InKind(<<n, me>>, table), n, me>> >>

Out(c, n, table) ==
    LET me == id[c] IN
    IF n = NoRef THEN <<>> ELSE << <<OutKind(<<me, n>>, table), me, n>> >>

Announced(kind, messages) ==
    {Tail(messages[i]) : i \in {j \in DOMAIN messages : messages[j][1] = kind}}

(* The table after the announced pipes are written, and after they are read. *)
Written(messages, table) ==
    FoldSet(LAMBDA pipe, t : Add(t, pipe), table, Announced("piped", messages))
Read(messages, table) ==
    FoldSet(LAMBDA pipe, t : Del(t, pipe), table, Announced("received", messages))
-----------------------------------------------------------------------------
(* setenv v x: the client's env becomes x whatever v is. *)
SetEnv(c, v, x) ==
    /\ Line(c, [EnvironOf(c) EXCEPT ![v] = x], user_pipe, <<>>)
    /\ env' = [env EXCEPT ![c] = x]
    /\ own' = [own EXCEPT ![c][v] = x]
    /\ number_pipe' = Counting(c)
    /\ UNCHANGED <<name, up>>

(* printenv v: strlen(NULL) when v is not set. *)
PrintEnv(c, v) ==
    /\ PlainLine(c, EnvironOf(c), user_pipe, <<>>)
    /\ up' = (EnvironOf(c)[v] # Unset)

(* Mutant of CheckName: the loop returns after the client it meets first. *)
CheckNameOfFirst(new) == \A d \in total : id[d] = 1 => name[d] # new

(* name: refused when any client, this one included, has the name. *)
CheckName(new) == \A d \in total : name[d] # new

ChangeName(c, new) ==
    /\ Line(c, EnvironOf(c), user_pipe, <<>>)
    /\ name' = IF CheckName(new) THEN [name EXCEPT ![c] = new] ELSE name
    /\ number_pipe' = Counting(c)
    /\ UNCHANGED <<env, own, up>>

(* who changes nothing of its own. *)
Who(c) == PlainLine(c, EnvironOf(c), user_pipe, <<>>) /\ UNCHANGED up

CheckId(n) == \E d \in total : id[d] = n

(* A pipe a text says is received is "quoted": it is announced like any,   *)
(* but nobody reads it.                                                     *)
Quoted(messages) ==
    [i \in DOMAIN messages |->
        IF messages[i][1] = "received" THEN <<"quoted">> \o Tail(messages[i]) ELSE messages[i]]

(* tell and yell: the words of the text are parsed for <n and >n like any   *)
(* argument; a pipe to write is created, a pipe to read stays in the table. *)
Chat(c, in, out, messages) ==
    LET redirections == Quoted(In(c, in, user_pipe)) \o Out(c, out, user_pipe) IN
    /\ PlainLine(c, EnvironOf(c), Written(redirections, user_pipe), redirections \o messages)
    /\ UNCHANGED up

Tell(c, n, in, out) ==
    Chat(c, in, out, IF CheckId(n) THEN <<>> ELSE << <<"noUser", id[c], n>> >>)
Yell(c, in, out) == Chat(c, in, out, <<>>)

(* A single command: the pipe to write is created before the fork, the pipe *)
(* to read is deleted after it.                                             *)
Command(c, in, out) ==
    LET messages == In(c, in, user_pipe) \o Out(c, out, user_pipe) IN
    /\ PlainLine(c, EnvironOf(c), Read(messages, Written(messages, user_pipe)), messages)
    /\ UNCHANGED up

(* A line that ends in |N or !N: the client gets a pipe for N lines from    *)
(* now, unless one with that count waits already; then the first command    *)
(* may read a user pipe.                                                    *)
NumberedLine(c, in, n) ==
    LET messages == In(c, in, user_pipe) IN
    /\ Line(c, EnvironOf(c), Read(messages, user_pipe), messages)
    /\ number_pipe' = [number_pipe EXCEPT ![c] =
                         Aim(Waiting(@), n, (Tick(c) + n) % (MaxN + 1))]
    /\ UNCHANGED <<name, env, own, up>>

(* A pipeline: the first stage reads and its pipe is deleted before the     *)
(* last stage is parsed and its pipe created; then the pipe that was read   *)
(* is deleted once more.                                                    *)
Pipeline(c, in, out) ==
    LET first == In(c, in, user_pipe)
        table == Read(first, user_pipe)
        last  == Out(c, out, table) IN
    /\ PlainLine(c, EnvironOf(c), Read(first, Written(last, table)), first \o last)
    /\ UNCHANGED up

(* Mutant of FreeId: the next slot is freed. *)
FreeNextId(n) == [id_map EXCEPT ![n + 1] = FALSE]

FreeId(n) == [id_map EXCEPT ![n] = FALSE]

(* exit: the socket is closed, then Client_Mananger::del frees the number   *)
(* and the user's pipes.                                                    *)
Exit(c) ==
    /\ up /\ c \in total
    /\ id_map' = FreeId(id[c])
    /\ user_pipe' = FreeUserPipe(id[c], user_pipe)
    /\ stale' = {p \in Pipes(user_pipe') : p \in stale \/ id[c] \in {p[1], p[2]}}
    /\ total' = total \ {c}
    /\ id' = Without(id, c) /\ name' = Without(name, c)
    /\ env' = Without(env, c) /\ number_pipe' = Without(number_pipe, c)
    /\ environ' = EnvironOf(c)
    /\ served' = NoOne /\ said' = <<>>
    /\ own' = Without(own, c)
    /\ clock' = Without(clock, c)
    /\ UNCHANGED up
-----------------------------------------------------------------------------
Ref  == Target \cup {NoRef}
Word == ChatRef \cup {NoRef}

BuiltIn(c) ==
    \/ \E v \in Var : PrintEnv(c, v) \/ \E x \in Value : SetEnv(c, v, x)
    \/ \E new \in Name : ChangeName(c, new)
    \/ Who(c)
    \/ \E in \in Word, out \in Word :
          Yell(c, in, out) \/ \E n \in Target : Tell(c, n, in, out)
    \/ Exit(c)

External(c) ==
    \E in \in Ref : \/ \E out \in Ref : Command(c, in, out) \/ Pipeline(c, in, out)
                    \/ \E n \in 1..MaxN : NumberedLine(c, in, n)

Next == \E c \in Fd : (\E n \in Id : Login(c, n)) \/ BuiltIn(c) \/ External(c)

Spec == Init /\ [][Next]_vars
-----------------------------------------------------------------------------
Messages(kind) == Announced(kind, said)
Online(n) == \E c \in total : id[c] = n
OfClient == served \in total      \* the last call was a client's command line

ClientsTypeOK ==
    /\ id_map \in [Id -> BOOLEAN]
    /\ total \subseteq Fd
    /\ id \in [total -> Id]
    /\ name \in [total -> Name \cup {NoName}]
    /\ env \in [total -> Value]
    /\ own \in [total -> [Var -> Value \cup {Unset}]]
    /\ environ \in [Var -> Value \cup {Unset}]
    /\ up \in BOOLEAN
    /\ served \in Fd \cup {NoOne}

PipesTypeOK ==
    /\ number_pipe \in [total -> Seq([number : 1..MaxN, due : 0..MaxN])]
    /\ clock \in [total -> 0..MaxN]
    /\ user_pipe \in Seq(Id \X Id)
    /\ stale \subseteq Pipes(user_pipe)

(* The values each variable can have. *)
TypeOK == ClientsTypeOK /\ PipesTypeOK

(* check_user_pipe_id looks a number up in id_map, check_id, get_fd_from_id *)
(* and from_id_get_name look it up in total and fall off their end when it  *)
(* is not there: the two agree, and no number has two clients.              *)
IdsAgree ==
    /\ \A n \in Id : id_map[n] <=> Online(n)
    /\ \A c, d \in total : id[c] = id[d] => c = d

(* Two users never have the same name, unless both asked for none. *)
NamesDiffer ==
    \A c, d \in total :
        c # d /\ name[c] = name[d] => name[c] = NoName

(* However the clients take turns and whatever the others set, a command    *)
(* line of a user who sets no variable but PATH runs with the PATH that     *)
(* user set last.  (setenv of any other variable overwrites it, see SetEnv.) *)
PathOnly(c) == \A v \in Var \ {Path} : own[c][v] = Unset

OwnPath ==
    /\ \A c \in total : PathOnly(c) => env[c] = own[c][Path]
    /\ OfClient /\ PathOnly(served) => environ[Path] = own[served][Path]

(* Every waiting numbered pipe is read exactly on the line its writers      *)
(* asked for, and a line never finds two of them to read.                   *)
CountsOnSchedule ==
    \A c \in total :
        LET pipes == number_pipe[c] IN
        /\ \A i \in DOMAIN pipes :
              pipes[i].due = (clock[c] + pipes[i].number) % (MaxN + 1)
        /\ \A i, j \in DOMAIN pipes : pipes[i].number = pipes[j].number => i = j

(* There is at most one pipe from one user to another, whatever was left    *)
(* in the table by users gone: the first entry found is the only one.       *)
OnePipePerPair ==
    \A i, j \in DOMAIN user_pipe : user_pipe[i] = user_pipe[j] => i = j

(* Both users an announcement names are logged in when it is made, also one *)
(* that the text of a tell or a yell sets off.                              *)
AnnouncedUsersOnline ==
    \A pipe \in Messages("received") \cup Messages("quoted") \cup Messages("piped") :
        Online(pipe[1]) /\ Online(pipe[2])

(* A command line changes the table of user pipes by exactly what it        *)
(* announces, except that a pipe only quoted in a text stays; leaving aside *)
(* a user's pipe to itself.                                                 *)
TableMovesAsAnnounced ==
    [][OfClient' =>
        {p \in Pipes(user_pipe') : p[1] # p[2]} =
            {p \in (Pipes(user_pipe) \ Messages("received")') \cup Messages("piped")' :
                p[1] # p[2]}]_vars

(* What a user is refused is refused for a reason: the pipe does exist, it  *)
(* does not, or one of the two users is not logged in.                      *)
RefusalsAreTrue ==
    [][/\ Messages("exists")' \subseteq Pipes(user_pipe)
       /\ Messages("noPipe")' \cap Pipes(user_pipe) = {}
       /\ \A pipe \in Messages("noUser")' : ~(Online(pipe[1]) /\ Online(pipe[2]))]_vars

(* free_user_pipe misses a pipe of the leaving user only just behind one it *)
(* closed: of two neighbours in the table at least one goes.                *)
NeighboursNotBothLeft ==
    [][\A c \in total \ total' : \A i \in 1..Len(user_pipe) - 1 :
        LET Kept(k) == /\ id[c] \in {user_pipe[k][1], user_pipe[k][2]}
                       /\ user_pipe[k] \in Pipes(user_pipe')
        IN  ~(Kept(i) /\ Kept(i + 1))]_vars

(* What the users promise each other, seen without sockets: the user under  *)
(* each number in use, and no others.                                       *)
Users == [n \in {id[c] : c \in total} |-> name[CHOOSE c \in total : id[c] = n]]

Directory == INSTANCE UserDirectory WITH user <- Users
DirectorySpec == Directory!Spec
-----------------------------------------------------------------------------
(* A statement of the assignment (NP_Project2_Spec.pdf) the program breaks: *)
(* "a new client who gets your client id can't receive the message because  *)
(* the pipe is gone".  No pipe outlives a session at either end.            *)
PipesCloseWithUser == stale = {}
=============================================================================

----------------------------- MODULE RwgProofs -----------------------------
(***************************************************************************)
(* Theorems about Rwg for every number of sockets, ids, names, variables  *)
(* and values.  They rest on three inductive invariants: ClientsInv, of    *)
(* the clients and the id map; PipesInv, of the table of user pipes, which *)
(* needs the first; and NumbersInv, of the numbered pipes.                 *)
(***************************************************************************)
EXTENDS Rwg, Induction, SequenceTheorems

ClientsInv == ClientsTypeOK /\ IdsAgree /\ NamesDiffer

(* The four kinds of call, as far as the fields of the clients go. *)
Entering(c) ==
    /\ c \in Fd /\ \E n \in Id : Login(c, n)

Setting(c) ==
    /\ c \in total
    /\ \E v \in Var, x \in Value : SetEnv(c, v, x)

Renaming(c) ==
    /\ c \in total
    /\ \E new \in Name : ChangeName(c, new)

(* A line that changes neither the environments nor the clients. *)
Using(c) ==
    /\ c \in total /\ served' = c
    /\ environ' = EnvironOf(c)
    /\ up' \in BOOLEAN
    /\ UNCHANGED <<id_map, total, id, name, env, own>>

Leaving(c) ==
    /\ c \in Fd /\ Exit(c)

LEMMA PrintIsUsing ==
    ASSUME NEW c \in Fd, NEW v \in Var, PrintEnv(c, v)
    PROVE  Using(c)
  BY DEF PrintEnv, PlainLine, Line, Using

LEMMA PlainIsUsing ==
    ASSUME NEW c \in Fd, NEW table, NEW messages,
           up \in BOOLEAN,
           PlainLine(c, EnvironOf(c), table, messages), up' = up
    PROVE  Using(c)
  BY DEF PlainLine, Line, Using

LEMMA ChatIsUsing ==
    ASSUME NEW c \in Fd, NEW in, NEW out, NEW messages,
           up \in BOOLEAN, Chat(c, in, out, messages)
    PROVE  Using(c)
  BY PlainIsUsing DEF Chat

LEMMA NumberedIsUsing ==
    ASSUME NEW c \in Fd, NEW in, NEW n, up \in BOOLEAN, NumberedLine(c, in, n)
    PROVE  Using(c)
  BY DEF NumberedLine, Line, Using

LEMMA CallKinds ==
    ASSUME Next, up \in BOOLEAN
    PROVE  \E c \in Fd : \/ Entering(c) \/ Setting(c) \/ Renaming(c)
                         \/ Using(c) \/ Leaving(c)
<1>1. PICK c \in Fd : (\E n \in Id : Login(c, n)) \/ BuiltIn(c) \/ External(c)
  BY DEF Next
<1>2. CASE \E n \in Id : Login(c, n)
  BY <1>2 DEF Entering
<1>3. CASE BuiltIn(c)
  <2>1. CASE \E v \in Var : PrintEnv(c, v)
    BY <2>1, PrintIsUsing
  <2>2. CASE \E v \in Var, x \in Value : SetEnv(c, v, x)
    BY <2>2 DEF SetEnv, Line, Setting
  <2>3. CASE \E new \in Name : ChangeName(c, new)
    BY <2>3 DEF ChangeName, Line, Renaming
  <2>4. CASE Who(c)
    BY <2>4, PlainIsUsing DEF Who
  <2>5. CASE \E in \in Word, out \in Word :
                Yell(c, in, out) \/ \E n \in Target : Tell(c, n, in, out)
    <3>1. PICK in \in Word, out \in Word :
                Yell(c, in, out) \/ \E n \in Target : Tell(c, n, in, out)
      BY <2>5
    <3>2. CASE Yell(c, in, out)
      BY <3>2, ChatIsUsing DEF Yell
    <3>3. ASSUME NEW n \in Target, Tell(c, n, in, out)
          PROVE  Using(c)
      BY <3>3, ChatIsUsing DEF Tell
    <3> QED
      BY <3>1, <3>2, <3>3
  <2>6. CASE Exit(c)
    BY <2>6 DEF Leaving
  <2> QED
    BY <1>3, <2>1, <2>2, <2>3, <2>4, <2>5, <2>6 DEF BuiltIn
<1>4. CASE External(c)
  <2>1. CASE \E in \in Ref, out \in Ref : Command(c, in, out)
    BY <2>1, PlainIsUsing DEF Command
  <2>2. CASE \E in \in Ref, out \in Ref : Pipeline(c, in, out)
    BY <2>2, PlainIsUsing DEF Pipeline
  <2>3. CASE \E in \in Ref, n \in 1..MaxN : NumberedLine(c, in, n)
    BY <2>3, NumberedIsUsing
  <2> QED
    BY <1>4, <2>1, <2>2, <2>3 DEF External
<1> QED
  BY <1>1, <1>2, <1>3, <1>4
-----------------------------------------------------------------------------
LEMMA ClientsInit == Init => ClientsInv
  BY RwgAssumption DEF Init, ClientsInv, ClientsTypeOK, IdsAgree, NamesDiffer,
                       OfEach, Online, Id


LEMMA EnteringKeeps ==
    ASSUME ClientsInv, NEW c, Entering(c)
    PROVE  ClientsInv'
<1>1. PICK n \in Id : Login(c, n)
  BY DEF Entering
<1>2. ClientsTypeOK /\ IdsAgree /\ NamesDiffer
  BY DEF ClientsInv
<1>3. /\ ~id_map[n] /\ id_map' = [id_map EXCEPT ![n] = TRUE]
      /\ c \notin total /\ total' = total \cup {c}
      /\ id' = With(id, c, n) /\ name' = With(name, c, NoName)
  BY <1>1 DEF Login, OccupyId
<1>4. ClientsTypeOK'
  BY RwgAssumption, <1>1, <1>2 DEF Entering, Login, ClientsTypeOK, With
<1>5. id'[c] = n /\ \A d \in total : id'[d] = id[d]
  BY <1>2, <1>3 DEF ClientsTypeOK, With
<1>6. id_map'[n] /\ \A m \in Id \ {n} : id_map'[m] = id_map[m]
  BY <1>2, <1>3, Zenon DEF ClientsTypeOK
<1>7. \A d \in total : id[d] # n
  BY <1>2, <1>3 DEF IdsAgree, Online
<1>8. IdsAgree'
  BY <1>2, <1>3, <1>5, <1>6, <1>7 DEF IdsAgree, Online
<1>9. NamesDiffer'
  BY <1>2, <1>3 DEF ClientsTypeOK, NamesDiffer, With
<1> QED
  BY <1>4, <1>8, <1>9 DEF ClientsInv

LEMMA SettingKeeps ==
    ASSUME ClientsInv, NEW c, Setting(c)
    PROVE  ClientsInv'
<1>1. PICK v \in Var, x \in Value : SetEnv(c, v, x)
  BY DEF Setting
<1> USE RwgAssumption, <1>1 DEF ClientsInv, Setting, SetEnv, Line
<1>2. ClientsTypeOK'
  BY DEF ClientsTypeOK, EnvironOf
<1>3. IdsAgree' /\ NamesDiffer'
  BY DEF IdsAgree, Online, NamesDiffer
<1> QED
  BY <1>2, <1>3

LEMMA RenamingKeeps ==
    ASSUME ClientsInv, NEW c, Renaming(c)
    PROVE  ClientsInv'
<1>1. PICK new \in Name : ChangeName(c, new)
  BY DEF Renaming
<1> USE RwgAssumption, <1>1 DEF ClientsInv, Renaming, ChangeName, Line
<1>2. ClientsTypeOK'
  BY DEF ClientsTypeOK, EnvironOf
<1>3. IdsAgree'
  BY DEF IdsAgree, Online
<1>4. NamesDiffer'
  BY DEF ClientsTypeOK, NamesDiffer, CheckName
<1> QED
  BY <1>2, <1>3, <1>4

LEMMA UsingKeeps ==
    ASSUME ClientsInv, NEW c, Using(c)
    PROVE  ClientsInv'
<1> USE RwgAssumption DEF ClientsInv, Using
<1>1. environ' \in [Var -> Value \cup {Unset}]
  BY DEF ClientsTypeOK, EnvironOf
<1>2. ClientsTypeOK'
  BY <1>1 DEF ClientsTypeOK
<1>3. IdsAgree' /\ NamesDiffer'
  BY DEF IdsAgree, Online, NamesDiffer
<1> QED
  BY <1>2, <1>3

LEMMA LeavingKeeps ==
    ASSUME ClientsInv, NEW c, Leaving(c)
    PROVE  ClientsInv'
<1>1. /\ c \in total /\ total' = total \ {c}
      /\ id_map' = [id_map EXCEPT ![id[c]] = FALSE]
      /\ id' = Without(id, c) /\ name' = Without(name, c)
  BY DEF Leaving, Exit, FreeId
<1> USE RwgAssumption DEF ClientsInv
<1>2. ClientsTypeOK'
  BY DEF Leaving, Exit, FreeId, ClientsTypeOK, Without, EnvironOf
<1>3. IdsAgree'
  <2>1. \A d \in total' : d \in total /\ id'[d] = id[d]
    BY <1>1 DEF ClientsTypeOK, Without
  <2> QED
    BY <1>1, <2>1 DEF ClientsTypeOK, IdsAgree, Online
<1>4. NamesDiffer'
  BY <1>1 DEF ClientsTypeOK, NamesDiffer, Without
<1> QED
  BY <1>2, <1>3, <1>4

LEMMA StutterKeeps ==
    ASSUME ClientsInv, UNCHANGED vars
    PROVE  ClientsInv'
  BY DEF ClientsInv, vars, ClientsTypeOK, IdsAgree, Online, NamesDiffer

LEMMA ClientsStep ==
    ASSUME ClientsInv, [Next]_vars
    PROVE  ClientsInv'
<1> SUFFICES ASSUME Next
             PROVE  ClientsInv'
  BY StutterKeeps
<1>1. up \in BOOLEAN
  BY DEF ClientsInv, ClientsTypeOK
<1> QED
  BY <1>1, CallKinds, EnteringKeeps, SettingKeeps, RenamingKeeps,
     UsingKeeps, LeavingKeeps

(* The clients and the id map are consistent in every reachable state. *)
THEOREM ClientsAlways == Spec => []ClientsInv
  BY ClientsInit, ClientsStep, PTL DEF Spec

(* id_map and total never disagree about who is logged in, and no number    *)
(* is given to two clients.                                                 *)
THEOREM IdsAlwaysAgree == Spec => []IdsAgree
  BY ClientsAlways, PTL DEF ClientsInv

(* cmd_change_name never gives a name another user has. *)
THEOREM NamesAlwaysDiffer == Spec => []NamesDiffer
  BY ClientsAlways, PTL DEF ClientsInv

(* The fields of the clients and the environment keep their types. *)
THEOREM ClientsAlwaysTyped == Spec => []ClientsTypeOK
  BY ClientsAlways, PTL DEF ClientsInv
-----------------------------------------------------------------------------
(* Every command line of a user who sets no variable but PATH runs with the *)
(* PATH that user set last.                                                 *)
LEMMA OwnPathStep ==
    ASSUME ClientsInv, OwnPath, [Next]_vars
    PROVE  OwnPath'
<1> USE RwgAssumption DEF OwnPath, PathOnly, OfClient
<1>1. ClientsTypeOK /\ NoOne \notin total'
  <2>1. ClientsTypeOK /\ ClientsTypeOK'
    BY ClientsStep DEF ClientsInv
  <2> QED
    BY <2>1 DEF ClientsTypeOK
<1>2. CASE UNCHANGED vars
  BY <1>2 DEF vars
<1>3. ASSUME NEW c \in Fd, Entering(c)
      PROVE  OwnPath'
  <2>1. PICK n \in Id : Login(c, n)
    BY <1>3 DEF Entering
  <2> QED
    BY <1>1, <2>1 DEF Login, ClientsTypeOK, With
<1>4. ASSUME NEW c \in Fd, Setting(c)
      PROVE  OwnPath'
  <2>1. PICK v \in Var, x \in Value : c \in total /\ SetEnv(c, v, x)
    BY <1>4 DEF Setting
  <2>2. /\ env' = [env EXCEPT ![c] = x] /\ own' = [own EXCEPT ![c][v] = x]
        /\ environ' = [EnvironOf(c) EXCEPT ![v] = x]
        /\ served' = c /\ total' = total
    BY <2>1 DEF SetEnv, Line
  <2>3. /\ env'[c] = x /\ own'[c][v] = x
        /\ \A d \in total \ {c} : env'[d] = env[d] /\ own'[d] = own[d]
    BY <1>1, <2>1, <2>2 DEF ClientsTypeOK
  <2>4. v = Path => environ'[Path] = x
    BY <1>1, <2>2 DEF EnvironOf, ClientsTypeOK
  <2> QED
    BY <2>1, <2>2, <2>3, <2>4
<1>5. ASSUME NEW c \in Fd, Renaming(c)
      PROVE  OwnPath'
  <2>1. PICK new \in Name : ChangeName(c, new)
    BY <1>5 DEF Renaming
  <2> QED
    BY <1>1, <2>1 DEF ChangeName, Line, EnvironOf, ClientsTypeOK
<1>6. ASSUME NEW c \in Fd, Using(c)
      PROVE  OwnPath'
  BY <1>1, <1>6 DEF Using, EnvironOf, ClientsTypeOK
<1>7. ASSUME NEW c \in Fd, Leaving(c)
      PROVE  OwnPath'
  BY <1>1, <1>7 DEF Leaving, Exit, Without, ClientsTypeOK
<1> QED
  BY <1>1, <1>2, <1>3, <1>4, <1>5, <1>6, <1>7, CallKinds DEF ClientsTypeOK

THEOREM PathAlwaysOwn == Spec => []OwnPath
<1>1. Init => OwnPath
  BY RwgAssumption DEF Init, OwnPath, OfClient
<1> QED
  BY <1>1, OwnPathStep, ClientsAlways, PTL DEF Spec
-----------------------------------------------------------------------------
(* The working ground implements UserDirectory: Users is the refinement     *)
(* mapping, a connection is a Login of the smallest free number, an exit a  *)
(* Logout, a name change that is not refused a Rename, and every other line *)
(* a stutter.                                                               *)
LEMMA UsersDomain == DOMAIN Users = {id[c] : c \in total}
  BY DEF Users

LEMMA UsersFunction == /\ Users = [n \in DOMAIN Users |-> Users[n]]
                       /\ Users' = [n \in DOMAIN Users' |-> Users'[n]]
  BY DEF Users

LEMMA UserOf ==
    ASSUME IdsAgree, NEW c \in total
    PROVE  Users[id[c]] = name[c]
  BY DEF Users, IdsAgree

LEMMA UserOfNext ==
    ASSUME IdsAgree', NEW c \in total'
    PROVE  Users'[id'[c]] = name'[c]
  BY DEF Users, IdsAgree

LEMMA EnteringIsLogin ==
    ASSUME ClientsInv, ClientsInv', NEW c, Entering(c)
    PROVE  Directory!Login
<1>1. PICK n \in Id : Login(c, n)
  BY DEF Entering
<1>2. /\ c \notin total /\ total' = total \cup {c}
      /\ id' = With(id, c, n) /\ name' = With(name, c, NoName)
  BY <1>1 DEF Login
<1>3. n \in Directory!Free /\ \A m \in Directory!Free : n <= m
  BY <1>1, RwgAssumption, UsersDomain
     DEF Login, OccupyId, Directory!Free, ClientsInv, IdsAgree, Online, Id
<1>4. \A d \in total' : /\ id'[d] = IF d = c THEN n ELSE id[d]
                        /\ name'[d] = IF d = c THEN NoName ELSE name[d]
  BY <1>2 DEF ClientsInv, ClientsTypeOK, With
<1>5. DOMAIN Users' = DOMAIN Users \cup {n}
  BY <1>2, <1>4, UsersDomain DEF Users
<1>6. Users'[n] = NoName
  BY <1>2, <1>4, UserOfNext DEF ClientsInv
<1>7. ASSUME NEW m \in DOMAIN Users
      PROVE  Users'[m] = Users[m] /\ m # n
  <2>1. PICK d \in total : id[d] = m
    BY UsersDomain
  <2>2. Users[m] = name[d]
    BY <2>1, UserOf DEF ClientsInv
  <2>3. Users'[m] = name[d]
    BY <1>2, <1>4, <2>1, UserOfNext DEF ClientsInv
  <2> QED
    BY <1>3, <2>2, <2>3 DEF Directory!Free
<1>8. Users' = [m \in DOMAIN Users \cup {n} |-> IF m = n THEN NoName ELSE Users[m]]
  BY <1>5, <1>6, <1>7, UsersFunction
<1> QED
  BY <1>3, <1>8 DEF Directory!Login

LEMMA LeavingIsLogout ==
    ASSUME ClientsInv, ClientsInv', NEW c, Leaving(c)
    PROVE  id[c] \in DOMAIN Users /\ Directory!Logout(id[c])
<1>1. /\ c \in total /\ total' = total \ {c}
      /\ id' = Without(id, c) /\ name' = Without(name, c)
  BY DEF Leaving, Exit
<1>2. \A d \in total' : d \in total /\ id'[d] = id[d] /\ name'[d] = name[d]
  BY <1>1 DEF ClientsInv, ClientsTypeOK, Without
<1>3. DOMAIN Users' = DOMAIN Users \ {id[c]}
  BY <1>1, <1>2, UsersDomain DEF Users, ClientsInv, IdsAgree
<1>4. ASSUME NEW m \in DOMAIN Users'
      PROVE  Users'[m] = Users[m]
  <2>1. PICK d \in total' : id'[d] = m
    BY DEF Users
  <2> QED
    BY <1>2, <2>1, UserOf, UserOfNext DEF ClientsInv
<1>5. Users' = [m \in DOMAIN Users \ {id[c]} |-> Users[m]]
  BY <1>3, <1>4, UsersFunction
<1> QED
  BY <1>1, <1>5, UsersDomain DEF Directory!Logout

LEMMA RenamingIsRename ==
    ASSUME ClientsInv, ClientsInv', NEW c, Renaming(c)
    PROVE  [Directory!Next]_Users
<1>1. PICK new \in Name : ChangeName(c, new)
  BY DEF Renaming
<1>2. c \in total /\ total' = total /\ id' = id
  BY <1>1 DEF Renaming, ChangeName, Line
<1>3. CASE ~CheckName(new)
  <2>1. name' = name
    BY <1>1, <1>3 DEF ChangeName
  <2> QED
    BY <1>2, <2>1 DEF Users
<1>4. CASE CheckName(new)
  <2>1. name' = [name EXCEPT ![c] = new]
    BY <1>1, <1>4 DEF ChangeName
  <2>2. \A m \in DOMAIN Users : Users[m] # new
    BY <1>4, UsersDomain, UserOf DEF CheckName, ClientsInv
  <2>3. DOMAIN Users' = DOMAIN Users
    BY <1>2 DEF Users
  <2>4. ASSUME NEW m \in DOMAIN Users
        PROVE  Users'[m] = IF m = id[c] THEN new ELSE Users[m]
    <3>1. PICK d \in total : id[d] = m
      BY UsersDomain
    <3>2. Users[m] = name[d] /\ Users'[m] = name'[d]
      BY <1>2, <3>1, UserOf, UserOfNext DEF ClientsInv
    <3>3. d = c <=> m = id[c]
      BY <1>2, <3>1 DEF ClientsInv, IdsAgree
    <3> QED
      BY <1>2, <2>1, <3>2, <3>3 DEF ClientsInv, ClientsTypeOK
  <2>5. Users' = [Users EXCEPT ![id[c]] = new]
    BY <2>3, <2>4, UsersFunction
  <2> QED
    BY <1>2, <2>2, <2>5, UsersDomain DEF Directory!Rename, Directory!Next
<1> QED
  BY <1>3, <1>4

THEOREM DirectoryHolds == Spec => DirectorySpec
<1>1. Init => Directory!Init
  BY RwgAssumption DEF Init, Directory!Init, OfEach, Users
<1>2. ASSUME ClientsInv, ClientsInv', [Next]_vars
      PROVE  [Directory!Next]_Users
  <2>1. CASE UNCHANGED vars
    BY <2>1 DEF vars, Users
  <2>2. ASSUME NEW c, Setting(c) \/ Using(c)
        PROVE  Users' = Users
    <3>1. UNCHANGED <<total, id, name>>
      BY <2>2 DEF Setting, SetEnv, Line, Using
    <3> QED
      BY <3>1 DEF Users
  <2>3. ASSUME NEW c, Entering(c)
        PROVE  Directory!Next
    BY <1>2, <2>3, EnteringIsLogin DEF Directory!Next
  <2>4. ASSUME NEW c, Leaving(c)
        PROVE  Directory!Next
    BY <1>2, <2>4, LeavingIsLogout DEF Directory!Next
  <2>5. up \in BOOLEAN
    BY <1>2 DEF ClientsInv, ClientsTypeOK
  <2> QED
    BY <1>2, <2>1, <2>2, <2>3, <2>4, <2>5, RenamingIsRename, CallKinds
<1> QED
  BY <1>1, <1>2, ClientsAlways, PTL DEF Spec, DirectorySpec, Directory!Spec
-----------------------------------------------------------------------------
(* The table of user pipes: adding to it, deleting from it. *)
Distinct(table) == \A i, j \in DOMAIN table : table[i] = table[j] => i = j

LEMMA AddIs ==
    ASSUME NEW S, NEW table \in Seq(S), NEW pipe \in S
    PROVE  /\ Add(table, pipe) \in Seq(S)
           /\ Pipes(Add(table, pipe)) = Pipes(table) \cup {pipe}
           /\ Distinct(table) => Distinct(Add(table, pipe))
<1>1. CASE Has(table, pipe)
  BY <1>1 DEF Add, Has, Pipes
<1>2. CASE ~Has(table, pipe)
  <2> DEFINE longer == Append(table, pipe)
  <2>1. longer \in Seq(S) /\ DOMAIN longer = 1..Len(table) + 1 /\ longer[Len(table) + 1] = pipe
    OBVIOUS
  <2>2. Len(table) \in Nat /\ DOMAIN table = 1..Len(table)
    OBVIOUS
  <2>3. \A i \in 1..Len(table) : longer[i] = table[i]
    OBVIOUS
  <2>4. \A i \in 1..Len(table) + 1 : i \in 1..Len(table) \/ i = Len(table) + 1
    BY <2>2
  <2>5. Add(table, pipe) = longer
    BY <1>2 DEF Add
  <2> HIDE DEF longer
  <2>6. Pipes(longer) = Pipes(table) \cup {pipe}
    BY <2>1, <2>2, <2>3, <2>4 DEF Pipes
  <2>7. Distinct(table) => Distinct(longer)
    BY <1>2, <2>1, <2>2, <2>3, <2>4 DEF Distinct, Has
  <2> QED
    BY <2>1, <2>5, <2>6, <2>7
<1> QED
  BY <1>1, <1>2

LEMMA DelIs ==
    ASSUME NEW S, NEW table \in Seq(S), NEW pipe
    PROVE  /\ Del(table, pipe) \in Seq(S)
           /\ Distinct(table) => /\ Distinct(Del(table, pipe))
                                 /\ Pipes(Del(table, pipe)) = Pipes(table) \ {pipe}
<1>1. CASE ~Has(table, pipe)
  BY <1>1 DEF Del, Has, Pipes
<1>2. CASE Has(table, pipe)
  <2> DEFINE I == {i \in 1..Len(table) : table[i] = pipe}
             k == Min(I)
             shorter == SubSeq(table, 1, k - 1) \o SubSeq(table, k + 1, Len(table))
  <2>1. Len(table) \in Nat /\ DOMAIN table = 1..Len(table)
    OBVIOUS
  <2>2. I \subseteq Nat /\ I # {}
    BY <1>2, <2>1 DEF Has
  <2>3. k \in I
    <3>1. \E n \in I : \A m \in I : n <= m
      <4> HIDE DEF I
      <4> QED
        BY <2>2, Least
    <3> QED
      BY <3>1 DEF Min
  <2>4. Del(table, pipe) = shorter
    <3>1. Del(table, pipe) = RemoveAt(table, k)
      BY <1>2, <2>2, Zenon DEF Del, SelectInSeq
    <3> QED
      BY <3>1 DEF RemoveAt
  <2>5. k \in 1..Len(table) /\ table[k] = pipe
    BY <2>3
  <2> HIDE DEF k, I
  <2>6. /\ shorter \in Seq(S)
        /\ DOMAIN shorter = 1..Len(table) - 1
        /\ \A i \in 1..Len(table) - 1 : shorter[i] = IF i < k THEN table[i] ELSE table[i + 1]
    <3> DEFINE front == SubSeq(table, 1, k - 1)
               back  == SubSeq(table, k + 1, Len(table))
    <3>1. /\ front \in Seq(S) /\ Len(front) = k - 1
          /\ \A i \in 1..k - 1 : front[i] = table[i]
      BY <2>5
    <3>2. /\ back \in Seq(S) /\ Len(back) = Len(table) - k
          /\ \A i \in 1..Len(table) - k : back[i] = table[k + i]
      BY <2>5
    <3>3. shorter = front \o back
      OBVIOUS
    <3> HIDE DEF front, back, shorter
    <3>4. shorter \in Seq(S) /\ DOMAIN shorter = 1..Len(table) - 1
      BY <3>1, <3>2, <3>3, <2>5
    <3>5. ASSUME NEW i \in 1..Len(table) - 1, i < k
          PROVE  shorter[i] = table[i]
      BY <3>1, <3>2, <3>3, <3>5, <2>5
    <3>6. ASSUME NEW i \in 1..Len(table) - 1, i >= k
          PROVE  shorter[i] = table[i + 1]
      <4>1. shorter[i] = back[i - (k - 1)] /\ i - (k - 1) \in 1..Len(table) - k
        BY <3>1, <3>2, <3>3, <3>6, <2>5
      <4>2. k + (i - (k - 1)) = i + 1
        BY <2>5
      <4> QED
        BY <3>2, <4>1, <4>2
    <3> QED
      BY <3>4, <3>5, <3>6, <2>5
  <2> HIDE DEF shorter
  <2>7. ASSUME Distinct(table)
        PROVE  Distinct(shorter)
    <3> DEFINE place(i) == IF i < k THEN i ELSE i + 1
    <3>1. \A i \in 1..Len(table) - 1 : place(i) \in 1..Len(table) /\ shorter[i] = table[place(i)]
      BY <2>1, <2>5, <2>6
    <3>2. \A i, j \in 1..Len(table) - 1 : place(i) = place(j) => i = j
      BY <2>1, <2>5
    <3> HIDE DEF place
    <3> QED
      BY <2>1, <2>6, <2>7, <3>1, <3>2 DEF Distinct
  <2>8. ASSUME Distinct(table)
        PROVE  Pipes(shorter) = Pipes(table) \ {pipe}
    <3>1. \A i \in 1..Len(table) - 1 : shorter[i] \in Pipes(table) /\ shorter[i] # pipe
      BY <2>1, <2>5, <2>6, <2>8 DEF Distinct, Pipes
    <3>2. ASSUME NEW j \in 1..Len(table), table[j] # pipe
          PROVE  table[j] \in Pipes(shorter)
      <4>1. CASE j < k
        <5>1. j \in 1..Len(table) - 1 /\ shorter[j] = table[j]
          BY <2>1, <2>5, <2>6, <4>1
        <5> QED
          BY <2>6, <5>1 DEF Pipes
      <4>2. CASE j > k
        <5>1. j - 1 \in 1..Len(table) - 1 /\ shorter[j - 1] = table[j]
          BY <2>1, <2>5, <2>6, <4>2
        <5> QED
          BY <2>6, <5>1 DEF Pipes
      <4> QED
        BY <3>2, <4>1, <4>2, <2>1, <2>5
    <3> QED
      BY <3>1, <3>2, <2>1, <2>6 DEF Pipes
  <2> QED
    BY <2>4, <2>6, <2>7, <2>8
<1> QED
  BY <1>1, <1>2

LEMMA WrittenIs ==
    ASSUME NEW messages, NEW table, NEW pipe, Announced("piped", messages) \subseteq {pipe}
    PROVE  Written(messages, table) =
              IF Announced("piped", messages) = {} THEN table ELSE Add(table, pipe)
<1> DEFINE A == Announced("piped", messages)
           Loop(f) == f = [s \in SUBSET A |->
                             IF s = {} THEN table
                             ELSE LET x == CHOOSE x \in s : TRUE IN Add(f[s \ {x}], x)]
           iter == CHOOSE f : Loop(f)
           once == [s \in SUBSET A |-> IF s = {} THEN table ELSE Add(table, pipe)]
<1>1. Written(messages, table) = iter[A]
  BY Zenon DEF Written, FoldSet, MapThenFoldSet
<1>2. A \subseteq {pipe}
  OBVIOUS
<1> HIDE DEF A
<1>3. ASSUME NEW s \in SUBSET A, s # {}
      PROVE  (CHOOSE x \in s : TRUE) = pipe /\ s \ {pipe} = {} /\ {} \in SUBSET A
  BY <1>2, <1>3
<1>4. Loop(once)
  <2>1. ASSUME NEW s \in SUBSET A, s # {}
        PROVE  once[s] = Add(once[s \ {CHOOSE x \in s : TRUE}], CHOOSE x \in s : TRUE)
    BY <1>3, <2>1
  <2> QED
    BY <2>1
<1>5. Loop(iter)
  <2> HIDE DEF Loop
  <2> QED
    BY <1>4, Zenon
<1> HIDE DEF iter
<1>6. iter[{}] = table
  BY <1>5
<1>7. A # {} => iter[A] = Add(table, pipe)
  BY <1>3, <1>5, <1>6
<1> QED
  BY <1>1, <1>6, <1>7 DEF A

LEMMA ReadIs ==
    ASSUME NEW messages, NEW table, NEW pipe, Announced("received", messages) \subseteq {pipe}
    PROVE  Read(messages, table) =
              IF Announced("received", messages) = {} THEN table ELSE Del(table, pipe)
<1> DEFINE A == Announced("received", messages)
           Loop(f) == f = [s \in SUBSET A |->
                             IF s = {} THEN table
                             ELSE LET x == CHOOSE x \in s : TRUE IN Del(f[s \ {x}], x)]
           iter == CHOOSE f : Loop(f)
           once == [s \in SUBSET A |-> IF s = {} THEN table ELSE Del(table, pipe)]
<1>1. Read(messages, table) = iter[A]
  BY Zenon DEF Read, FoldSet, MapThenFoldSet
<1>2. A \subseteq {pipe}
  OBVIOUS
<1> HIDE DEF A
<1>3. ASSUME NEW s \in SUBSET A, s # {}
      PROVE  (CHOOSE x \in s : TRUE) = pipe /\ s \ {pipe} = {} /\ {} \in SUBSET A
  BY <1>2, <1>3
<1>4. Loop(once)
  <2>1. ASSUME NEW s \in SUBSET A, s # {}
        PROVE  once[s] = Del(once[s \ {CHOOSE x \in s : TRUE}], CHOOSE x \in s : TRUE)
    BY <1>3, <2>1
  <2> QED
    BY <2>1
<1>5. Loop(iter)
  <2> HIDE DEF Loop
  <2> QED
    BY <1>4, Zenon
<1> HIDE DEF iter
<1>6. iter[{}] = table
  BY <1>5
<1>7. A # {} => iter[A] = Del(table, pipe)
  BY <1>3, <1>5, <1>6
<1> QED
  BY <1>1, <1>6, <1>7 DEF A


LEMMA AnnouncedIn ==
    ASSUME NEW kind, NEW messages, NEW pipe
    PROVE  pipe \in Announced(kind, messages) <=>
              \E i \in DOMAIN messages : messages[i][1] = kind /\ pipe = Tail(messages[i])
  BY Zenon DEF Announced

LEMMA AnnouncedNone == \A kind : Announced(kind, <<>>) = {}
  BY DEF Announced

LEMMA AnnouncedOne ==
    ASSUME NEW kind, NEW k, NEW a, NEW b
    PROVE  Announced(kind, << <<k, a, b>> >>) = IF k = kind THEN {<<a, b>>} ELSE {}
<1> DEFINE messages == << <<k, a, b>> >>
<1>1. DOMAIN messages = {1} /\ messages[1][1] = k /\ Tail(messages[1]) = <<a, b>>
  OBVIOUS
<1> HIDE DEF messages
<1>2. ASSUME NEW pipe
      PROVE  pipe \in Announced(kind, messages) <=> k = kind /\ pipe = <<a, b>>
  <2>1. (\E i \in DOMAIN messages : messages[i][1] = kind /\ pipe = Tail(messages[i]))
           <=> k = kind /\ pipe = <<a, b>>
    BY <1>1
  <2> QED
    BY <2>1, AnnouncedIn
<1> QED
  BY <1>2 DEF messages

LEMMA AnnouncedBoth ==
    ASSUME NEW S, NEW first \in Seq(S), NEW second \in Seq(S), NEW kind
    PROVE  Announced(kind, first \o second) =
              Announced(kind, first) \cup Announced(kind, second)
<1> DEFINE both == first \o second
<1>1. ASSUME NEW i \in DOMAIN both
      PROVE  \/ i \in DOMAIN first /\ both[i] = first[i]
             \/ i - Len(first) \in DOMAIN second /\ both[i] = second[i - Len(first)]
  OBVIOUS
<1>2. ASSUME NEW i \in DOMAIN first
      PROVE  i \in DOMAIN both /\ both[i] = first[i]
  OBVIOUS
<1>3. ASSUME NEW i \in DOMAIN second
      PROVE  i + Len(first) \in DOMAIN both /\ both[i + Len(first)] = second[i]
  OBVIOUS
<1> HIDE DEF both
<1>4. ASSUME NEW pipe
      PROVE  pipe \in Announced(kind, both) <=>
                pipe \in Announced(kind, first) \/ pipe \in Announced(kind, second)
  <2> DEFINE Says(messages, i) == messages[i][1] = kind /\ pipe = Tail(messages[i])
  <2>1. (\E i \in DOMAIN both : Says(both, i)) <=>
           (\E i \in DOMAIN first : Says(first, i)) \/ \E i \in DOMAIN second : Says(second, i)
    BY <1>1, <1>2, <1>3, Zenon
  <2>2. pipe \in Announced(kind, both) <=> \E i \in DOMAIN both : Says(both, i)
    BY AnnouncedIn
  <2>3. pipe \in Announced(kind, first) <=> \E i \in DOMAIN first : Says(first, i)
    BY AnnouncedIn
  <2>4. pipe \in Announced(kind, second) <=> \E i \in DOMAIN second : Says(second, i)
    BY AnnouncedIn
  <2> QED
    BY <2>1, <2>2, <2>3, <2>4
<1> QED
  BY <1>4 DEF both

LEMMA QuotedIs ==
    ASSUME NEW k, NEW a, NEW b
    PROVE  /\ Quoted(<<>>) = <<>>
           /\ Quoted(<< <<k, a, b>> >>) =
                << <<IF k = "received" THEN "quoted" ELSE k, a, b>> >>
<1> DEFINE T == {"quoted", a, b}
           head == <<"quoted">>
           tail == <<a, b>>
           message == <<k, a, b>>
           quote == <<"quoted", a, b>>
<1>1. Tail(message) = tail /\ message[1] = k
  OBVIOUS
<1>2. head \o tail = quote
  <2>1. head \in Seq(T) /\ Len(head) = 1 /\ head[1] = "quoted"
    OBVIOUS
  <2>2. tail \in Seq(T) /\ Len(tail) = 2 /\ tail[1] = a /\ tail[2] = b
    OBVIOUS
  <2>3. quote \in Seq(T) /\ Len(quote) = 3 /\ quote[1] = "quoted" /\ quote[2] = a /\ quote[3] = b
    OBVIOUS
  <2> HIDE DEF head, tail, quote, T
  <2>4. /\ head \o tail \in Seq(T) /\ Len(head \o tail) = Len(head) + Len(tail)
        /\ \A i \in 1..Len(head) + Len(tail) :
              (head \o tail)[i] = IF i <= Len(head) THEN head[i] ELSE tail[i - Len(head)]
    <3>1. head \in Seq(T) /\ tail \in Seq(T)
      BY <2>1, <2>2
    <3> QED
      BY <3>1, ConcatProperties
  <2>5. /\ Len(head \o tail) = 3
        /\ (head \o tail)[1] = "quoted" /\ (head \o tail)[2] = a /\ (head \o tail)[3] = b
    BY <2>1, <2>2, <2>4
  <2>6. head \o tail \in Seq(T) /\ quote \in Seq(T) /\ Len(head \o tail) = Len(quote)
    BY <2>3, <2>4, <2>5
  <2>7. \A i \in 1..Len(head \o tail) : (head \o tail)[i] = quote[i]
    <3>1. 1..Len(head \o tail) = {1, 2, 3}
      BY <2>5
    <3> QED
      BY <3>1, <2>3, <2>5
  <2> QED
    BY <2>6, <2>7, SeqEqual
<1>3. Quoted(<<message>>) = << IF k = "received" THEN quote ELSE message >>
  <2> DEFINE ms == <<message>>
  <2>1. DOMAIN ms = {1} /\ ms[1] = message
    OBVIOUS
  <2>2. Quoted(ms) = [i \in {1} |-> IF k = "received" THEN quote ELSE message]
    <3> HIDE DEF ms, message, quote, head, tail
    <3> QED
      BY <1>1, <1>2, <2>1 DEF Quoted, head
  <2> HIDE DEF message, quote
  <2>3. [i \in {1} |-> IF k = "received" THEN quote ELSE message] =
          << IF k = "received" THEN quote ELSE message >>
    OBVIOUS
  <2> QED
    BY <2>2, <2>3
<1>4. Quoted(<<>>) = <<>>
  BY DEF Quoted
<1> QED
  BY <1>3, <1>4

Kind == {"received", "quoted", "noPipe", "noUser", "exists", "piped"}
Message == Kind \X Int \X Int

LEMMA HasIs == \A table, pipe : Has(table, pipe) <=> pipe \in Pipes(table)
  BY DEF Has, Pipes

LEMMA CheckIsOnline ==
    ASSUME ClientsInv, NEW n
    PROVE  /\ CheckUserPipeId(n) <=> Online(n)
           /\ Online(n) => n \in Id
  BY DEF ClientsInv, ClientsTypeOK, IdsAgree, CheckUserPipeId, Online

(* A message about a pipe from a to b, if there is one. *)
OneMessage(there, k, a, b) == IF there THEN << <<k, a, b>> >> ELSE <<>>

LEMMA OneMessageIs ==
    ASSUME NEW there \in BOOLEAN, NEW k \in Kind, NEW a \in Int, NEW b \in Int, NEW kind
    PROVE  /\ OneMessage(there, k, a, b) \in Seq(Message)
           /\ Announced(kind, OneMessage(there, k, a, b)) =
                 IF there /\ kind = k THEN {<<a, b>>} ELSE {}
<1>1. <<k, a, b>> \in Message
  BY DEF Message
<1>2. << <<k, a, b>> >> \in Seq(Message) /\ <<>> \in Seq(Message)
  BY <1>1
<1>3. CASE there
  <2>1. Announced(kind, << <<k, a, b>> >>) = IF k = kind THEN {<<a, b>>} ELSE {}
    BY AnnouncedOne
  <2> QED
    BY <1>2, <1>3, <2>1 DEF OneMessage
<1>4. CASE ~there
  BY <1>2, <1>4, AnnouncedNone DEF OneMessage
<1> QED
  BY <1>3, <1>4

(* What the messages say of their one pipe. *)
Says(messages, there, k, pipe) ==
    /\ messages \in Seq(Message)
    /\ \A kind : Announced(kind, messages) = IF there /\ kind = k THEN {pipe} ELSE {}

LEMMA OneMessageSays ==
    ASSUME NEW there \in BOOLEAN, NEW k \in Kind, NEW a \in Int, NEW b \in Int
    PROVE  Says(OneMessage(there, k, a, b), there, k, <<a, b>>)
<1>1. ASSUME NEW kind
      PROVE  /\ OneMessage(there, k, a, b) \in Seq(Message)
             /\ Announced(kind, OneMessage(there, k, a, b)) =
                   IF there /\ kind = k THEN {<<a, b>>} ELSE {}
  BY OneMessageIs
<1> QED
  BY <1>1 DEF Says

LEMMA IdIsOnline ==
    ASSUME ClientsInv, NEW c \in total
    PROVE  id[c] \in Id /\ id[c] \in Int /\ Online(id[c])
  BY RwgAssumption DEF ClientsInv, ClientsTypeOK, Id, Online

LEMMA InKindIs ==
    ASSUME ClientsInv, NEW n, NEW m, NEW table
    PROVE  \/ InKind(<<n, m>>, table) = "noUser" /\ ~Online(n)
           \/ InKind(<<n, m>>, table) = "noPipe" /\ <<n, m>> \notin Pipes(table)
           \/ InKind(<<n, m>>, table) = "received" /\ Online(n) /\ <<n, m>> \in Pipes(table)
<1>1. <<n, m>>[1] = n
  OBVIOUS
<1> QED
  BY <1>1, CheckIsOnline, HasIs DEF InKind

LEMMA OutKindIs ==
    ASSUME ClientsInv, NEW n, NEW m, NEW table
    PROVE  \/ OutKind(<<m, n>>, table) = "noUser" /\ ~Online(n)
           \/ OutKind(<<m, n>>, table) = "exists" /\ <<m, n>> \in Pipes(table)
           \/ OutKind(<<m, n>>, table) = "piped" /\ Online(n)
<1>1. <<m, n>>[2] = n
  OBVIOUS
<1> QED
  BY <1>1, CheckIsOnline, HasIs DEF OutKind

(* What is said about a pipe to read, and what of it is said in a text. *)
LEMMA InMessage ==
    ASSUME ClientsInv, NEW c \in total, NEW n \in Int, NEW table
    PROVE  \E k \in Kind :
              /\ Says(In(c, n, table), n # NoRef, k, <<n, id[c]>>)
              /\ Says(Quoted(In(c, n, table)), n # NoRef,
                      IF k = "received" THEN "quoted" ELSE k, <<n, id[c]>>)
              /\ \/ k = "noUser" /\ ~Online(n)
                 \/ k = "noPipe" /\ <<n, id[c]>> \notin Pipes(table)
                 \/ k = "received" /\ Online(n) /\ <<n, id[c]>> \in Pipes(table)
<1>1. PICK k : k = InKind(<<n, id[c]>>, table)
  OBVIOUS
<1>2. PICK q : q = IF k = "received" THEN "quoted" ELSE k
  OBVIOUS
<1>3. PICK there \in BOOLEAN : there <=> n # NoRef
  OBVIOUS
<1>4. \/ k = "noUser" /\ ~Online(n)
      \/ k = "noPipe" /\ <<n, id[c]>> \notin Pipes(table)
      \/ k = "received" /\ Online(n) /\ <<n, id[c]>> \in Pipes(table)
  BY <1>1, InKindIs
<1>5. k \in Kind /\ q \in Kind
  BY <1>2, <1>4 DEF Kind
<1>6. In(c, n, table) = OneMessage(there, k, n, id[c])
  BY <1>1, <1>3 DEF In, OneMessage
<1>7. Quoted(In(c, n, table)) = OneMessage(there, q, n, id[c])
  BY <1>2, <1>6, QuotedIs DEF OneMessage
<1>8. /\ Says(In(c, n, table), there, k, <<n, id[c]>>)
      /\ Says(Quoted(In(c, n, table)), there, q, <<n, id[c]>>)
  BY <1>5, <1>6, <1>7, IdIsOnline, OneMessageSays
<1>9. there = (n # NoRef)
  BY <1>3
<1> QED
  BY <1>2, <1>4, <1>5, <1>8, <1>9

(* What is said about a pipe to write. *)
LEMMA OutMessage ==
    ASSUME ClientsInv, NEW c \in total, NEW n \in Int, NEW table
    PROVE  \E k \in Kind :
              /\ Says(Out(c, n, table), n # NoRef, k, <<id[c], n>>)
              /\ \/ k = "noUser" /\ ~Online(n)
                 \/ k = "exists" /\ <<id[c], n>> \in Pipes(table)
                 \/ k = "piped" /\ Online(n)
<1>1. PICK k : k = OutKind(<<id[c], n>>, table)
  OBVIOUS
<1>2. PICK there \in BOOLEAN : there <=> n # NoRef
  OBVIOUS
<1>3. \/ k = "noUser" /\ ~Online(n)
      \/ k = "exists" /\ <<id[c], n>> \in Pipes(table)
      \/ k = "piped" /\ Online(n)
  BY <1>1, OutKindIs
<1>4. k \in Kind
  BY <1>3 DEF Kind
<1>5. Out(c, n, table) = OneMessage(there, k, id[c], n)
  BY <1>1, <1>2 DEF Out, OneMessage
<1>6. Says(Out(c, n, table), there, k, <<id[c], n>>)
  BY <1>4, <1>5, IdIsOnline, OneMessageSays
<1>7. there = (n # NoRef)
  BY <1>2
<1> QED
  BY <1>3, <1>4, <1>6, <1>7

(* The tables that the server can have. *)
Sound(table) == table \in Seq(Id \X Id) /\ Distinct(table)

LEMMA WrittenSound ==
    ASSUME NEW table, Sound(table), NEW messages, NEW pipe,
           Announced("piped", messages) \subseteq {pipe},
           Announced("piped", messages) \subseteq Id \X Id
    PROVE  /\ Sound(Written(messages, table))
           /\ Pipes(Written(messages, table)) = Pipes(table) \cup Announced("piped", messages)
<1>1. CASE Announced("piped", messages) = {}
  BY <1>1, WrittenIs
<1>2. CASE Announced("piped", messages) # {}
  <2>1. Announced("piped", messages) = {pipe} /\ pipe \in Id \X Id
    BY <1>2
  <2>2. Written(messages, table) = Add(table, pipe)
    BY <1>2, WrittenIs
  <2> QED
    BY <2>1, <2>2, AddIs DEF Sound
<1> QED
  BY <1>1, <1>2

LEMMA ReadSound ==
    ASSUME NEW table, Sound(table), NEW messages, NEW pipe,
           Announced("received", messages) \subseteq {pipe}
    PROVE  /\ Sound(Read(messages, table))
           /\ Pipes(Read(messages, table)) = Pipes(table) \ Announced("received", messages)
<1>1. CASE Announced("received", messages) = {}
  BY <1>1, ReadIs
<1>2. CASE Announced("received", messages) # {}
  <2>1. Announced("received", messages) = {pipe}
    BY <1>2
  <2>2. Read(messages, table) = Del(table, pipe)
    BY <1>2, ReadIs
  <2> QED
    BY <2>1, <2>2, DelIs DEF Sound
<1> QED
  BY <1>1, <1>2
-----------------------------------------------------------------------------
(* What the last call says: of the pipe p to read if there is one, of the   *)
(* pipe q to write if there is one, and of users who are not there.         *)
Spoken(messages, reads, k, p, writes, l, q, lost) ==
    \A kind, x : x \in Announced(kind, messages) <=>
        \/ reads /\ kind = k /\ x = p
        \/ writes /\ kind = l /\ x = q
        \/ kind = "noUser" /\ x \in lost

LEMMA BothSay ==
    ASSUME NEW first, NEW reads, NEW k, NEW p, Says(first, reads, k, p),
           NEW last, NEW writes, NEW l, NEW q, Says(last, writes, l, q)
    PROVE  /\ first \o last \in Seq(Message)
           /\ Spoken(first \o last, reads, k, p, writes, l, q, {})
<1>1. first \in Seq(Message) /\ last \in Seq(Message)
  BY DEF Says
<1>2. ASSUME NEW kind
      PROVE  Announced(kind, first \o last) = Announced(kind, first) \cup Announced(kind, last)
  BY <1>1, AnnouncedBoth
<1>3. ASSUME NEW kind, NEW x
      PROVE  x \in Announced(kind, first \o last) <=>
                \/ reads /\ kind = k /\ x = p
                \/ writes /\ kind = l /\ x = q
  BY <1>2 DEF Says
<1>4. first \o last \in Seq(Message)
  BY <1>1
<1> QED
  BY <1>3, <1>4 DEF Spoken

LEMMA OneSays ==
    ASSUME NEW first, NEW reads, NEW k, NEW p, Says(first, reads, k, p)
    PROVE  \A l, q : Spoken(first, reads, k, p, FALSE, l, q, {})
  BY DEF Says, Spoken

Refused ==
    /\ Messages("exists")' \subseteq Pipes(user_pipe)
    /\ Messages("noPipe")' \cap Pipes(user_pipe) = {}
    /\ \A pipe \in Messages("noUser")' : ~(Online(pipe[1]) /\ Online(pipe[2]))

Moved ==
    {p \in Pipes(user_pipe') : p[1] # p[2]} =
        {p \in (Pipes(user_pipe) \ Messages("received")') \cup Messages("piped")' : p[1] # p[2]}

(* The three kinds of word about the pipe to read and the pipe to write. *)
OfRead(k, p) ==
    \/ k = "noUser" /\ ~Online(p[1])
    \/ k = "noPipe" /\ p \notin Pipes(user_pipe)
    \/ k \in {"received", "quoted"} /\ Online(p[1]) /\ p \in Pipes(user_pipe)

OfWrite(l, q) ==
    \/ l = "noUser" /\ ~Online(q[2])
    \/ l = "exists" /\ q \in Pipes(user_pipe)
    \/ l = "piped" /\ Online(q[2])

LEMMA SpokenIsTrue ==
    ASSUME ClientsInv, NEW c \in total, UNCHANGED <<total, id>>,
           NEW reads, NEW k, NEW n, OfRead(k, <<n, id[c]>>),
           NEW writes, NEW l, NEW m, OfWrite(l, <<id[c], m>>),
           NEW lost, \A pipe \in lost : ~Online(pipe[2]),
           Spoken(said', reads, k, <<n, id[c]>>, writes, l, <<id[c], m>>, lost)
    PROVE  /\ AnnouncedUsersOnline'
           /\ Refused
           /\ Messages("received")' \subseteq {<<n, id[c]>>}
           /\ Messages("received")' # {} => reads /\ k = "received"
           /\ Messages("piped")' \subseteq {<<id[c], m>>} \cap (Id \X Id)
<1>1. PICK p : p = <<n, id[c]>> /\ p[1] = n /\ p[2] = id[c]
  OBVIOUS
<1>2. PICK q : q = <<id[c], m>> /\ q[1] = id[c] /\ q[2] = m
  OBVIOUS
<1>3. \A i : Online(i)' <=> Online(i)
  BY DEF Online
<1>4. \A kind : Messages(kind)' = Announced(kind, said')
  BY DEF Messages
<1>5. \A kind, x : x \in Messages(kind)' <=>
        \/ reads /\ kind = k /\ x = p
        \/ writes /\ kind = l /\ x = q
        \/ kind = "noUser" /\ x \in lost
  BY <1>1, <1>2, <1>4 DEF Spoken
<1>6. Online(id[c]) /\ id[c] \in Id
  BY IdIsOnline
<1>7. OfRead(k, p) /\ OfWrite(l, q)
  BY <1>1, <1>2
<1>8. Online(m) => q \in Id \X Id
  BY <1>2, <1>6, CheckIsOnline
<1>9. \A x \in Messages("received")' \cup Messages("quoted")' \cup Messages("piped")' :
         Online(x[1]) /\ Online(x[2])
  BY <1>1, <1>2, <1>5, <1>6, <1>7 DEF OfRead, OfWrite
<1>10. AnnouncedUsersOnline'
  <2>1. AnnouncedUsersOnline' =
          \A x \in Messages("received")' \cup Messages("quoted")' \cup Messages("piped")' :
             Online(x[1])' /\ Online(x[2])'
    BY DEF AnnouncedUsersOnline
  <2> QED
    BY <1>3, <1>9, <2>1
<1>11. Refused
  BY <1>1, <1>2, <1>5, <1>7 DEF Refused, OfRead, OfWrite
<1>12. /\ Messages("received")' \subseteq {p}
       /\ Messages("received")' # {} => reads /\ k = "received"
  BY <1>5, <1>7 DEF OfWrite
<1>13. Messages("piped")' \subseteq {q} \cap (Id \X Id)
  BY <1>2, <1>5, <1>7, <1>8 DEF OfRead, OfWrite
<1> QED
  BY <1>1, <1>2, <1>10, <1>11, <1>12, <1>13

LEMMA InReads ==
    ASSUME ClientsInv, NEW c \in total, NEW n \in Int
    PROVE  \E k \in Kind : /\ Says(In(c, n, user_pipe), n # NoRef, k, <<n, id[c]>>)
                           /\ OfRead(k, <<n, id[c]>>) /\ k # "quoted"
<1>1. <<n, id[c]>>[1] = n
  OBVIOUS
<1> QED
  BY <1>1, InMessage DEF OfRead

LEMMA InQuotes ==
    ASSUME ClientsInv, NEW c \in total, NEW n \in Int
    PROVE  \E k \in Kind : /\ Says(Quoted(In(c, n, user_pipe)), n # NoRef, k, <<n, id[c]>>)
                           /\ OfRead(k, <<n, id[c]>>) /\ k # "received"
<1>1. <<n, id[c]>>[1] = n
  OBVIOUS
<1>2. PICK j \in Kind :
         /\ Says(Quoted(In(c, n, user_pipe)), n # NoRef,
                 IF j = "received" THEN "quoted" ELSE j, <<n, id[c]>>)
         /\ \/ j = "noUser" /\ ~Online(n)
            \/ j = "noPipe" /\ <<n, id[c]>> \notin Pipes(user_pipe)
            \/ j = "received" /\ Online(n) /\ <<n, id[c]>> \in Pipes(user_pipe)
  BY InMessage
<1>3. PICK k : k = IF j = "received" THEN "quoted" ELSE j
  OBVIOUS
<1>4. k \in Kind /\ k # "received" /\ OfRead(k, <<n, id[c]>>)
  BY <1>1, <1>2, <1>3 DEF Kind, OfRead
<1> QED
  BY <1>2, <1>3, <1>4

LEMMA OutWrites ==
    ASSUME ClientsInv, NEW c \in total, NEW n \in Int
    PROVE  \E l \in Kind : /\ Says(Out(c, n, user_pipe), n # NoRef, l, <<id[c], n>>)
                           /\ OfWrite(l, <<id[c], n>>)
<1>1. <<id[c], n>>[2] = n
  OBVIOUS
<1> QED
  BY <1>1, OutMessage DEF OfWrite

LEMMA SpokenOfTwo ==
    ASSUME ClientsInv, NEW c \in total, UNCHANGED <<total, id>>,
           NEW reads, NEW k, NEW n, OfRead(k, <<n, id[c]>>),
           NEW writes, NEW l, NEW m, OfWrite(l, <<id[c], m>>),
           Spoken(said', reads, k, <<n, id[c]>>, writes, l, <<id[c], m>>, {})
    PROVE  /\ AnnouncedUsersOnline'
           /\ Refused
           /\ Messages("received")' \subseteq {<<n, id[c]>>}
           /\ Messages("piped")' \subseteq {<<id[c], m>>} \cap (Id \X Id)
<1>1. PICK lost : lost = {}
  OBVIOUS
<1>2. \A pipe \in lost : ~Online(pipe[2])
  BY <1>1
<1>3. Spoken(said', reads, k, <<n, id[c]>>, writes, l, <<id[c], m>>, lost)
  BY <1>1
<1> QED
  BY <1>2, <1>3, SpokenIsTrue

(* A line, as far as the user pipes go. *)
Trading(c) ==
    /\ c \in total /\ served' = c /\ UNCHANGED <<id_map, total, id>>
    /\ stale' = stale \cap Pipes(user_pipe')
    /\ Sound(user_pipe')
    /\ AnnouncedUsersOnline' /\ Refused /\ Moved

LEMMA LineTrades ==
    ASSUME NEW c, NEW e, NEW table, NEW messages, Line(c, e, table, messages),
           Sound(table), AnnouncedUsersOnline', Refused,
           \A p \in Id \X Id :
              p[1] # p[2] => (p \in Pipes(table) <=>
                 (p \in Pipes(user_pipe) /\ p \notin Announced("received", messages))
                    \/ p \in Announced("piped", messages)),
           Sound(user_pipe), Announced("piped", messages) \subseteq Id \X Id
    PROVE  Trading(c)
<1>1. /\ c \in total /\ served' = c /\ UNCHANGED <<id_map, total, id>>
      /\ user_pipe' = table /\ said' = messages
      /\ stale' = stale \cap Pipes(table)
  BY DEF Line
<1>2. Pipes(user_pipe) \subseteq Id \X Id /\ Pipes(table) \subseteq Id \X Id
  BY DEF Sound, Pipes
<1>3. Messages("received")' = Announced("received", messages)
      /\ Messages("piped")' = Announced("piped", messages)
  BY <1>1 DEF Messages
<1>4. Moved
  BY <1>1, <1>2, <1>3 DEF Moved
<1> QED
  BY <1>1, <1>4 DEF Trading

LEMMA QuietTrades ==
    ASSUME ClientsInv, Sound(user_pipe), NEW c, NEW e, Line(c, e, user_pipe, <<>>)
    PROVE  Trading(c)
<1>1. \A kind : Messages(kind)' = {}
  BY AnnouncedNone DEF Line, Messages
<1>2. AnnouncedUsersOnline' /\ Refused
  BY <1>1 DEF AnnouncedUsersOnline, Refused
<1> QED
  BY <1>2, AnnouncedNone, LineTrades

LEMMA ChatTrades ==
    ASSUME ClientsInv, Sound(user_pipe), NEW c \in total, NEW in \in Int, NEW out \in Int,
           NEW messages \in Seq(Message), NEW lost, \A pipe \in lost : ~Online(pipe[2]),
           \A kind : Announced(kind, messages) = IF kind = "noUser" THEN lost ELSE {},
           Chat(c, in, out, messages)
    PROVE  Trading(c)
<1> DEFINE first == Quoted(In(c, in, user_pipe))
           last == Out(c, out, user_pipe)
           both == first \o last
           said_ == both \o messages
           p == <<in, id[c]>>
           q == <<id[c], out>>
           table == Written(both, user_pipe)
<1>1. PICK k \in Kind : Says(first, in # NoRef, k, p) /\ OfRead(k, p) /\ k # "received"
  BY InQuotes
<1>2. PICK l \in Kind : Says(last, out # NoRef, l, q) /\ OfWrite(l, q)
  BY OutWrites
<1>3. Line(c, EnvironOf(c), table, said_)
  BY DEF Chat, PlainLine
<1> HIDE DEF first, last, table
<1>4. both \in Seq(Message) /\ Spoken(both, in # NoRef, k, p, out # NoRef, l, q, {})
  BY <1>1, <1>2, BothSay
<1> HIDE DEF both
<1>5. ASSUME NEW kind
      PROVE  Announced(kind, said_) = Announced(kind, both) \cup Announced(kind, messages)
  BY <1>4, AnnouncedBoth
<1>6. Spoken(said_, in # NoRef, k, p, out # NoRef, l, q, lost)
  <2> HIDE DEF said_
  <2> QED
    BY <1>4, <1>5 DEF Spoken
<1>7. said' = said_ /\ UNCHANGED <<total, id>>
  BY <1>3 DEF Line
<1>8. /\ AnnouncedUsersOnline' /\ Refused
      /\ Messages("received")' = {}
      /\ Messages("piped")' \subseteq {q} \cap (Id \X Id)
  <2> HIDE DEF said_
  <2> QED
    BY <1>1, <1>2, <1>6, <1>7, SpokenIsTrue
<1>9. Messages("received")' = Announced("received", said_) /\ Messages("piped")' = Announced("piped", said_)
  BY <1>7 DEF Messages
<1>10. Announced("piped", both) = Announced("piped", said_)
  BY <1>5
<1> HIDE DEF said_, p, q
<1>11. Sound(table) /\ Pipes(table) = Pipes(user_pipe) \cup Announced("piped", said_)
  <2>1. Announced("piped", both) \subseteq {q} /\ Announced("piped", both) \subseteq Id \X Id
    BY <1>8, <1>9, <1>10
  <2>2. /\ Sound(Written(both, user_pipe))
        /\ Pipes(Written(both, user_pipe)) = Pipes(user_pipe) \cup Announced("piped", both)
    BY <2>1, WrittenSound
  <2> QED
    BY <2>2, <1>10 DEF table
<1> QED
  BY <1>3, <1>8, <1>9, <1>11, LineTrades

LEMMA CommandTrades ==
    ASSUME ClientsInv, Sound(user_pipe), NEW c \in total, NEW in \in Int, NEW out \in Int,
           Command(c, in, out)
    PROVE  Trading(c)
<1> DEFINE first == In(c, in, user_pipe)
           last == Out(c, out, user_pipe)
           messages == first \o last
           p == <<in, id[c]>>
           q == <<id[c], out>>
           written == Written(messages, user_pipe)
           table == Read(messages, written)
<1>1. PICK k \in Kind : Says(first, in # NoRef, k, p) /\ OfRead(k, p)
  BY InReads
<1>2. PICK l \in Kind : Says(last, out # NoRef, l, q) /\ OfWrite(l, q)
  BY OutWrites
<1>3. Line(c, EnvironOf(c), table, messages)
  BY DEF Command, PlainLine
<1>4. Spoken(messages, in # NoRef, k, p, out # NoRef, l, q, {})
  <2> HIDE DEF first, last
  <2> QED
    BY <1>1, <1>2, BothSay
<1> HIDE DEF messages, written, table
<1>5. said' = messages /\ UNCHANGED <<total, id>>
  BY <1>3 DEF Line
<1>6. /\ AnnouncedUsersOnline' /\ Refused
      /\ Messages("received")' \subseteq {p}
      /\ Messages("piped")' \subseteq {q} \cap (Id \X Id)
  BY <1>1, <1>2, <1>4, <1>5, SpokenOfTwo
<1>7. /\ Messages("received")' = Announced("received", messages)
      /\ Messages("piped")' = Announced("piped", messages)
  BY <1>5 DEF Messages
<1>8. p[2] = id[c] /\ q[1] = id[c]
  OBVIOUS
<1> HIDE DEF p, q
<1>9. Sound(written) /\ Pipes(written) = Pipes(user_pipe) \cup Announced("piped", messages)
  BY <1>6, <1>7, WrittenSound DEF written
<1>10. Sound(table) /\ Pipes(table) = Pipes(written) \ Announced("received", messages)
  BY <1>6, <1>7, <1>9, ReadSound DEF table
<1>11. \A x \in Announced("received", messages) \cap Announced("piped", messages) : x[1] = x[2]
  BY <1>6, <1>7, <1>8
<1> QED
  BY <1>3, <1>6, <1>7, <1>9, <1>10, <1>11, LineTrades

LEMMA NumberedTrades ==
    ASSUME ClientsInv, Sound(user_pipe), NEW c \in total, NEW in \in Int, NEW n,
           NumberedLine(c, in, n)
    PROVE  Trading(c)
<1> DEFINE messages == In(c, in, user_pipe)
           p == <<in, id[c]>>
           table == Read(messages, user_pipe)
<1>1. PICK k \in Kind : Says(messages, in # NoRef, k, p) /\ OfRead(k, p)
  BY InReads
<1>2. Line(c, EnvironOf(c), table, messages)
  BY DEF NumberedLine
<1> HIDE DEF messages, table
<1>3. said' = messages /\ UNCHANGED <<total, id>>
  BY <1>2 DEF Line
<1>5. ASSUME NEW x
      PROVE  x \notin Announced("piped", messages) /\ x \notin Announced("exists", messages)
  BY <1>1 DEF Says, OfRead
<1>6. PICK m : OfWrite("noUser", <<id[c], m>>)
  <2>1. ~Online(0) /\ <<id[c], 0>>[2] = 0
    BY CheckIsOnline DEF Id
  <2> QED
    BY <2>1 DEF OfWrite
<1>7. Spoken(messages, in # NoRef, k, p, FALSE, "noUser", <<id[c], m>>, {})
  BY <1>1, OneSays
<1>8. /\ AnnouncedUsersOnline' /\ Refused
      /\ Messages("received")' \subseteq {p}
  BY <1>1, <1>3, <1>6, <1>7, SpokenOfTwo
<1>9. Messages("received")' = Announced("received", messages)
  BY <1>3 DEF Messages
<1>10. Sound(table) /\ Pipes(table) = Pipes(user_pipe) \ Announced("received", messages)
  BY <1>8, <1>9, ReadSound DEF table
<1>11. Announced("piped", messages) = {}
  BY <1>5
<1> QED
  BY <1>2, <1>8, <1>10, <1>11, LineTrades

LEMMA PipelineTrades ==
    ASSUME ClientsInv, Sound(user_pipe), NEW c \in total, NEW in \in Int, NEW out \in Int,
           Pipeline(c, in, out)
    PROVE  Trading(c)
<1> DEFINE first == In(c, in, user_pipe)
           after == Read(first, user_pipe)
           last == Out(c, out, after)
           messages == first \o last
           p == <<in, id[c]>>
           q == <<id[c], out>>
           written == Written(last, after)
           table == Read(first, written)
<1>1. PICK k \in Kind : Says(first, in # NoRef, k, p) /\ OfRead(k, p) /\ k # "quoted"
  BY InReads
<1>2. PICK l \in Kind :
         /\ Says(last, out # NoRef, l, q)
         /\ \/ l = "noUser" /\ ~Online(out)
            \/ l = "exists" /\ q \in Pipes(after)
            \/ l = "piped" /\ Online(out)
  BY OutMessage
<1>3. Line(c, EnvironOf(c), table, messages)
  BY DEF Pipeline, PlainLine
<1>4. p[1] = in /\ p[2] = id[c] /\ q[1] = id[c] /\ q[2] = out
  OBVIOUS
<1>5. Spoken(messages, in # NoRef, k, p, out # NoRef, l, q, {})
  <2> HIDE DEF first, last
  <2> QED
    BY <1>1, <1>2, BothSay
<1>6. /\ \A x : x \in Announced("received", first) <=> in # NoRef /\ k = "received" /\ x = p
      /\ \A x : x \in Announced("piped", last) <=> out # NoRef /\ l = "piped" /\ x = q
  BY <1>1, <1>2 DEF Says
<1>7. /\ Announced("received", messages) = Announced("received", first)
      /\ Announced("piped", messages) = Announced("piped", last)
  <2>1. l # "received" /\ k # "piped"
    BY <1>1, <1>2 DEF OfRead
  <2>2. /\ \A x : x \in Announced("received", messages) <=> x \in Announced("received", first)
        /\ \A x : x \in Announced("piped", messages) <=> x \in Announced("piped", last)
    <3> HIDE DEF messages, first, last
    <3> QED
      BY <1>5, <1>6, <2>1 DEF Spoken
  <2> QED
    BY <2>2
<1> HIDE DEF first, last, messages, written, table, after
<1>8. Sound(after) /\ Pipes(after) = Pipes(user_pipe) \ Announced("received", first)
  <2>1. Announced("received", first) \subseteq {p}
    BY <1>6
  <2> QED
    BY <2>1, ReadSound DEF after
<1>9. OfWrite(l, q)
  <2> HIDE DEF p, q
  <2> QED
    BY <1>2, <1>4, <1>8 DEF OfWrite
<1>10. said' = messages /\ UNCHANGED <<total, id>>
  BY <1>3 DEF Line
<1>11. /\ AnnouncedUsersOnline' /\ Refused
       /\ Messages("piped")' \subseteq {q} \cap (Id \X Id)
  BY <1>1, <1>5, <1>9, <1>10, SpokenOfTwo
<1>12. Messages("piped")' = Announced("piped", messages)
  BY <1>10 DEF Messages
<1> HIDE DEF p, q
<1>13. Sound(written) /\ Pipes(written) = Pipes(after) \cup Announced("piped", messages)
  <2>1. Announced("piped", last) \subseteq {q} \cap (Id \X Id)
    BY <1>7, <1>11, <1>12
  <2> QED
    BY <1>7, <1>8, <2>1, WrittenSound DEF written
<1>14. Sound(table) /\ Pipes(table) = Pipes(written) \ Announced("received", messages)
  <2>1. Announced("received", first) \subseteq {p}
    BY <1>6
  <2> QED
    BY <1>7, <1>13, <2>1, ReadSound DEF table
<1>15. \A x \in Announced("received", messages) \cap Announced("piped", messages) : x[1] = x[2]
  BY <1>4, <1>6, <1>7
<1> QED
  BY <1>3, <1>7, <1>8, <1>11, <1>12, <1>13, <1>14, <1>15, LineTrades

(* free_user_pipe, entry by entry. *)
Freed(S) == [kept : Seq(S), look : {"both", "second", "none"}]
FreeStart == [kept |-> <<>>, look |-> "both"]

FreeDrops(acc, next) == next.kept = acc.kept
FreeKeeps(n, acc, pipe, next) ==
    /\ next.kept = Append(acc.kept, pipe)
    /\ next.look = "both"
    /\ acc.look = "both" => n \notin {pipe[1], pipe[2]}

LEMMA FreeStepIs ==
    ASSUME NEW S, NEW n, NEW acc \in Freed(S), NEW pipe \in S
    PROVE  /\ FreeStep(n, acc, pipe) \in Freed(S)
           /\ \/ FreeDrops(acc, FreeStep(n, acc, pipe))
              \/ FreeKeeps(n, acc, pipe, FreeStep(n, acc, pipe))
<1>1. Append(acc.kept, pipe) \in Seq(S)
  BY DEF Freed
<1> QED
  BY <1>1 DEF Freed, FreeStep, FreeDrops, FreeKeeps

WalksFree(w, S, n, table) ==
    /\ w \in [0..Len(table) -> Freed(S)]
    /\ w[0] = FreeStart
    /\ \A i \in 1..Len(table) : w[i] = FreeStep(n, w[i - 1], table[i])
    /\ w[Len(table)].kept = FreeUserPipe(n, table)

LEMMA FreeWalks ==
    ASSUME NEW S, NEW n, NEW table \in Seq(S)
    PROVE  \E w : WalksFree(w, S, n, table)
<1> DEFINE N == Len(table)
           A == Freed(S)
           step == [x \in A \X (1..N) |-> FreeStep(n, x[1], table[x[2]])]
           Loop(f) == f = [s \in SUBSET DOMAIN table |->
                             IF s = {} THEN FreeStart
                             ELSE FreeStep(n, f[s \ {Max(s)}], table[Max(s)])]
           iter == CHOOSE f : Loop(f)
<1>1. N \in Nat /\ DOMAIN table = 1..N /\ \A i \in 1..N : table[i] \in S
  OBVIOUS
<1>2. FreeStart \in A
  BY DEF FreeStart, Freed
<1>3. step \in [A \X (1..N) -> A]
  BY <1>1, FreeStepIs
<1>4. \E f : Loop(f)
  <2>1. PICK f \in [SUBSET (1..N) -> A] : Folding(N, FreeStart, step, f)
    <3> HIDE DEF A, step, N
    <3> QED
      BY <1>1, <1>2, <1>3, FoldingExists
  <2>2. ASSUME NEW s \in SUBSET (1..N), s # {}
        PROVE  f[s] = FreeStep(n, f[s \ {Max(s)}], table[Max(s)])
    <3>1. Max(s) \in s
      BY <2>2, <1>1, MaxIsIn
    <3>2. <<f[s \ {Max(s)}], Max(s)>> \in A \X (1..N)
      BY <3>1, <2>1
    <3>3. f[s] = step[<<f[s \ {Max(s)}], Max(s)>>]
      BY <2>2, <2>1 DEF Folding
    <3> QED
      BY <3>2, <3>3
  <2>3. f[{}] = FreeStart
    BY <2>1 DEF Folding
  <2>4. Loop(f)
    <3> HIDE DEF A
    <3> QED
      BY <2>1, <2>2, <2>3, <1>1
  <2> QED
    BY <2>4
<1>5. Loop(iter)
  <2> HIDE DEF Loop
  <2> QED
    BY <1>4, Zenon
<1>6. FreeUserPipe(n, table) = iter[DOMAIN table].kept
  BY Zenon DEF FreeUserPipe, FoldLeft, MapThenFoldSet, FreeStart
<1> HIDE DEF iter
<1>7. iter[{}] = FreeStart
  BY <1>5
<1>8. ASSUME NEW i \in 1..N, iter[1..i - 1] \in A
      PROVE  iter[1..i] = step[<<iter[1..i - 1], i>>]
  <2>1. Max(1..i) = i /\ (1..i) \ {i} = 1..i - 1 /\ 1..i # {}
    BY <1>1, MaxUpTo
  <2>2. 1..i \in SUBSET DOMAIN table
    BY <1>1
  <2>3. iter[1..i] = FreeStep(n, iter[(1..i) \ {Max(1..i)}], table[Max(1..i)])
    BY <1>5, <2>1, <2>2
  <2>4. step[<<iter[1..i - 1], i>>] = FreeStep(n, iter[1..i - 1], table[i])
    BY <1>8
  <2> HIDE DEF step
  <2> QED
    BY <2>1, <2>3, <2>4
<1>9. PICK w : WalksBy(w, N, A, FreeStart, step, iter[1..N])
  <2> HIDE DEF step, N, A
  <2> QED
    BY <1>1, <1>2, <1>3, <1>7, <1>8, FoldingWalks
<1>10. w \in [0..N -> A] /\ w[0] = FreeStart /\ w[N] = iter[1..N]
  BY <1>9 DEF WalksBy
<1>11. ASSUME NEW i \in 1..N
       PROVE  w[i] = FreeStep(n, w[i - 1], table[i])
  <2>1. i - 1 \in 0..N
    BY <1>1
  <2>2. <<w[i - 1], i>> \in A \X (1..N)
    BY <1>10, <2>1
  <2>3. w[i] = step[<<w[i - 1], i>>]
    BY <1>9 DEF WalksBy
  <2> QED
    BY <2>2, <2>3
<1>12. w[N].kept = FreeUserPipe(n, table)
  BY <1>1, <1>6, <1>10
<1> HIDE DEF step, Loop
<1>13. WalksFree(w, S, n, table)
  BY <1>10, <1>11, <1>12 DEF WalksFree
<1> QED
  BY <1>13

(* What free_user_pipe leaves: some of the entries, and of two neighbours   *)
(* that are both left the second does not name the user.                    *)
NoNeighbours(n, table, kept, upTo) ==
    \A i \in 1..upTo - 1 : i \in kept /\ i + 1 \in kept => n \notin {table[i + 1][1], table[i + 1][2]}

LEMMA FreeLeaves ==
    ASSUME NEW S, NEW n, NEW table \in Seq(S)
    PROVE  /\ FreeUserPipe(n, table) \in Seq(S)
           /\ \E places :
                /\ Leaves(places, table, Len(table), FreeUserPipe(n, table))
                /\ NoNeighbours(n, table, Places(places, FreeUserPipe(n, table)), Len(table))
<1> DEFINE N == Len(table)
<1>1. N \in Nat /\ \A i \in 1..N : table[i] \in S
  OBVIOUS
<1>2. PICK w : WalksFree(w, S, n, table)
  BY FreeWalks
<1>3. /\ \A i \in 0..N : w[i] \in Freed(S) /\ w[i].kept \in Seq(S)
      /\ w[0] = FreeStart
      /\ \A i \in 1..N : w[i] = FreeStep(n, w[i - 1], table[i])
      /\ w[N].kept = FreeUserPipe(n, table)
  BY <1>2 DEF WalksFree, Freed
<1> DEFINE Fits(i, places) ==
              /\ Leaves(places, table, i, w[i].kept)
              /\ i \in Places(places, w[i].kept) => w[i].look = "both"
              /\ NoNeighbours(n, table, Places(places, w[i].kept), i)
           T == {i \in 0..N : \E places : Fits(i, places)}
<1> HIDE DEF N
<1>4. 0 \in T
  <2>1. w[0].kept = <<>> /\ w[0].look = "both"
    BY <1>3 DEF FreeStart
  <2>2. Leaves(NoneLeft, table, 0, w[0].kept)
    BY <2>1, NoneIsLeft
  <2>3. NoNeighbours(n, table, Places(NoneLeft, w[0].kept), 0)
    BY DEF NoNeighbours
  <2>4. Fits(0, NoneLeft)
    BY <2>1, <2>2, <2>3
  <2>5. 0 \in 0..N
    BY <1>1
  <2> HIDE DEF Fits
  <2> QED
    BY <2>4, <2>5
<1>5. ASSUME NEW i \in 0..N, i < N, i \in T
      PROVE  i + 1 \in T
  <2>1. PICK places : Fits(i, places)
    BY <1>5
  <2>2. i \in Nat /\ i + 1 \in 1..N /\ (i + 1) - 1 = i /\ w[i] \in Freed(S) /\ w[i].kept \in Seq(S)
        /\ table[i + 1] \in S
    BY <1>1, <1>3, <1>5
  <2>3. w[i + 1] = FreeStep(n, w[i], table[i + 1])
    BY <1>3, <2>2
  <2>4. Places(places, w[i].kept) \subseteq 1..i
    BY <2>1 DEF Leaves, Places
  <2>5. \A j \in 1..i : j \in 1..i - 1 \/ j = i
    BY <2>2
  <2>6. CASE w[i + 1].kept = w[i].kept
    <3>1. Leaves(places, table, i + 1, w[i + 1].kept)
      BY <2>1, <2>2, <2>6, FewerLeft
    <3>2. i + 1 \notin Places(places, w[i + 1].kept)
      BY <2>2, <2>4, <2>6
    <3>3. NoNeighbours(n, table, Places(places, w[i + 1].kept), i + 1)
      BY <2>1, <2>2, <2>5, <2>6, <3>2 DEF NoNeighbours
    <3>4. Fits(i + 1, places)
      BY <3>1, <3>2, <3>3
    <3> HIDE DEF Fits
    <3> QED
      BY <3>4, <2>2
  <2>7. CASE FreeKeeps(n, w[i], table[i + 1], w[i + 1])
    <3> DEFINE more == OneMore(places, Len(w[i].kept), i)
    <3>1. /\ Leaves(more, table, i + 1, w[i + 1].kept)
          /\ Places(more, w[i + 1].kept) = Places(places, w[i].kept) \cup {i + 1}
      BY <2>1, <2>2, <2>7, OneMoreLeft DEF FreeKeeps
    <3> HIDE DEF more
    <3>2. NoNeighbours(n, table, Places(more, w[i + 1].kept), i + 1)
      <4>1. ASSUME NEW j \in 1..i, j \in Places(places, w[i].kept) \cup {i + 1},
                   j + 1 \in Places(places, w[i].kept) \cup {i + 1}
            PROVE  n \notin {table[j + 1][1], table[j + 1][2]}
        <5>1. CASE j \in 1..i - 1
          BY <2>1, <2>2, <4>1, <5>1 DEF NoNeighbours
        <5>2. CASE j = i
          BY <2>1, <2>2, <2>7, <4>1, <5>2 DEF FreeKeeps
        <5> QED
          BY <2>5, <5>1, <5>2
      <4> QED
        BY <2>2, <3>1, <4>1 DEF NoNeighbours
    <3>3. Fits(i + 1, more)
      BY <2>7, <3>1, <3>2 DEF FreeKeeps
    <3> HIDE DEF Fits
    <3> QED
      BY <3>3, <2>2
  <2> QED
    BY <2>2, <2>3, <2>6, <2>7, FreeStepIs DEF FreeDrops
<1>6. 0..N \subseteq T
  <2> HIDE DEF T
  <2> QED
    BY <1>1, <1>4, <1>5, UpTo
<1>7. PICK places : Fits(N, places)
  <2> HIDE DEF Fits
  <2> QED
    BY <1>1, <1>6
<1>8. FreeUserPipe(n, table) \in Seq(S)
  BY <1>1, <1>3
<1>9. /\ Leaves(places, table, N, FreeUserPipe(n, table))
      /\ NoNeighbours(n, table, Places(places, FreeUserPipe(n, table)), N)
  BY <1>3, <1>7
<1> QED
  BY <1>8, <1>9 DEF N

LEMMA FreeSound ==
    ASSUME NEW n, NEW table, Sound(table)
    PROVE  /\ Sound(FreeUserPipe(n, table))
           /\ \A i \in 1..Len(table) - 1 :
                 ~(/\ table[i] \in Pipes(FreeUserPipe(n, table))
                   /\ table[i + 1] \in Pipes(FreeUserPipe(n, table))
                   /\ n \in {table[i + 1][1], table[i + 1][2]})
<1>1. table \in Seq(Id \X Id)
  BY DEF Sound
<1>2. PICK kept : kept = FreeUserPipe(n, table)
  OBVIOUS
<1>3. kept \in Seq(Id \X Id)
  BY <1>1, <1>2, FreeLeaves
<1>4. PICK places : /\ Leaves(places, table, Len(table), kept)
                    /\ NoNeighbours(n, table, Places(places, kept), Len(table))
  BY <1>1, <1>2, FreeLeaves
<1>5. DOMAIN table = 1..Len(table) /\ Len(table) \in Nat /\ DOMAIN kept = 1..Len(kept) /\ Len(kept) \in Nat
  BY <1>1, <1>3
<1>6. \A i, j \in 1..Len(table) : table[i] = table[j] => i = j
  BY <1>5 DEF Sound, Distinct
<1>7. /\ \A i \in 1..Len(kept) : places[i] \in 1..Len(table) /\ kept[i] = table[places[i]]
      /\ \A i, j \in 1..Len(kept) : i < j => places[i] < places[j]
  BY <1>4 DEF Leaves
<1>8. \A i, j \in 1..Len(kept) : kept[i] = kept[j] => i = j
  BY <1>5, <1>6, <1>7
<1>9. ASSUME NEW i \in 1..Len(table), table[i] \in Pipes(kept)
      PROVE  i \in Places(places, kept)
  <2>1. PICK j \in 1..Len(kept) : table[i] = kept[j]
    BY <1>5, <1>9 DEF Pipes
  <2>2. i = places[j]
    BY <1>6, <1>7, <2>1
  <2> QED
    BY <2>2 DEF Places
<1>10. ASSUME NEW i \in 1..Len(table) - 1,
              table[i] \in Pipes(kept), table[i + 1] \in Pipes(kept)
       PROVE  n \notin {table[i + 1][1], table[i + 1][2]}
  <2>1. i \in 1..Len(table) /\ i + 1 \in 1..Len(table)
    BY <1>5
  <2>2. i \in Places(places, kept) /\ i + 1 \in Places(places, kept)
    BY <1>9, <1>10, <2>1
  <2> QED
    BY <1>4, <2>2 DEF NoNeighbours
<1>11. Sound(kept)
  BY <1>3, <1>5, <1>8 DEF Sound, Distinct
<1> QED
  BY <1>2, <1>10, <1>11
-----------------------------------------------------------------------------

PipesInv == Sound(user_pipe) /\ stale \subseteq Pipes(user_pipe)

NeighboursBroken(c) ==
    \A i \in 1..Len(user_pipe) - 1 :
        LET Kept(k) == /\ id[c] \in {user_pipe[k][1], user_pipe[k][2]}
                       /\ user_pipe[k] \in Pipes(user_pipe')
        IN  ~(Kept(i) /\ Kept(i + 1))

LEMMA LeavingFrees ==
    ASSUME ClientsInv, Sound(user_pipe), NEW c, Leaving(c)
    PROVE  /\ Sound(user_pipe') /\ stale' \subseteq Pipes(user_pipe')
           /\ AnnouncedUsersOnline' /\ Refused /\ ~OfClient'
           /\ NeighboursBroken(c)
<1>1. /\ user_pipe' = FreeUserPipe(id[c], user_pipe)
      /\ stale' \subseteq Pipes(user_pipe')
      /\ served' = NoOne /\ said' = <<>>
      /\ c \in total /\ total' = total \ {c}
  BY DEF Leaving, Exit
<1>2. \A kind : Messages(kind)' = {}
  BY <1>1, AnnouncedNone DEF Messages
<1>3. NoOne \notin total'
  BY <1>1, RwgAssumption DEF ClientsInv, ClientsTypeOK
<1>4. Sound(user_pipe')
  BY <1>1, FreeSound
<1>5. NeighboursBroken(c)
  BY <1>1, FreeSound DEF NeighboursBroken
<1> QED
  BY <1>1, <1>2, <1>3, <1>4, <1>5 DEF AnnouncedUsersOnline, Refused, OfClient

LEMMA EnteringTrades ==
    ASSUME ClientsInv, PipesInv, NEW c, Entering(c)
    PROVE  /\ PipesInv'
           /\ AnnouncedUsersOnline' /\ Refused /\ ~OfClient'
           /\ total \subseteq total'
<1>1. /\ user_pipe' = user_pipe /\ stale' = stale
      /\ served' = NoOne /\ said' = <<>>
      /\ total' = total \cup {c} /\ c \in Fd
  BY DEF Entering, Login
<1>2. \A kind : Messages(kind)' = {}
  BY <1>1, AnnouncedNone DEF Messages
<1>3. NoOne \notin total'
  BY <1>1, RwgAssumption DEF ClientsInv, ClientsTypeOK
<1>4. PipesInv'
  BY <1>1 DEF PipesInv, Sound, Distinct, Pipes
<1> QED
  BY <1>1, <1>2, <1>3, <1>4 DEF AnnouncedUsersOnline, Refused, OfClient

LEMMA CallsTrade ==
    ASSUME ClientsInv, PipesInv, Next
    PROVE  \E c \in Fd : Trading(c) \/ Entering(c) \/ Leaving(c)
<1>1. PICK c \in Fd : (\E n \in Id : Login(c, n)) \/ BuiltIn(c) \/ External(c)
  BY DEF Next
<1>2. Ref \subseteq Int /\ Word \subseteq Int /\ Target \subseteq Int
  BY RwgAssumption DEF Ref, Word, NoRef
<1>3. Sound(user_pipe)
  BY DEF PipesInv
<1>4. CASE \E n \in Id : Login(c, n)
  BY <1>4 DEF Entering
<1>5. CASE BuiltIn(c)
  <2>1. CASE \/ \E v \in Var : PrintEnv(c, v) \/ \E x \in Value : SetEnv(c, v, x)
             \/ \E new \in Name : ChangeName(c, new)
             \/ Who(c)
    <3>1. \E e : Line(c, e, user_pipe, <<>>)
      BY <2>1 DEF PrintEnv, SetEnv, ChangeName, Who, PlainLine
    <3> QED
      BY <1>3, <3>1, QuietTrades
  <2>2. ASSUME NEW in \in Word, NEW out \in Word, Yell(c, in, out)
        PROVE  Trading(c)
    <3>1. PICK lost : lost = {}
      OBVIOUS
    <3>2. <<>> \in Seq(Message) /\ \A pipe \in lost : ~Online(pipe[2])
      BY <3>1
    <3>3. \A kind : Announced(kind, <<>>) = IF kind = "noUser" THEN lost ELSE {}
      BY <3>1, AnnouncedNone
    <3>4. c \in total /\ Chat(c, in, out, <<>>)
      BY <2>2 DEF Yell, Chat, PlainLine, Line
    <3> QED
      BY <1>2, <1>3, <3>2, <3>3, <3>4, ChatTrades
  <2>3. ASSUME NEW in \in Word, NEW out \in Word, NEW n \in Target, Tell(c, n, in, out)
        PROVE  Trading(c)
    <3>1. PICK absent \in BOOLEAN : absent = ~CheckId(n)
      BY DEF CheckId
    <3>2. PICK messages : messages = OneMessage(absent, "noUser", id[c], n)
      OBVIOUS
    <3>3. Chat(c, in, out, messages) /\ c \in total
      BY <2>3, <3>1, <3>2 DEF Tell, Chat, PlainLine, Line, OneMessage
    <3>4. id[c] \in Int /\ n \in Int /\ "noUser" \in Kind
      BY <1>2, <3>3, IdIsOnline DEF Kind
    <3>5. PICK lost : lost = IF absent THEN {<<id[c], n>>} ELSE {}
      OBVIOUS
    <3>6. /\ messages \in Seq(Message)
          /\ \A kind : Announced(kind, messages) = IF kind = "noUser" THEN lost ELSE {}
      BY <3>2, <3>4, <3>5, OneMessageSays DEF Says
    <3>7. \A pipe \in lost : ~Online(pipe[2])
      <4>1. absent => ~Online(n)
        BY <3>1 DEF CheckId, Online
      <4>2. <<id[c], n>>[2] = n
        OBVIOUS
      <4> QED
        BY <3>5, <4>1, <4>2
    <3> QED
      BY <1>2, <1>3, <3>3, <3>6, <3>7, ChatTrades
  <2>4. CASE Exit(c)
    BY <2>4 DEF Leaving
  <2> QED
    BY <1>5, <2>1, <2>2, <2>3, <2>4 DEF BuiltIn
<1>6. CASE External(c)
  <2>1. c \in total
    BY <1>6 DEF External, Command, Pipeline, NumberedLine, PlainLine, Line
  <2>2. ASSUME NEW in \in Ref, NEW out \in Ref, Command(c, in, out)
        PROVE  Trading(c)
    BY <1>2, <1>3, <2>1, <2>2, CommandTrades
  <2>3. ASSUME NEW in \in Ref, NEW out \in Ref, Pipeline(c, in, out)
        PROVE  Trading(c)
    BY <1>2, <1>3, <2>1, <2>3, PipelineTrades
  <2>4. ASSUME NEW in \in Ref, NEW n \in 1..MaxN, NumberedLine(c, in, n)
        PROVE  Trading(c)
    BY <1>2, <1>3, <2>1, <2>4, NumberedTrades
  <2> QED
    BY <1>6, <2>2, <2>3, <2>4 DEF External
<1> QED
  BY <1>1, <1>4, <1>5, <1>6

LEMMA PipesStep ==
    ASSUME ClientsInv, PipesInv, AnnouncedUsersOnline, [Next]_vars
    PROVE  PipesInv' /\ AnnouncedUsersOnline'
<1>1. CASE UNCHANGED vars
  BY <1>1 DEF vars, PipesInv, Sound, Distinct, Pipes, AnnouncedUsersOnline, Messages, Online
<1>2. ASSUME NEW c, Trading(c)
      PROVE  PipesInv' /\ AnnouncedUsersOnline'
  BY <1>2 DEF Trading, PipesInv
<1>3. ASSUME NEW c, Leaving(c)
      PROVE  PipesInv' /\ AnnouncedUsersOnline'
  BY <1>3, LeavingFrees DEF PipesInv
<1>4. ASSUME NEW c, Entering(c)
      PROVE  PipesInv' /\ AnnouncedUsersOnline'
  BY <1>4, EnteringTrades
<1> QED
  BY <1>1, <1>2, <1>3, <1>4, CallsTrade

(* However users come, go and pass their numbers on: the table of user      *)
(* pipes has one entry per pair, those left by users gone among them, and   *)
(* whoever a line names as a sender or a receiver is on line (Rwg:          *)
(* add_user_pipe, free_user_pipe and the announcements of shell()).         *)
THEOREM PipesAlways == Spec => [](PipesInv /\ AnnouncedUsersOnline)
<1>1. Init => PipesInv /\ AnnouncedUsersOnline
  BY AnnouncedNone DEF Init, PipesInv, Sound, Distinct, Pipes, AnnouncedUsersOnline, Messages
<1> QED
  BY <1>1, PipesStep, ClientsAlways, PTL DEF Spec

(* There is at most one pipe from one user to another, whatever users gone  *)
(* left in the table: add_user_pipe, del_user_pipe and free_user_pipe never *)
(* make two.                                                                *)
THEOREM PipesAlwaysOne == Spec => []OnePipePerPair
<1>1. PipesInv => OnePipePerPair
  BY DEF PipesInv, Sound, Distinct, OnePipePerPair
<1> QED
  BY <1>1, PipesAlways, PTL

(* Both users an announcement names are logged in when it is made. *)
THEOREM AnnouncedAlwaysOnline == Spec => []AnnouncedUsersOnline
  BY PipesAlways, PTL

(* A command line changes the table by exactly what it announces. *)
THEOREM TableAlwaysMoves == Spec => TableMovesAsAnnounced
<1>1. ASSUME ClientsInv, PipesInv, [Next]_vars
      PROVE  [OfClient' => Moved]_vars
  <2>1. ASSUME NEW c, Trading(c)
        PROVE  Moved
    BY <2>1 DEF Trading
  <2> QED
    BY <1>1, <2>1, CallsTrade, EnteringTrades, LeavingFrees DEF PipesInv
<1> QED
  BY <1>1, ClientsAlways, PipesAlways, PTL DEF Spec, TableMovesAsAnnounced, Moved

(* What a user is refused is refused for a reason. *)
THEOREM RefusalsAlwaysTrue == Spec => RefusalsAreTrue
<1>1. ASSUME ClientsInv, PipesInv, [Next]_vars
      PROVE  [Refused]_vars
  <2>1. ASSUME NEW c, Trading(c)
        PROVE  Refused
    BY <2>1 DEF Trading
  <2> QED
    BY <1>1, <2>1, CallsTrade, EnteringTrades, LeavingFrees DEF PipesInv
<1> QED
  BY <1>1, ClientsAlways, PipesAlways, PTL DEF Spec, RefusalsAreTrue, Refused

(* Of two neighbours in the table free_user_pipe closes at least one. *)
THEOREM NeighboursNeverBothLeft == Spec => NeighboursNotBothLeft
<1>1. ASSUME ClientsInv, PipesInv, [Next]_vars
      PROVE  [\A c \in total \ total' : NeighboursBroken(c)]_vars
  <2>1. ASSUME NEW c, Trading(c)
        PROVE  total' = total
    BY <2>1 DEF Trading
  <2>2. ASSUME NEW c, Leaving(c)
        PROVE  total \ total' = {c} /\ NeighboursBroken(c)
    BY <1>1, <2>2, LeavingFrees DEF Leaving, Exit, PipesInv
  <2> QED
    BY <1>1, <2>1, <2>2, CallsTrade, EnteringTrades
<1> QED
  BY <1>1, ClientsAlways, PipesAlways, PTL DEF Spec, NeighboursNotBothLeft, NeighboursBroken
-----------------------------------------------------------------------------
(* The numbered pipes. *)
LEMMA ModIs ==
    ASSUME NEW m \in Nat, m > 0, NEW x \in 0..2 * m - 1
    PROVE  x % m = IF x < m THEN x ELSE x - m
<1>1. CASE x < m
  BY <1>1
<1>2. CASE x >= m
  BY <1>2
<1> QED
  BY <1>1, <1>2

LEMMA ModRange ==
    ASSUME NEW m \in Nat, NEW x \in 0..2 * m + 1
    PROVE  x % (m + 1) \in 0..m
<1>1. m + 1 \in Nat /\ m + 1 > 0 /\ x \in 0..2 * (m + 1) - 1
  OBVIOUS
<1>2. x % (m + 1) = IF x < m + 1 THEN x ELSE x - (m + 1)
  BY <1>1, ModIs
<1> QED
  BY <1>2

LEMMA OneLineNearer ==
    ASSUME NEW m \in Nat, NEW k \in 0..m, NEW j \in 1..m
    PROVE  (((k + 1) % (m + 1)) + (j - 1)) % (m + 1) = (k + j) % (m + 1)
<1>1. k + 1 \in 0..2 * (m + 1) - 1 /\ k + j \in 0..2 * (m + 1) - 1 /\ m + 1 \in Nat /\ m + 1 > 0
  OBVIOUS
<1>2. (k + 1) % (m + 1) = IF k < m THEN k + 1 ELSE 0
  BY <1>1, ModIs
<1>3. (k + j) % (m + 1) = IF k + j < m + 1 THEN k + j ELSE k + j - (m + 1)
  BY <1>1, ModIs
<1>4. CASE k < m
  BY <1>2, <1>4
<1>5. CASE k = m
  <2>1. (k + j) % (m + 1) = j - 1
    BY <1>3, <1>5
  <2>2. (j - 1) % (m + 1) = j - 1
    <3>1. j - 1 \in 0..2 * (m + 1) - 1 /\ j - 1 < m + 1
      OBVIOUS
    <3> QED
      BY <3>1, <1>1, ModIs
  <2>3. ((k + 1) % (m + 1)) + (j - 1) = j - 1
    BY <1>2, <1>5
  <2> QED
    BY <2>1, <2>2, <2>3
<1> QED
  BY <1>4, <1>5

Entry == [number : 1..MaxN, due : 0..MaxN]
EntryCounted == [number : 0..MaxN, due : 0..MaxN]

LEMMA CountedIs ==
    ASSUME NEW pipes \in Seq(Entry)
    PROVE  /\ Counted(pipes) \in Seq(EntryCounted)
           /\ Len(Counted(pipes)) = Len(pipes)
           /\ \A i \in 1..Len(pipes) :
                 /\ Counted(pipes)[i].number = pipes[i].number - 1
                 /\ Counted(pipes)[i].due = pipes[i].due
<1>1. DOMAIN pipes = 1..Len(pipes) /\ Len(pipes) \in Nat /\ \A i \in 1..Len(pipes) : pipes[i] \in Entry
  OBVIOUS
<1>2. ASSUME NEW i \in 1..Len(pipes)
      PROVE  /\ [pipes[i] EXCEPT !.number = @ - 1] \in EntryCounted
             /\ [pipes[i] EXCEPT !.number = @ - 1].number = pipes[i].number - 1
             /\ [pipes[i] EXCEPT !.number = @ - 1].due = pipes[i].due
  <2>1. pipes[i] \in Entry
    BY <1>1
  <2> QED
    BY <2>1, RwgAssumption DEF Entry, EntryCounted
<1> DEFINE counted == Counted(pipes)
<1>3. counted = [i \in 1..Len(pipes) |-> [pipes[i] EXCEPT !.number = @ - 1]]
  BY <1>1 DEF Counted
<1>4. \A i \in 1..Len(pipes) : counted[i] \in EntryCounted
                              /\ counted[i].number = pipes[i].number - 1
                              /\ counted[i].due = pipes[i].due
  <2> HIDE DEF counted
  <2> QED
    BY <1>2, <1>3
<1>5. DOMAIN counted = 1..Len(pipes)
  BY <1>3
<1>6. counted \in Seq(EntryCounted) /\ Len(counted) = Len(pipes)
  <2>1. counted \in [1..Len(pipes) -> EntryCounted]
    <3> HIDE DEF counted
    <3> QED
      BY <1>3, <1>4, <1>5
  <2> HIDE DEF counted
  <2> QED
    BY <2>1, <1>1, <1>5
<1> QED
  BY <1>4, <1>6

(* Each entry that still waits was one of these, one line further away. *)
Nearer(places, pipes, waiting) ==
    /\ \A i, j \in 1..Len(waiting) : i # j => places[i] # places[j]
    /\ \A i \in 1..Len(waiting) :
          /\ places[i] \in 1..Len(pipes)
          /\ waiting[i].number = pipes[places[i]].number - 1
          /\ waiting[i].due = pipes[places[i]].due

LEMMA WaitingIs ==
    ASSUME NEW pipes \in Seq(Entry)
    PROVE  /\ Waiting(pipes) \in Seq(Entry)
           /\ \E places : Nearer(places, pipes, Waiting(pipes))
<1> DEFINE counted == Counted(pipes)
           wanted == {p \in ToSet(counted) : p.number # 0}
<1>1. PICK waiting : waiting = Waiting(pipes)
  OBVIOUS
<1>2. /\ counted \in Seq(EntryCounted)
      /\ Len(counted) = Len(pipes)
      /\ \A i \in 1..Len(pipes) : /\ counted[i].number = pipes[i].number - 1
                                  /\ counted[i].due = pipes[i].due
  BY CountedIs
<1>3. waiting = Among(counted, wanted)
  BY <1>1 DEF Waiting
<1>4. Len(pipes) \in Nat
  OBVIOUS
<1> HIDE DEF counted, wanted
<1>5. waiting \in Seq(EntryCounted)
  BY <1>2, <1>3, AmongLeaves
<1>6. PICK places : /\ Leaves(places, counted, Len(counted), waiting)
                    /\ Places(places, waiting) = {i \in 1..Len(counted) : counted[i] \in wanted}
  BY <1>2, <1>3, AmongLeaves
<1>7. Len(waiting) \in Nat /\ DOMAIN waiting = 1..Len(waiting)
  BY <1>5
<1>8. /\ \A i, j \in 1..Len(waiting) : i < j => places[i] < places[j]
      /\ \A i \in 1..Len(waiting) : places[i] \in 1..Len(pipes) /\ waiting[i] = counted[places[i]]
  BY <1>2, <1>6 DEF Leaves
<1>9. ASSUME NEW i \in 1..Len(waiting)
      PROVE  waiting[i].number # 0
  <2>1. places[i] \in Places(places, waiting)
    BY DEF Places
  <2>2. counted[places[i]] \in wanted
    BY <1>6, <2>1
  <2> QED
    BY <1>8, <2>2 DEF wanted
<1>10. \A i, j \in 1..Len(waiting) : i # j => places[i] # places[j]
  BY <1>7, <1>8
<1>11. waiting \in Seq(Entry)
  <2>1. \A i \in 1..Len(waiting) : waiting[i] \in EntryCounted
    BY <1>5
  <2>2. \A i \in 1..Len(waiting) : waiting[i] \in Entry
    BY <1>9, <2>1, RwgAssumption DEF Entry, EntryCounted
  <2> QED
    BY <1>5, <1>7, <2>2
<1>12. Nearer(places, pipes, waiting)
  BY <1>2, <1>8, <1>10 DEF Nearer
<1> QED
  BY <1>1, <1>11, <1>12

(* The numbered pipes of a client that has entered k lines, modulo MaxN + 1. *)
OnSchedule(pipes, k) ==
    /\ \A i \in 1..Len(pipes) : pipes[i].due = (k + pipes[i].number) % (MaxN + 1)
    /\ \A i, j \in 1..Len(pipes) : pipes[i].number = pipes[j].number => i = j

LEMMA WaitingOnSchedule ==
    ASSUME NEW k \in 0..MaxN, NEW pipes \in Seq(Entry), OnSchedule(pipes, k)
    PROVE  OnSchedule(Waiting(pipes), (k + 1) % (MaxN + 1))
<1>1. PICK waiting : waiting = Waiting(pipes)
  OBVIOUS
<1>2. waiting \in Seq(Entry)
  BY <1>1, WaitingIs
<1>3. PICK places : Nearer(places, pipes, waiting)
  BY <1>1, WaitingIs
<1>4. \A i \in 1..Len(pipes) : pipes[i].number \in 1..MaxN
  <2>1. \A i \in 1..Len(pipes) : pipes[i] \in Entry
    OBVIOUS
  <2> QED
    BY <2>1 DEF Entry
<1>5. ASSUME NEW i \in 1..Len(waiting)
      PROVE  waiting[i].due = (((k + 1) % (MaxN + 1)) + waiting[i].number) % (MaxN + 1)
  <2>1. PICK j \in 1..MaxN : j = pipes[places[i]].number
    BY <1>3, <1>4 DEF Nearer
  <2>2. waiting[i].due = (k + j) % (MaxN + 1) /\ waiting[i].number = j - 1
    BY <1>3, <2>1 DEF OnSchedule, Nearer
  <2>3. (((k + 1) % (MaxN + 1)) + (j - 1)) % (MaxN + 1) = (k + j) % (MaxN + 1)
    BY OneLineNearer, RwgAssumption
  <2> QED
    BY <2>2, <2>3
<1>6. ASSUME NEW i \in 1..Len(waiting), NEW j \in 1..Len(waiting),
             waiting[i].number = waiting[j].number
      PROVE  i = j
  <2>1. pipes[places[i]].number = pipes[places[j]].number
    <3>1. PICK x \in 1..MaxN : x = pipes[places[i]].number /\ waiting[i].number = x - 1
      BY <1>3, <1>4 DEF Nearer
    <3>2. PICK y \in 1..MaxN : y = pipes[places[j]].number /\ waiting[j].number = y - 1
      BY <1>3, <1>4 DEF Nearer
    <3>3. x = y
      <4>1. x \in Int /\ y \in Int
        BY RwgAssumption
      <4>2. x - 1 = y - 1
        BY <1>6, <3>1, <3>2
      <4> QED
        BY <4>1, <4>2
    <3> QED
      BY <3>1, <3>2, <3>3
  <2>2. places[i] = places[j]
    BY <1>3, <2>1 DEF OnSchedule, Nearer
  <2> QED
    BY <1>3, <2>2 DEF Nearer
<1> QED
  BY <1>1, <1>5, <1>6 DEF OnSchedule

LEMMA AimOnSchedule ==
    ASSUME NEW k \in 0..MaxN, NEW n \in 1..MaxN, NEW pipes \in Seq(Entry), OnSchedule(pipes, k)
    PROVE  /\ Aim(pipes, n, (k + n) % (MaxN + 1)) \in Seq(Entry)
           /\ OnSchedule(Aim(pipes, n, (k + n) % (MaxN + 1)), k)
<1> DEFINE due == (k + n) % (MaxN + 1)
           new == [number |-> n, due |-> due]
           longer == Append(pipes, new)
<1>1. CASE \E i \in DOMAIN pipes : pipes[i].number = n
  BY <1>1 DEF Aim
<1>2. CASE ~\E i \in DOMAIN pipes : pipes[i].number = n
  <2>1. Aim(pipes, n, due) = longer
    BY <1>2 DEF Aim
  <2>2. due \in 0..MaxN
    <3>1. MaxN \in Nat /\ k + n \in 0..2 * MaxN + 1
      BY RwgAssumption
    <3> QED
      BY <3>1, ModRange
  <2>3. DOMAIN pipes = 1..Len(pipes) /\ Len(pipes) \in Nat
    OBVIOUS
  <2> HIDE DEF due
  <2>4. new \in Entry /\ new.number = n /\ new.due = due
    BY <2>2 DEF Entry
  <2> HIDE DEF new
  <2>5. /\ longer \in Seq(Entry) /\ Len(longer) = Len(pipes) + 1
        /\ longer[Len(pipes) + 1] = new
        /\ \A i \in 1..Len(pipes) : longer[i] = pipes[i]
    BY <2>4
  <2>6. \A i \in 1..Len(pipes) + 1 : i \in 1..Len(pipes) \/ i = Len(pipes) + 1
    BY <2>3
  <2> HIDE DEF longer
  <2>7. \A i \in 1..Len(longer) : longer[i].due = (k + longer[i].number) % (MaxN + 1)
    BY <2>4, <2>5, <2>6 DEF OnSchedule, due
  <2>8. \A i, j \in 1..Len(longer) : longer[i].number = longer[j].number => i = j
    BY <1>2, <2>3, <2>4, <2>5, <2>6 DEF OnSchedule
  <2> QED
    BY <2>1, <2>5, <2>7, <2>8 DEF OnSchedule, due
<1> QED
  BY <1>1, <1>2

NumbersInv ==
    /\ number_pipe \in [total -> Seq(Entry)]
    /\ clock \in [total -> 0..MaxN]
    /\ \A c \in total : OnSchedule(number_pipe[c], clock[c])

(* A line of client c, which leaves it these numbered pipes. *)
Counts(c, pipes) ==
    /\ c \in total /\ total' = total
    /\ number_pipe' = [number_pipe EXCEPT ![c] = pipes]
    /\ clock' = [clock EXCEPT ![c] = Tick(c)]
    /\ \/ pipes = Waiting(number_pipe[c])
       \/ \E n \in 1..MaxN : pipes = Aim(Waiting(number_pipe[c]), n, (Tick(c) + n) % (MaxN + 1))

LEMMA CallsCount ==
    ASSUME Next, NumbersInv
    PROVE  \E c \in Fd : Entering(c) \/ Leaving(c) \/ \E pipes : Counts(c, pipes)
<1>1. PICK c \in Fd : (\E n \in Id : Login(c, n)) \/ BuiltIn(c) \/ External(c)
  BY DEF Next
<1>2. CASE \E n \in Id : Login(c, n)
  BY <1>2 DEF Entering
<1>3. CASE Exit(c)
  BY <1>3 DEF Leaving
<1>4. ASSUME NEW e, NEW table, NEW messages, Line(c, e, table, messages), number_pipe' = Counting(c)
      PROVE  \E pipes : Counts(c, pipes)
  <2>1. PICK pipes : pipes = Waiting(number_pipe[c])
    OBVIOUS
  <2>2. number_pipe' = [number_pipe EXCEPT ![c] = pipes]
    BY <1>4, <2>1 DEF Line, Counting, NumbersInv
  <2> QED
    BY <1>4, <2>1, <2>2 DEF Line, Counts
<1>5. ASSUME NEW e, NEW table, NEW messages, PlainLine(c, e, table, messages)
      PROVE  \E pipes : Counts(c, pipes)
  BY <1>4, <1>5 DEF PlainLine
<1>6. CASE BuiltIn(c)
  <2>1. ASSUME NEW v \in Var, PrintEnv(c, v)
        PROVE  \E pipes : Counts(c, pipes)
    BY <1>5, <2>1 DEF PrintEnv
  <2>2. ASSUME NEW v \in Var, NEW x \in Value, SetEnv(c, v, x)
        PROVE  \E pipes : Counts(c, pipes)
    BY <1>4, <2>2 DEF SetEnv
  <2>3. ASSUME NEW new \in Name, ChangeName(c, new)
        PROVE  \E pipes : Counts(c, pipes)
    BY <1>4, <2>3 DEF ChangeName
  <2>4. ASSUME Who(c)
        PROVE  \E pipes : Counts(c, pipes)
    BY <1>5, <2>4 DEF Who
  <2>5. ASSUME NEW in, NEW out, NEW messages, Chat(c, in, out, messages)
        PROVE  \E pipes : Counts(c, pipes)
    BY <1>5, <2>5 DEF Chat
  <2> QED
    BY <1>3, <1>6, <2>1, <2>2, <2>3, <2>4, <2>5 DEF BuiltIn, Yell, Tell
<1>7. CASE External(c)
  <2>1. ASSUME NEW in, NEW out, Command(c, in, out) \/ Pipeline(c, in, out)
        PROVE  \E pipes : Counts(c, pipes)
    BY <1>5, <2>1 DEF Command, Pipeline
  <2>2. ASSUME NEW in, NEW n \in 1..MaxN, NumberedLine(c, in, n)
        PROVE  \E pipes : Counts(c, pipes)
    <3>1. PICK pipes : pipes = Aim(Waiting(number_pipe[c]), n, (Tick(c) + n) % (MaxN + 1))
      OBVIOUS
    <3>2. number_pipe' = [number_pipe EXCEPT ![c] = pipes]
      BY <2>2, <3>1 DEF NumberedLine, Line, NumbersInv
    <3> QED
      BY <2>2, <3>1, <3>2 DEF NumberedLine, Line, Counts
  <2> QED
    BY <1>7, <2>1, <2>2 DEF External
<1> QED
  BY <1>1, <1>2, <1>6, <1>7

LEMMA CountsKeeps ==
    ASSUME NumbersInv, NEW c, NEW pipes, Counts(c, pipes)
    PROVE  NumbersInv'
<1>1. /\ c \in total /\ total' = total
      /\ number_pipe \in [total -> Seq(Entry)] /\ clock \in [total -> 0..MaxN]
      /\ OnSchedule(number_pipe[c], clock[c])
  BY DEF Counts, NumbersInv
<1>2. number_pipe[c] \in Seq(Entry) /\ clock[c] \in 0..MaxN
  BY <1>1
<1>3. PICK waiting \in Seq(Entry) : waiting = Waiting(number_pipe[c])
  BY <1>2, WaitingIs
<1>4. PICK k \in 0..MaxN : k = Tick(c)
  <2>1. MaxN \in Nat /\ clock[c] + 1 \in 0..2 * MaxN + 1
    BY <1>2, RwgAssumption
  <2>2. (clock[c] + 1) % (MaxN + 1) \in 0..MaxN
    BY <2>1, ModRange
  <2> QED
    BY <2>2 DEF Tick
<1>5. OnSchedule(waiting, k)
  BY <1>1, <1>2, <1>3, <1>4, WaitingOnSchedule DEF Tick
<1>6. pipes \in Seq(Entry) /\ OnSchedule(pipes, k)
  <2>1. CASE pipes = waiting
    BY <1>5, <2>1
  <2>2. ASSUME NEW n \in 1..MaxN, pipes = Aim(waiting, n, (k + n) % (MaxN + 1))
        PROVE  pipes \in Seq(Entry) /\ OnSchedule(pipes, k)
    BY <1>5, <2>2, AimOnSchedule
  <2> QED
    BY <1>3, <1>4, <2>1, <2>2 DEF Counts
<1>7. /\ number_pipe' = [number_pipe EXCEPT ![c] = pipes]
      /\ clock' = [clock EXCEPT ![c] = k]
  BY <1>4 DEF Counts
<1>8. number_pipe' \in [total' -> Seq(Entry)] /\ clock' \in [total' -> 0..MaxN]
  BY <1>1, <1>6, <1>7
<1>9. ASSUME NEW d \in total'
      PROVE  OnSchedule(number_pipe'[d], clock'[d])
  BY <1>1, <1>6, <1>7, Zenon DEF NumbersInv
<1> QED
  BY <1>8, <1>9 DEF NumbersInv

LEMMA NumbersStep ==
    ASSUME NumbersInv, [Next]_vars
    PROVE  NumbersInv'
<1>1. CASE UNCHANGED vars
  BY <1>1 DEF vars, NumbersInv
<1>2. ASSUME NEW c, Entering(c)
      PROVE  NumbersInv'
  <2>1. /\ c \notin total /\ total' = total \cup {c}
        /\ number_pipe' = With(number_pipe, c, <<>>) /\ clock' = With(clock, c, 0)
    BY <1>2 DEF Entering, Login
  <2>2. <<>> \in Seq(Entry) /\ 0 \in 0..MaxN /\ OnSchedule(<<>>, 0)
    BY RwgAssumption DEF OnSchedule
  <2>3. number_pipe' \in [total' -> Seq(Entry)] /\ clock' \in [total' -> 0..MaxN]
    BY <2>1, <2>2 DEF NumbersInv, With
  <2>4. ASSUME NEW d \in total'
        PROVE  OnSchedule(number_pipe'[d], clock'[d])
    <3>1. CASE d = c
      BY <2>1, <2>2, <3>1 DEF With
    <3>2. CASE d # c
      <4>1. d \in total /\ number_pipe'[d] = number_pipe[d] /\ clock'[d] = clock[d]
        BY <2>1, <3>2 DEF With, NumbersInv
      <4> QED
        BY <4>1 DEF NumbersInv
    <3> QED
      BY <3>1, <3>2
  <2> QED
    BY <2>3, <2>4 DEF NumbersInv
<1>3. ASSUME NEW c, Leaving(c)
      PROVE  NumbersInv'
  <2>1. /\ c \in total /\ total' = total \ {c}
        /\ number_pipe' = Without(number_pipe, c) /\ clock' = Without(clock, c)
    BY <1>3 DEF Leaving, Exit
  <2>2. number_pipe' \in [total' -> Seq(Entry)] /\ clock' \in [total' -> 0..MaxN]
    BY <2>1 DEF NumbersInv, Without
  <2>3. ASSUME NEW d \in total'
        PROVE  OnSchedule(number_pipe'[d], clock'[d])
    <3>1. d \in total /\ number_pipe'[d] = number_pipe[d] /\ clock'[d] = clock[d]
      BY <2>1 DEF Without, NumbersInv
    <3> QED
      BY <3>1 DEF NumbersInv
  <2> QED
    BY <2>2, <2>3 DEF NumbersInv
<1> QED
  BY <1>1, <1>2, <1>3, CallsCount, CountsKeeps

(* Each user's numbered pipes keep their types, differ in their counts and  *)
(* come due when their first writer asked (Rwg: the erase loop and the      *)
(* search for an equal count in shell()).                                   *)
THEOREM NumbersAlways == Spec => []NumbersInv
<1>1. Init => NumbersInv
  BY RwgAssumption DEF Init, NumbersInv, OfEach
<1> QED
  BY <1>1, NumbersStep, PTL DEF Spec

(* Every waiting numbered pipe is read on the line its writers asked for,   *)
(* and a line never finds two of them to read.                              *)
THEOREM CountsAlwaysOnSchedule == Spec => []CountsOnSchedule
<1>1. ASSUME NumbersInv
      PROVE  CountsOnSchedule
  <2>1. ASSUME NEW c \in total
        PROVE  /\ OnSchedule(number_pipe[c], clock[c])
               /\ DOMAIN number_pipe[c] = 1..Len(number_pipe[c])
    BY <1>1 DEF NumbersInv
  <2> QED
    BY <2>1 DEF CountsOnSchedule, OnSchedule
<1> QED
  BY <1>1, NumbersAlways, PTL

(* The values each variable can have. *)
THEOREM AlwaysTyped == Spec => []TypeOK
<1>1. ClientsInv /\ PipesInv /\ NumbersInv => TypeOK
  BY DEF ClientsInv, PipesInv, NumbersInv, Sound, Entry, TypeOK, PipesTypeOK
<1> QED
  BY <1>1, ClientsAlways, PipesAlways, NumbersAlways, PTL
=============================================================================

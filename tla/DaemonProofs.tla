---------------------------- MODULE DaemonProofs ----------------------------
(***************************************************************************)
(* Proofs about Daemon, for any pool, any number of requests and any set   *)
(* of signals.  A stack has what the thread does at the bottom and signal  *)
(* handlers above it, so a step at a point outside the handler concerns a  *)
(* stack with one element.                                                 *)
(***************************************************************************)
EXTENDS Daemon, FiniteSetTheorems, SequenceTheorems, TLAPS

Serving == {"waiting", "join", "joined"}
Gone == {"success", "failure"}
Settled == {"forked", "signal", "run"} \cup Serving

PoolPoints == {"idle", "poll", "request", "emit", "use"}

Bottom(t) ==
  IF t = "main" THEN InitSteps \cup {"fork"} \cup Settled \cup Gone
  ELSE IF t = "rpc" THEN {"join pool"}
  ELSE IF t = "fuse" THEN {"mounting", "mount"}
  ELSE IF t = "checker" THEN {"check"}
  ELSE PoolPoints

Points == Handler \cup InitSteps \cup {"fork"} \cup Settled \cup Gone \cup PoolPoints
            \cup {"join pool", "mounting", "mount", "check"}

\* What a stack of t can be.
Shaped(t, s) ==
  /\ s \in Seq(Points)
  /\ Len(s) >= 1 => s[1] \in Bottom(t)
  /\ \A i \in 2..Len(s) : s[i] \in Handler

StackInv == stack \in [Threads -> Seq(Points)] /\ \A t \in Threads : Shaped(t, stack[t])

\* u is s with another last element, or without its last element.
Replaced(s, u, x) ==
  /\ Len(u) = Len(s) /\ u[Len(s)] = x
  /\ \A i \in 1..Len(s) : i # Len(s) => u[i] = s[i]

LEMMA DropLast ==
  ASSUME NEW S, NEW s \in Seq(S), s # << >>
  PROVE  /\ Front(s) \in Seq(S) /\ Len(Front(s)) = Len(s) - 1 /\ Len(s) \in Nat /\ Len(s) >= 1
         /\ \A i \in 1..(Len(s) - 1) : Front(s)[i] = s[i]
<1>1. Len(s) \in Nat /\ Len(s) >= 1 /\ \A i \in 1..Len(s) : s[i] \in S  OBVIOUS
<1> DEFINE n == Len(s) - 1
           f == SubSeq(s, 1, n)
<1>2. n \in Nat /\ 1 \in Int /\ n \in Int /\ \A i \in 1..n : s[i] \in S  BY <1>1
<1> HIDE DEF n
<1>3. /\ f \in Seq(S) /\ Len(f) = (IF 1 <= n THEN n - 1 + 1 ELSE 0)
      /\ \A i \in 1..(n - 1 + 1) : f[i] = s[1 + i - 1]
  BY <1>2, SubSeqProperties
<1> HIDE DEF f
<1>4. Len(f) = n  BY <1>2, <1>3
<1>5. \A i \in 1..n : f[i] = s[i]
  <2>1. ASSUME NEW i \in 1..n PROVE f[i] = s[i]
    <3>1. i \in 1..(n - 1 + 1) /\ 1 + i - 1 = i  BY <1>2
    <3> QED  BY <1>3, <3>1
  <2> QED  BY <2>1
<1>6. Front(s) = f  BY DEF Front, f, n
<1> QED  BY <1>1, <1>3, <1>4, <1>5, <1>6 DEF n

LEMMA ReplaceLast ==
  ASSUME NEW S, NEW s \in Seq(S), s # << >>, NEW x \in S
  PROVE  Append(Front(s), x) \in Seq(S) /\ Replaced(s, Append(Front(s), x), x)
<1> DEFINE f == Front(s)
<1>1. /\ f \in Seq(S) /\ Len(f) = Len(s) - 1 /\ Len(s) \in Nat /\ Len(s) >= 1
      /\ \A i \in 1..(Len(s) - 1) : f[i] = s[i]
  BY DropLast
<1> HIDE DEF f
<1>2. /\ Append(f, x) \in Seq(S) /\ Len(Append(f, x)) = Len(s) /\ Append(f, x)[Len(s)] = x
      /\ \A i \in 1..Len(s) : i # Len(s) => Append(f, x)[i] = f[i]
  BY <1>1
<1> QED  BY <1>1, <1>2 DEF Replaced, f

LEMMA UpTo ==
  /\ \A n \in Nat : n >= 1 => 1 \in 1..n /\ n \in 1..n
  /\ \A n \in Nat : n >= 2 => n >= 1 /\ n # 1
  /\ \A n : n \in 1..1 => n = 1
OBVIOUS

LEMMA ThreadKinds ==
  /\ "main" \in Threads /\ "rpc" \in Threads /\ "fuse" \in Threads /\ "checker" \in Threads
  /\ \A p \in Pool : p \in Threads /\ p # "main" /\ p # "rpc" /\ p # "fuse" /\ p # "checker"
  /\ \A p \in Pool : Bottom(p) = PoolPoints
BY DaemonAssumption DEF Threads, Bottom

\* A thread at a point outside the handler does nothing else.
LEMMA OnBottom ==
  ASSUME StackInv, NEW t \in Threads, NEW x, At(t, x)
  PROVE  /\ stack[t] \in Seq(Points) /\ stack[t] # << >> /\ Len(stack[t]) \in Nat /\ Len(stack[t]) >= 1
         /\ stack[t][Len(stack[t])] = x
         /\ x \notin Handler => Len(stack[t]) = 1 /\ stack[t][1] = x /\ x \in Bottom(t)
         /\ x \in Handler => Len(stack[t]) >= 2
<1> DEFINE s == stack[t]
           n == Len(s)
<1>1. s \in Seq(Points) /\ s # << >> /\ n \in Nat /\ n >= 1 /\ s[n] = x
  BY DEF StackInv, At, Runs, Last
<1>2. Shaped(t, s)  BY DEF StackInv
<1>3. Bottom(t) \cap Handler = {}
  BY DEF Bottom, Handler, Settled, Serving, InitSteps, Gone, PoolPoints
<1>4. s[1] \in Bottom(t)  BY <1>1, <1>2 DEF Shaped
<1>5. n \in 2..n => x \in Handler  BY <1>1, <1>2 DEF Shaped
<1> HIDE DEF s, n
<1>6. x \notin Handler => n = 1  BY <1>1, <1>5
<1>7. x \in Handler => n >= 2
  <2>1. x \in Handler => n # 1  BY <1>1, <1>3, <1>4
  <2> QED  BY <1>1, <2>1
<1> QED  BY <1>1, <1>4, <1>6, <1>7 DEF s, n

\* One thread moves on, and the others stay where they are.
Moves(t, x, y) ==
  /\ stack' \in [Threads -> Seq(Points)]
  /\ \A v \in Threads : v # t => stack'[v] = stack[v]
  /\ Replaced(stack[t], stack'[t], y)

LEMMA GotoMoves ==
  ASSUME StackInv, NEW t \in Threads, NEW x, At(t, x), NEW y \in Points, stack' = Goto(t, y)
  PROVE  Moves(t, x, y)
<1>1. stack[t] \in Seq(Points) /\ stack[t] # << >>  BY OnBottom
<1> DEFINE u == Append(Front(stack[t]), y)
<1>2. u \in Seq(Points) /\ Replaced(stack[t], u, y)  BY <1>1, ReplaceLast
<1>3. stack' = [stack EXCEPT ![t] = u]  BY DEF Goto
<1> HIDE DEF u
<1> QED  BY <1>2, <1>3 DEF StackInv, Moves

\* The shapes after a move: a point of the bottom follows one of the bottom, and
\* a point of the handler one of the handler.
LEMMA MovesShape ==
  ASSUME StackInv, NEW t \in Threads, NEW x, At(t, x), NEW y \in Points, Moves(t, x, y),
         IF x \in Handler THEN y \in Handler ELSE y \in Bottom(t)
  PROVE  /\ StackInv' /\ Len(stack'[t]) = Len(stack[t])
         /\ IF x \in Handler THEN stack'[t][1] = stack[t][1] ELSE stack'[t][1] = y
<1>1. /\ stack[t] \in Seq(Points) /\ Len(stack[t]) \in Nat /\ Len(stack[t]) >= 1
      /\ x \notin Handler => Len(stack[t]) = 1
      /\ x \in Handler => Len(stack[t]) >= 2
  BY OnBottom
<1>2. Shaped(t, stack[t])  BY DEF StackInv
<1> DEFINE u == stack'[t]
<1>3. u \in Seq(Points) /\ Replaced(stack[t], u, y)  BY DEF Moves
<1>4. Shaped(t, u)
  <2> HIDE DEF u
  <2> QED  BY <1>1, <1>2, <1>3 DEF Shaped, Replaced
<1>5. \A v \in Threads : Shaped(v, stack'[v])  BY <1>4 DEF Moves, StackInv
<1> QED  BY <1>1, <1>3, <1>5 DEF StackInv, Moves, Replaced
-----------------------------------------------------------------------------
(* How far main has come, and what stop has done.                            *)

\* The steps of init that are done when main is at m.
Before ==
  [ ConfigManager |-> {},
    Logger |-> {"ConfigManager"},
    PluginManager |-> {"ConfigManager", "Logger"},
    loadPlugin |-> {"ConfigManager", "Logger", "PluginManager"},
    localstorages |-> {"ConfigManager", "Logger", "PluginManager", "loadPlugin"},
    utils |-> {"ConfigManager", "Logger", "PluginManager", "loadPlugin", "localstorages"},
    StorageManager |-> {"ConfigManager", "Logger", "PluginManager", "loadPlugin", "localstorages",
                        "utils"},
    NetManager |-> InitSteps \ {"NetManager", "RPCManager"},
    RPCManager |-> InitSteps \ {"RPCManager"} ]
Done(m) == IF m \in InitSteps THEN Before[m] ELSE InitSteps

\* Where main is tells what is made, installed and started; the threads of init
\* are lost in the fork, and nothing interrupts a thread before the handler is
\* installed.
OrderInv ==
  /\ Len(stack["main"]) >= 1
  /\ stack["main"][1] \notin Gone =>
       /\ made = Done(stack["main"][1])
       /\ handled <=> stack["main"][1] \in {"run"} \cup Serving
       /\ served <=> stack["main"][1] \in Serving
  /\ served => handled /\ made = InitSteps
  /\ daemonize /\ (served \/ stack["main"][1] \in Settled) =>
       Len(stack["fuse"]) = 0 /\ Len(stack["checker"]) = 0
  /\ ~handled => \A t \in Threads : Len(stack[t]) <= 1
  /\ ~served => \A p \in Pool \cup {"rpc"} : Len(stack[p]) = 0

Requesting(s) == Len(s) >= 1 /\ s[1] \in {"request", "emit", "use"}

Killing == {"kill", "kill modules", "disconnect"}

\* Managers are destroyed only after the pool's io_service is stopped; who was in
\* a request then is on record.
StopInv ==
  /\ \A t \in Threads : \A i \in 1..Len(stack[t]) : stack[t][i] \in Killing => stopped
  /\ killed # {} => stopped
  /\ killed # {} => \A p \in Pool : Requesting(stack[p]) => p \in busy

DaemonInv == StackInv /\ OrderInv /\ StopInv

\* No stack grows, but for a new thread.
Lower ==
  \A v \in Threads : \/ Len(stack'[v]) = Len(stack[v]) \/ Len(stack'[v]) = Len(stack[v]) - 1
                     \/ Len(stack'[v]) <= 1

LEMMA InRequestIs ==
  ASSUME StackInv, NEW p \in Pool
  PROVE  InRequest(p) <=> Requesting(stack[p])
<1>1. stack[p] \in Seq(Points)  BY ThreadKinds DEF StackInv
<1> DEFINE s == stack[p]
<1> HIDE DEF s
<1>2. s \in Seq(Points)  BY <1>1 DEF s
<1>3. s # << >> <=> Len(s) >= 1  BY <1>2
<1>4. Len(s) >= 1 => Head(s) = s[1]  BY <1>2
<1> QED  BY <1>3, <1>4 DEF s, InRequest, Requesting, Runs

LEMMA Still ==
  ASSUME DaemonInv, UNCHANGED << stack, start, down >>
  PROVE  DaemonInv' /\ Lower
BY DEF DaemonInv, StackInv, OrderInv, StopInv, start, down, Lower

\* A thread goes on to another point, and the managers stay.
LEMMA QuietMove ==
  ASSUME DaemonInv, NEW t \in Threads, NEW x, At(t, x), NEW y \in Points, stack' = Goto(t, y),
         UNCHANGED << start, killed, busy >>, stopped => stopped',
         IF x \in Handler THEN y \in Handler ELSE y \in Bottom(t),
         y \in Killing => stopped',
         t = "main" /\ x \notin Handler =>
           (x \in Serving /\ y \in Serving) \/ (x = "forked" /\ y = "signal") \/ y \in Gone,
         t \in Pool /\ x \notin Handler /\ y \in {"request", "emit", "use"} =>
           x \in {"request", "emit", "use"} \/ ~stopped
  PROVE  DaemonInv' /\ Lower
<1> USE DEF DaemonInv
<1>1. Moves(t, x, y)  BY GotoMoves
<1>2. /\ StackInv' /\ Len(stack'[t]) = Len(stack[t])
      /\ IF x \in Handler THEN stack'[t][1] = stack[t][1] ELSE stack'[t][1] = y
  BY <1>1, MovesShape
<1>3. \A v \in Threads : v # t => stack'[v] = stack[v]  BY <1>1 DEF Moves
<1>4. x \notin Handler => stack[t][1] = x  BY OnBottom
<1>5. \A v \in Threads : Len(stack'[v]) = Len(stack[v])  BY <1>2, <1>3
<1>6. OrderInv'
  <2>1. CASE t # "main" \/ x \in Handler
    <3>1. stack'["main"][1] = stack["main"][1]  BY <1>2, <1>3, <2>1, ThreadKinds
    <3> QED  BY <1>5, <3>1, ThreadKinds DEF OrderInv, start
  <2>3. CASE t = "main" /\ x \notin Handler /\ y \in Gone
    <3>1. stack'["main"][1] = y /\ y \notin Settled  BY <1>2, <2>3 DEF Gone, Settled, Serving
    <3> QED  BY <1>5, <2>3, <3>1, ThreadKinds DEF OrderInv, start
  <2>2. CASE t = "main" /\ x \notin Handler /\ y \notin Gone
    <3>1. stack'["main"][1] = y /\ stack["main"][1] = x /\ x \notin Gone
      BY <1>2, <1>4, <2>2 DEF Gone, Serving
    <3>2. /\ Done(x) = Done(y) /\ (x \in Serving <=> y \in Serving)
          /\ (x \in Settled <=> y \in Settled)
          /\ (x \in {"run"} \cup Serving <=> y \in {"run"} \cup Serving)
      BY <2>2 DEF Done, InitSteps, Serving, Settled
    <3> QED  BY <1>5, <2>2, <3>1, <3>2, ThreadKinds DEF OrderInv, start
  <2> QED  BY <2>1, <2>2, <2>3
<1>7. \A v \in Threads : \A i \in 1..Len(stack'[v]) : stack'[v][i] \in Killing => stopped'
  BY <1>1, <1>5 DEF Moves, Replaced, StopInv
<1>8. ASSUME NEW p \in Pool, killed # {}, Requesting(stack'[p]) PROVE p \in busy
  <2>1. CASE p # t \/ x \in Handler
    <3>1. Requesting(stack[p])  BY <1>2, <1>3, <1>5, <1>8, <2>1, ThreadKinds DEF Requesting
    <3> QED  BY <1>8, <3>1 DEF StopInv
  <2>2. CASE p = t /\ x \notin Handler
    <3>1. y \in {"request", "emit", "use"}  BY <1>2, <1>8, <2>2 DEF Requesting
    <3>2. x \in {"request", "emit", "use"}  BY <1>8, <2>2, <3>1 DEF StopInv
    <3>3. Requesting(stack[p])  BY <1>4, <2>2, <3>2, OnBottom DEF Requesting
    <3> QED  BY <1>8, <3>3 DEF StopInv
  <2> QED  BY <2>1, <2>2
<1>9. StopInv'  BY <1>7, <1>8 DEF StopInv
<1>10. Lower  BY <1>5 DEF Lower
<1> QED  BY <1>2, <1>6, <1>9, <1>10

\* A handler returns, or a thread that init does not start.
LEMMA ReturnKeeps ==
  ASSUME DaemonInv, NEW t \in Threads, NEW x, At(t, x), x \in Handler \/ t \in Pool \cup {"rpc"},
         stack' = Return(t), UNCHANGED << start, stopped >>
  PROVE  /\ StackInv' /\ OrderInv' /\ Lower
         /\ \A v \in Threads : \A i \in 1..Len(stack'[v]) : stack'[v][i] \in Killing => stopped'
         /\ \A p \in Pool : Requesting(stack'[p]) => Requesting(stack[p])
<1> USE DEF DaemonInv
<1> DEFINE s == stack[t]
           u == Front(s)
<1>0. /\ s \in Seq(Points) /\ s # << >> /\ Len(s) \in Nat /\ Len(s) >= 1
      /\ x \in Handler => Len(s) >= 2
  BY OnBottom
<1>1. u \in Seq(Points) /\ Len(u) = Len(s) - 1 /\ \A i \in 1..(Len(s) - 1) : u[i] = s[i]
  BY <1>0, DropLast
<1>2. Shaped(t, s)  BY DEF StackInv
<1>3. stack' = [stack EXCEPT ![t] = u]  BY DEF Return
<1> HIDE DEF u, s
<1>4. Shaped(t, u) /\ Len(u) <= Len(s) /\ (Len(u) >= 1 => u[1] = s[1])
      /\ \A i \in 1..Len(u) : i \in 1..Len(s) /\ u[i] = s[i]
  BY <1>0, <1>1, <1>2 DEF Shaped
<1>5. stack'[t] = u /\ \A v \in Threads : v # t => stack'[v] = stack[v]  BY <1>3 DEF StackInv
<1>6. StackInv'  BY <1>1, <1>3, <1>4, <1>5 DEF StackInv
<1>7. \A v \in Threads : \A i \in 1..Len(stack'[v]) : stack'[v][i] \in Killing => stopped'
  BY <1>4, <1>5 DEF StopInv, s
<1>8. \A p \in Pool : Requesting(stack'[p]) => Requesting(stack[p])
  BY <1>0, <1>4, <1>5, ThreadKinds DEF Requesting, s
<1>9. Len(stack'["main"]) >= 1 /\ stack'["main"][1] = stack["main"][1]
  <2>1. CASE t # "main"  BY <1>5, <2>1, ThreadKinds DEF OrderInv
  <2>2. CASE t = "main"
    <3>1. Len(s) >= 2  BY <1>0, <2>2, ThreadKinds
    <3>2. Len(u) >= 1  BY <1>0, <1>1, <3>1
    <3> QED  BY <1>4, <1>5, <2>2, <3>2 DEF s
  <2> QED  BY <2>1, <2>2
<1>10. ASSUME NEW v \in Threads PROVE Len(stack'[v]) <= Len(stack[v]) /\ Len(stack'[v]) \in Nat
                                      /\ Len(stack[v]) \in Nat
  <2>1. stack[v] \in Seq(Points) /\ stack'[v] \in Seq(Points)  BY <1>6 DEF StackInv
  <2>2. Len(stack[v]) \in Nat /\ Len(stack'[v]) \in Nat  BY <2>1
  <2>3. CASE v = t  BY <1>4, <1>5, <2>2, <2>3 DEF s
  <2>4. CASE v # t
    <3>1. Len(stack'[v]) = Len(stack[v])  BY <1>5, <2>4
    <3> QED  BY <2>2, <3>1
  <2> QED  BY <2>3, <2>4
<1>11. OrderInv'
  <2>1. \A v \in Threads : /\ Len(stack[v]) = 0 => Len(stack'[v]) = 0
                           /\ Len(stack[v]) <= 1 => Len(stack'[v]) <= 1
    <3>1. ASSUME NEW v \in Threads, NEW a, NEW b, a = Len(stack[v]), b = Len(stack'[v])
          PROVE  (a = 0 => b = 0) /\ (a <= 1 => b <= 1)
      <4>1. a \in Nat /\ b \in Nat /\ b <= a  BY <1>10, <3>1
      <4> QED  BY <4>1
    <3> QED  BY <3>1
  <2> QED  BY <1>9, <2>1, ThreadKinds DEF OrderInv, start
<1>12. Lower  BY <1>1, <1>4, <1>5 DEF Lower, s
<1> QED  BY <1>6, <1>7, <1>8, <1>11, <1>12

LEMMA OneElement ==
  ASSUME NEW x \in Points
  PROVE  << x >> \in Seq(Points) /\ Len(<< x >>) = 1 /\ << x >>[1] = x
OBVIOUS

Spares(s) == \A i \in 1..Len(s) : s[i] \notin Killing

LEMMA OneSpares ==
  ASSUME NEW s, Len(s) = 1, s[1] \notin Killing
  PROVE  Spares(s)
BY DEF Spares

LEMMA OneShape ==
  ASSUME NEW t, NEW s \in Seq(Points), Len(s) = 1, s[1] \in Bottom(t)
  PROVE  Shaped(t, s)
BY DEF Shaped

LEMMA SingleShape ==
  ASSUME NEW t \in Threads, NEW x \in Points, x \in Bottom(t)
  PROVE  Shaped(t, << x >>)
BY OneElement DEF Shaped

LEMMA EmptyShape == \A t \in Threads : Shaped(t, << >>) /\ << >> \in Seq(Points) /\ Len(<< >>) = 0
BY DEF Shaped

\* signal_handler begins on top of what the thread does.
LEMMA SignalKeeps ==
  ASSUME DaemonInv, NEW t \in Threads, Runs(t), handled,
         stack' = [stack EXCEPT ![t] = Append(@, "shutting")], UNCHANGED << start, down >>
  PROVE  DaemonInv'
<1> USE DEF DaemonInv
<1> DEFINE s == stack[t]
           u == Append(s, "shutting")
<1>1. s \in Seq(Points) /\ s # << >> /\ Shaped(t, s)  BY DEF StackInv, Runs
<1>2. stack' = [stack EXCEPT ![t] = u] /\ "shutting" \in Points /\ "shutting" \in Handler
  BY DEF Points, Handler
<1> HIDE DEF u
<1>3. /\ u \in Seq(Points) /\ Len(u) = Len(s) + 1 /\ Len(s) \in Nat /\ Len(s) >= 1
      /\ u[Len(s) + 1] = "shutting" /\ \A i \in 1..Len(s) : u[i] = s[i]
  <2> HIDE DEF s
  <2> QED  BY <1>1, <1>2 DEF u
<1> HIDE DEF s
<1>4. u[1] = s[1] /\ \A i \in 1..Len(u) : (i \in 1..Len(s) /\ u[i] = s[i]) \/ u[i] = "shutting"
  BY <1>3
<1>5. Shaped(t, u)  BY <1>1, <1>2, <1>3, <1>4 DEF Shaped
<1>6. stack'[t] = u /\ \A v \in Threads : v # t => stack'[v] = stack[v]  BY <1>2 DEF StackInv
<1>7. StackInv'  BY <1>2, <1>3, <1>5, <1>6 DEF StackInv
<1>8. \A v \in Threads : /\ Len(stack[v]) >= 1 => Len(stack'[v]) >= 1 /\ stack'[v][1] = stack[v][1]
                         /\ Len(stack[v]) = 0 => Len(stack'[v]) = 0
  BY <1>3, <1>4, <1>6 DEF s
<1>9. OrderInv'
  <2>1. Len(stack'["main"]) >= 1 /\ stack'["main"][1] = stack["main"][1]
    BY <1>8, ThreadKinds DEF OrderInv
  <2> QED  BY <1>8, <2>1, ThreadKinds DEF OrderInv, start
<1>10. \A v \in Threads : \A i \in 1..Len(stack'[v]) : stack'[v][i] \in Killing => stopped'
  BY <1>4, <1>6 DEF StopInv, s, down, Killing
<1>11. \A p \in Pool : Requesting(stack'[p]) => Requesting(stack[p])
  BY <1>1, <1>3, <1>4, <1>6, ThreadKinds DEF Requesting, s
<1>12. StopInv'  BY <1>10, <1>11 DEF StopInv, down
<1> QED  BY <1>7, <1>9, <1>12

LEMMA InitKeeps ==
  ASSUME DaemonInv, NEW step \in InitSteps, NEW next \in Points, NEW new \in {"main", "fuse", "checker"},
         NEW at, new # "main" => at \in Points /\ at \in Bottom(new), At("main", step),
         next \in InitSteps \cup {"fork", "signal"}, next = "signal" => ~daemonize,
         Done(next) = Done(step) \cup {step},
         made' = made \cup {step},
         stack' = [Goto("main", next) EXCEPT ![new] = IF new = "main" THEN @ ELSE << at >>],
         UNCHANGED << daemonize, handled, served, down >>
  PROVE  DaemonInv' /\ Lower
<1> USE DEF DaemonInv
<1>0. "main" \in Threads /\ new \in Threads /\ step \notin Handler
  BY ThreadKinds DEF InitSteps, Handler
<1>1. /\ stack["main"] \in Seq(Points) /\ stack["main"] # << >> /\ Len(stack["main"]) = 1
      /\ stack["main"][1] = step
  BY <1>0, OnBottom
<1> DEFINE u == Append(Front(stack["main"]), next)
<1>2. u \in Seq(Points) /\ Replaced(stack["main"], u, next)  BY <1>1, ReplaceLast
<1>3. stack' = [[stack EXCEPT !["main"] = u] EXCEPT ![new] = IF new = "main" THEN @ ELSE << at >>]
  BY DEF Goto
<1> HIDE DEF u
<1>4. Len(u) = 1 /\ u[1] = next  BY <1>1, <1>2 DEF Replaced
<1>5. /\ stack'["main"] = u
      /\ \A v \in Threads : v # "main" => stack'[v] = IF v = new THEN << at >> ELSE stack[v]
      /\ stack' \in [Threads -> Seq(Points)]
  <2>1. new # "main" => << at >> \in Seq(Points)  BY OneElement
  <2> QED  BY <1>0, <1>2, <1>3, <2>1 DEF StackInv
<1>m. /\ Len(stack'["main"]) = 1 /\ Len(stack'["main"]) <= 1 /\ stack'["main"][1] = next
      /\ Spares(stack'["main"])
  <2>1. Len(u) <= 1  BY <1>4
  <2>2. Spares(u)  BY <1>4, OneSpares DEF InitSteps, Killing
  <2> QED  BY <1>4, <1>5, <2>1, <2>2
<1>6. next \in Bottom("main")  BY DEF Bottom, Settled
<1>7. Shaped("main", u)  BY <1>2, <1>4, <1>6 DEF Shaped
<1>8. StackInv'
  <2>1. ASSUME NEW v \in Threads PROVE Shaped(v, stack'[v])
    <3>1. CASE v = "main"  BY <1>5, <1>7, <3>1
    <3>2. CASE v # "main" /\ v = new  BY <1>5, <3>2, SingleShape
    <3>3. CASE v # "main" /\ v # new  BY <1>5, <3>3 DEF StackInv
    <3> QED  BY <3>1, <3>2, <3>3
  <2> QED  BY <1>5, <2>1 DEF StackInv
<1>9. ~handled /\ ~served  BY <1>1 DEF OrderInv, InitSteps, Serving, Gone
<1>10. \A p \in Pool \cup {"rpc"} : stack'[p] = stack[p]
  BY <1>5, ThreadKinds
<1>11. ASSUME NEW v \in Threads PROVE Len(stack'[v]) <= 1
  <2>1. CASE v = "main"  BY <1>m, <2>1
  <2>2. CASE v # "main" /\ v = new  BY <1>5, <2>2, OneElement
  <2>3. CASE v # "main" /\ v # new  BY <1>5, <1>9, <2>3 DEF OrderInv
  <2> QED  BY <2>1, <2>2, <2>3
<1>12. OrderInv'
  <2>1. made' = Done(next)  BY <1>1 DEF OrderInv, InitSteps, Gone
  <2>2. next \notin {"run"} \cup Serving /\ (daemonize => next \notin Settled)
    BY DEF InitSteps, Serving, Settled
  <2> QED  BY <1>4, <1>5, <1>9, <1>10, <1>11, <2>1, <2>2 DEF OrderInv
<1>13. StopInv'
  <2>1. ASSUME NEW v \in Threads, NEW i \in 1..Len(stack'[v]), stack'[v][i] \in Killing PROVE stopped
    <3>1. CASE v = "main"
      <4>1. Spares(stack'[v])  BY <1>m, <3>1
      <4> QED  BY <2>1, <4>1 DEF Spares
    <3>2. CASE v # "main" /\ v = new
      <4>1. i = 1 /\ stack'[v][i] = at  BY <1>5, <3>2, OneElement
      <4> QED  BY <2>1, <3>2, <4>1 DEF Bottom, Killing
    <3>3. CASE v # "main" /\ v # new
      <4>1. stack'[v] = stack[v]  BY <1>5, <3>3
      <4> QED  BY <2>1, <4>1 DEF StopInv
    <3> QED  BY <3>1, <3>2, <3>3
  <2> QED  BY <1>10, <2>1 DEF StopInv, down
<1>14. Lower  BY <1>11 DEF Lower
<1> QED  BY <1>8, <1>12, <1>13, <1>14

\* The child has the main thread only.
LEMMA ForkKeeps ==
  ASSUME DaemonInv, At("main", "fork"),
         stack' = [t \in Threads |-> IF t = "main" THEN << "forked" >> ELSE << >>],
         UNCHANGED << start, down >>
  PROVE  DaemonInv' /\ Lower
<1> USE DEF DaemonInv
<1>1. stack["main"][1] = "fork"  BY OnBottom, ThreadKinds DEF Handler
<1>2. "forked" \in Points /\ "forked" \in Bottom("main")  BY DEF Points, Bottom, Settled
<1>3. /\ stack'["main"] = << "forked" >>
      /\ \A t \in Threads : t # "main" => stack'[t] = << >>
  BY ThreadKinds
<1>4. Len(stack'["main"]) = 1 /\ stack'["main"][1] = "forked"  BY <1>2, <1>3, OneElement
<1>5. \A t \in Threads : t # "main" => Len(stack'[t]) = 0  BY <1>3, EmptyShape
<1>6. StackInv'
  <2>1. stack' \in [Threads -> Seq(Points)]  BY <1>2, OneElement, EmptyShape
  <2>2. \A t \in Threads : Shaped(t, stack'[t])  BY <1>2, <1>3, SingleShape, EmptyShape, ThreadKinds
  <2> QED  BY <2>1, <2>2 DEF StackInv
<1>7. ~handled /\ ~served /\ made = InitSteps
  BY <1>1 DEF OrderInv, Serving, Done, InitSteps, Gone
<1>8. \A t \in Threads : Len(stack'[t]) <= 1
  <2>1. ASSUME NEW t \in Threads PROVE Len(stack'[t]) = 0 \/ Len(stack'[t]) = 1  BY <1>4, <1>5
  <2> QED  BY <2>1
<1>9. OrderInv'
  <2>1. /\ "forked" \notin {"run"} \cup Serving /\ Done("forked") = InitSteps
    BY DEF Serving, Done, InitSteps
  <2> QED  BY <1>4, <1>5, <1>7, <1>8, <2>1, ThreadKinds DEF OrderInv, start
<1>10. StopInv'
  <2>1. \A t \in Threads : \A i \in 1..Len(stack'[t]) : stack'[t][i] \notin Killing
    <3>1. ASSUME NEW t \in Threads, NEW i \in 1..Len(stack'[t]) PROVE stack'[t][i] \notin Killing
      <4>1. t = "main"  BY <1>5
      <4>2. i = 1  BY <1>4, <4>1
      <4> QED  BY <1>4, <4>1, <4>2 DEF Killing
    <3> QED  BY <3>1
  <2>2. \A p \in Pool : ~Requesting(stack'[p])  BY <1>5, ThreadKinds DEF Requesting
  <2> QED  BY <2>1, <2>2 DEF StopInv, down
<1>11. Lower  BY <1>8 DEF Lower
<1> QED  BY <1>6, <1>9, <1>10, <1>11

LEMMA InstallKeeps ==
  ASSUME DaemonInv, At("main", "signal"), handled' = TRUE, stack' = Goto("main", "run"),
         UNCHANGED << daemonize, made, served, down >>
  PROVE  DaemonInv' /\ Lower
<1> USE DEF DaemonInv
<1>1. "main" \in Threads /\ "run" \in Points /\ "run" \in Bottom("main") /\ "signal" \notin Handler
  BY ThreadKinds DEF Points, Bottom, Settled, Handler
<1>2. stack["main"][1] = "signal" /\ Len(stack["main"]) = 1  BY <1>1, OnBottom
<1>3. Moves("main", "signal", "run")  BY <1>1, GotoMoves
<1>4. /\ StackInv' /\ Len(stack'["main"]) = Len(stack["main"]) /\ stack'["main"][1] = "run"
  BY <1>1, <1>3, MovesShape
<1>5. \A v \in Threads : v # "main" => stack'[v] = stack[v]  BY <1>3 DEF Moves
<1>6. OrderInv'
  <2>1. ~served /\ made = InitSteps  BY <1>2 DEF OrderInv, Serving, Done, InitSteps, Gone
  <2>2. "run" \notin Serving /\ Done("run") = InitSteps  BY DEF Serving, Done, InitSteps
  <2>3. daemonize => Len(stack["fuse"]) = 0 /\ Len(stack["checker"]) = 0
    BY <1>2 DEF OrderInv, Settled
  <2>4. \A p \in Pool \cup {"rpc"} : Len(stack'[p]) = 0  BY <1>5, <2>1, ThreadKinds DEF OrderInv
  <2>5. Len(stack'["main"]) >= 1  BY <1>2, <1>4
  <2> QED  BY <1>4, <1>5, <2>1, <2>2, <2>3, <2>4, <2>5, ThreadKinds DEF OrderInv
<1>7. StopInv'
  <2>1. ASSUME NEW v \in Threads, NEW i \in 1..Len(stack'[v]), stack'[v][i] \in Killing PROVE stopped
    <3>1. CASE v = "main"
      <4>1. Len(stack'["main"]) = 1  BY <1>2, <1>4
      <4>2. Spares(stack'["main"])  BY <1>4, <4>1, OneSpares DEF Killing
      <4>3. Spares(stack'[v])  BY <3>1, <4>2
      <4> QED  BY <2>1, <4>3 DEF Spares
    <3>2. CASE v # "main"
      <4>1. stack'[v] = stack[v]  BY <1>5, <3>2
      <4> QED  BY <2>1, <4>1 DEF StopInv
    <3> QED  BY <3>1, <3>2
  <2>2. \A p \in Pool : stack'[p] = stack[p]  BY <1>5, ThreadKinds
  <2> QED  BY <2>1, <2>2 DEF StopInv, down
<1>8. Lower  BY <1>4, <1>5 DEF Lower
<1> QED  BY <1>4, <1>6, <1>7, <1>8

\* The pool starts when main has done all of init.
LEMMA RunKeeps ==
  ASSUME DaemonInv, Run
  PROVE  DaemonInv' /\ Lower
<1> USE DEF DaemonInv
<1>1. /\ At("main", "run") /\ served' = TRUE
      /\ UNCHANGED << daemonize, made, handled, down >>
  BY DEF Run, down
<1>2. "main" \in Threads /\ "run" \notin Handler  BY ThreadKinds DEF Handler
<1>3. stack["main"] \in Seq(Points) /\ stack["main"] # << >>
      /\ stack["main"][1] = "run" /\ Len(stack["main"]) = 1
  BY <1>1, <1>2, OnBottom
<1> DEFINE u == Append(Front(stack["main"]), "waiting")
<1>4. "waiting" \in Points /\ "waiting" \in Bottom("main") /\ "join pool" \in Points /\ "idle" \in Points
      /\ "join pool" \in Bottom("rpc")
  BY DEF Points, Settled, Serving, Bottom, PoolPoints
<1>5. u \in Seq(Points) /\ Replaced(stack["main"], u, "waiting")  BY <1>3, <1>4, ReplaceLast
<1> DEFINE F(t) == CASE t = "main" -> Append(Front(stack[t]), "waiting")
                     [] t = "rpc" -> << "join pool" >>
                     [] t \in Pool -> << "idle" >>
                     [] OTHER -> stack[t]
<1>f. stack' = [t \in Threads |-> F(t)]  BY DEF Run
<1>F. /\ F("main") = u /\ F("rpc") = << "join pool" >> /\ \A p \in Pool : F(p) = << "idle" >>
      /\ F("fuse") = stack["fuse"] /\ F("checker") = stack["checker"]
  BY ThreadKinds
<1> HIDE DEF F, u
<1>6. stack' = [t \in Threads |-> stack'[t]]  BY <1>f
<1>7. stack'["main"] = u  BY <1>2, <1>f, <1>F
<1>8. /\ stack'["rpc"] = << "join pool" >>
      /\ \A p \in Pool : stack'[p] = << "idle" >>
      /\ \A t \in {"fuse", "checker"} : stack'[t] = stack[t]
  BY <1>f, <1>F, ThreadKinds
<1>9. \A t \in Threads : t = "main" \/ t = "rpc" \/ t \in Pool \/ t \in {"fuse", "checker"}
  BY DEF Threads
<1>10. Len(u) = 1 /\ u[1] = "waiting"  BY <1>3, <1>5 DEF Replaced
<1>11. Shaped("main", u)
  <2>1. u[1] \in Bottom("main")  BY <1>4, <1>10
  <2> QED  BY <1>5, <1>10, <2>1, OneShape
<1>12. StackInv'
  <2>1. ASSUME NEW t \in Threads PROVE Shaped(t, stack'[t])
    <3>1. CASE t = "main"  BY <1>7, <1>11, <3>1
    <3>2. CASE t = "rpc"  BY <1>4, <1>8, <3>2, SingleShape
    <3>3. CASE t \in Pool
      <4>1. "idle" \in Bottom(t)  BY <3>3, ThreadKinds DEF PoolPoints
      <4> QED  BY <1>4, <1>8, <3>3, <4>1, SingleShape
    <3>4. CASE t \in {"fuse", "checker"}  BY <1>8, <3>4 DEF StackInv
    <3> QED  BY <1>9, <3>1, <3>2, <3>3, <3>4
  <2>3. \A t \in Threads : stack'[t] \in Seq(Points)  BY <2>1 DEF Shaped
  <2> QED  BY <1>6, <2>1, <2>3 DEF StackInv
<1>13. OrderInv'
  <2>1. handled /\ made = InitSteps  BY <1>3 DEF OrderInv, Serving, Done, InitSteps, Gone
  <2>2. "waiting" \in Serving /\ Done("waiting") = InitSteps  BY DEF Serving, Done, InitSteps
  <2>3. daemonize => Len(stack["fuse"]) = 0 /\ Len(stack["checker"]) = 0
    BY <1>3 DEF OrderInv, Settled
  <2>4. Len(stack'["main"]) >= 1 /\ stack'["main"][1] = "waiting"  BY <1>7, <1>10
  <2> QED  BY <1>1, <1>8, <2>1, <2>2, <2>3, <2>4 DEF OrderInv
<1>14. StopInv'
  <2>1. ASSUME NEW t \in Threads, NEW i \in 1..Len(stack'[t]), stack'[t][i] \in Killing PROVE stopped
    <3>1. CASE t = "main"
      <4>1. Spares(u)  BY <1>10, OneSpares DEF Killing
      <4>2. stack'[t] = u  BY <1>7, <3>1
      <4> QED  BY <2>1, <4>1, <4>2 DEF Spares
    <3>2. CASE t = "rpc"
      <4>1. Spares(<< "join pool" >>)  BY <1>4, OneElement, OneSpares DEF Killing
      <4>2. stack'[t] = << "join pool" >>  BY <1>8, <3>2
      <4> QED  BY <2>1, <4>1, <4>2 DEF Spares
    <3>3. CASE t \in Pool
      <4>1. Spares(<< "idle" >>)  BY <1>4, OneElement, OneSpares DEF Killing
      <4>2. stack'[t] = << "idle" >>  BY <1>8, <3>3
      <4> QED  BY <2>1, <4>1, <4>2 DEF Spares
    <3>4. CASE t \in {"fuse", "checker"}
      <4>1. stack'[t] = stack[t]  BY <1>8, <3>4
      <4> QED  BY <2>1, <4>1 DEF StopInv
    <3> QED  BY <1>9, <3>1, <3>2, <3>3, <3>4
  <2>2. \A p \in Pool : ~Requesting(stack'[p])  BY <1>4, <1>8, OneElement DEF Requesting
  <2> QED  BY <1>1, <2>1, <2>2 DEF StopInv, down
<1>15. Lower
  <2>1. Len(u) <= 1  BY <1>10
  <2>2. \A x \in Points : Len(<< x >>) <= 1  OBVIOUS
  <2> QED  BY <1>4, <1>7, <1>8, <1>9, <2>1, <2>2 DEF Lower
<1> QED  BY <1>12, <1>13, <1>14, <1>15

LEMMA KillKeeps ==
  ASSUME DaemonInv, NEW t \in Threads, Kill(t)
  PROVE  DaemonInv' /\ Lower
<1> USE DEF DaemonInv
<1>1. PICK x \in {"kill", "kill modules"} :
        /\ At(t, x) /\ busy' = busy \cup {p \in Pool : InRequest(p)}
        /\ UNCHANGED << stopped, start >>
        /\ stack' = Goto(t, "kill modules") \/ stack' = Goto(t, "disconnect") \/ stack' = Return(t)
  BY DEF Kill
<1>0. /\ x \in Handler /\ x \in Killing
      /\ "kill modules" \in Points /\ "kill modules" \in Handler
      /\ "disconnect" \in Points /\ "disconnect" \in Handler
  BY DEF Handler, Killing, Points
<1>2. stopped
  <2> DEFINE n == Len(stack[t])
  <2>1. n \in Nat /\ n >= 1 /\ stack[t][n] = x  BY <1>1, OnBottom
  <2>2. n \in 1..n  BY <2>1, UpTo
  <2> QED  BY <1>0, <2>1, <2>2 DEF StopInv
<1>3. /\ StackInv' /\ OrderInv' /\ Lower
      /\ \A v \in Threads : \A i \in 1..Len(stack'[v]) : stack'[v][i] \in Killing => stopped'
      /\ \A p \in Pool : Requesting(stack'[p]) => Requesting(stack[p])
  <2>1. ASSUME NEW y \in {"kill modules", "disconnect"}, stack' = Goto(t, y)
        PROVE  /\ StackInv' /\ OrderInv' /\ Lower
               /\ \A p \in Pool : Requesting(stack'[p]) => Requesting(stack[p])
    <3>0. y \in Points /\ y \in Handler  BY <1>0
    <3>1. Moves(t, x, y)  BY <1>1, <2>1, <3>0, GotoMoves
    <3>2. StackInv' /\ Len(stack'[t]) = Len(stack[t]) /\ stack'[t][1] = stack[t][1]
      BY <1>0, <1>1, <3>0, <3>1, MovesShape
    <3>3. \A v \in Threads : v # t => stack'[v] = stack[v]  BY <3>1 DEF Moves
    <3>4. \A v \in Threads : Len(stack'[v]) = Len(stack[v]) /\ stack'[v][1] = stack[v][1]
      BY <3>2, <3>3
    <3>5. OrderInv'  BY <1>1, <3>4, ThreadKinds DEF OrderInv, start
    <3>6. Lower  BY <3>4 DEF Lower
    <3>7. \A p \in Pool : Requesting(stack'[p]) => Requesting(stack[p])
      BY <3>4, ThreadKinds DEF Requesting
    <3> QED  BY <3>2, <3>5, <3>6, <3>7
  <2>2. CASE stack' = Return(t)  BY <1>0, <1>1, <1>2, <2>2, ReturnKeeps
  <2> QED  BY <1>1, <1>2, <2>1, <2>2
<1>4. \A p \in Pool : Requesting(stack'[p]) => p \in busy'  BY <1>1, <1>3, InRequestIs
<1> QED  BY <1>1, <1>2, <1>3, <1>4 DEF StopInv

LEMMA LogMoves ==
  ASSUME DaemonInv, NEW t \in Threads, LogRecord(t)
  PROVE  DaemonInv' /\ Lower
<1>1. PICK p \in DOMAIN Log : At(t, p) /\ \E next \in Log[p] : stack' = Goto(t, next)
  BY DEF LogRecord, Unlock
<1>2. PICK y \in Log[p] : stack' = Goto(t, y)  BY <1>1
<1>3. stopped' = stopped /\ UNCHANGED << start, killed, busy >>  BY DEF LogRecord, down
<1>4. p \notin Handler => p \in Bottom(t)  BY <1>1, OnBottom DEF DaemonInv
<1>5. y \in {"signal", "join", "success", "mount", "use", "emit", "net"}  BY DEF Log
<1>6. y \in Points /\ y \notin Killing
  BY <1>5 DEF Points, Handler, Settled, Serving, Gone, PoolPoints, Killing
<1>7. CASE p = "shutting"
  <2>1. y = "net" /\ p \in Handler /\ y \in Handler  BY <1>7 DEF Log, Handler
  <2> QED  BY <1>1, <1>2, <1>3, <1>6, <2>1, QuietMove
<1>8. CASE p \in {"forked", "waiting", "joined"}
  <2>1. t = "main" /\ p \notin Handler
    BY <1>4, <1>8 DEF Bottom, Handler, PoolPoints
  <2>2. (p \in Serving /\ y \in Serving) \/ (p = "forked" /\ y = "signal") \/ y \in Gone
    BY <1>8 DEF Log, Serving, Gone
  <2>3. y \in Bottom(t)  BY <2>1, <2>2 DEF Bottom, Settled
  <2> QED  BY <1>1, <1>2, <1>3, <1>6, <2>1, <2>2, <2>3, QuietMove, ThreadKinds
<1>9. CASE p = "mounting"
  <2>1. t = "fuse" /\ p \notin Handler
    BY <1>4, <1>9 DEF Bottom, Handler, Settled, Serving, InitSteps, Gone, PoolPoints
  <2>2. y = "mount" /\ y \in Bottom(t)  BY <1>9, <2>1 DEF Log, Bottom
  <2> QED  BY <1>1, <1>2, <1>3, <1>6, <2>1, <2>2, QuietMove, ThreadKinds
<1>10. CASE p = "request"
  <2>1. Bottom(t) = PoolPoints /\ p \notin Handler /\ t # "main"
    BY <1>4, <1>10 DEF Bottom, Handler, Settled, Serving, InitSteps, Gone
  <2>2. y \in {"use", "emit"} /\ y \in Bottom(t)  BY <1>10, <2>1 DEF Log, PoolPoints
  <2> QED  BY <1>1, <1>2, <1>3, <1>6, <1>10, <2>1, <2>2, QuietMove
<1> QED  BY <1>7, <1>8, <1>9, <1>10 DEF Log

\* main leaves.
LEMMA ExitKeeps ==
  ASSUME DaemonInv, NEW x, x \notin Handler, At("main", x), NEW code \in Gone, Exit(code)
  PROVE  DaemonInv' /\ Lower
<1>1. /\ stack' = Goto("main", code) /\ UNCHANGED << start, killed, busy >> /\ stopped' = stopped
  BY DEF Exit, down
<1>2. /\ code \in Points /\ code \in Bottom("main") /\ code \notin Killing
      /\ "main" \in Threads /\ "main" \notin Pool
  BY ThreadKinds DEF Points, Bottom, Gone, Killing
<1> QED  BY <1>1, <1>2, QuietMove

\* A step of init, with the order in which anDaemon::init takes them.
LEMMA InitMoves ==
  ASSUME DaemonInv, NEW step \in InitSteps, NEW next \in InitSteps \cup {"fork", "signal"},
         NEW new \in {"main", "fuse", "checker"}, NEW at,
         new # "main" => at \in Points /\ at \in Bottom(new),
         next = "signal" => ~daemonize, Done(next) = Done(step) \cup {step},
         InitStep(step, next, new, at)
  PROVE  DaemonInv' /\ Lower
<1>1. next \in Points  BY DEF Points, Settled
<1>0. step \notin Handler  BY DEF InitSteps, Handler
<1>2. CASE At("main", step) /\ Exit("failure")  BY <1>0, <1>2, ExitKeeps DEF Gone
<1>3. CASE /\ At("main", step) /\ made' = made \cup {step}
           /\ stack' = [Goto("main", next) EXCEPT ![new] = IF new = "main" THEN @ ELSE << at >>]
           /\ UNCHANGED << daemonize, handled, served, down >>
  BY <1>1, <1>3, InitKeeps
<1> QED  BY <1>2, <1>3 DEF InitStep

LEMMA PlainInit ==
  ASSUME DaemonInv, NEW step \in InitSteps, NEW next \in InitSteps \cup {"fork", "signal"},
         next = "signal" => ~daemonize, Done(next) = Done(step) \cup {step},
         InitStep(step, next, "main", "")
  PROVE  DaemonInv' /\ Lower
<1>1. "main" \in {"main", "fuse", "checker"}  OBVIOUS
<1> DEFINE new == "main"
<1>2. new # "main" => "" \in Points /\ "" \in Bottom(new)  OBVIOUS
<1>3. InitStep(step, next, new, "")  OBVIOUS
<1> QED  BY <1>1, <1>2, <1>3, InitMoves

LEMMA MainKeeps ==
  ASSUME DaemonInv, Main
  PROVE  DaemonInv' /\ Lower
<1>0. /\ "ConfigManager" \in InitSteps /\ "Logger" \in InitSteps /\ "PluginManager" \in InitSteps
      /\ "loadPlugin" \in InitSteps /\ "localstorages" \in InitSteps /\ "utils" \in InitSteps
      /\ "StorageManager" \in InitSteps /\ "NetManager" \in InitSteps /\ "RPCManager" \in InitSteps
      /\ "signal" \notin InitSteps
  BY DEF InitSteps
<1>1. CASE ConfigInit
  <2>1. Done("Logger") = Done("ConfigManager") \cup {"ConfigManager"}  BY DEF Done, Before, InitSteps
  <2> QED  BY <1>0, <1>1, <2>1, PlainInit DEF ConfigInit
<1>2. CASE LoggerInit
  <2>1. Done("PluginManager") = Done("Logger") \cup {"Logger"}  BY DEF Done, Before, InitSteps
  <2>2. CASE InitStep("Logger", "PluginManager", "main", "")  BY <1>0, <2>1, <2>2, PlainInit
  <2>3. CASE UNCHANGED << stack, start, down >>  BY <2>3, Still
  <2> QED  BY <1>2, <2>2, <2>3 DEF LoggerInit
<1>3. CASE PluginInit
  <2>1. Done("loadPlugin") = Done("PluginManager") \cup {"PluginManager"}  BY DEF Done, Before, InitSteps
  <2> QED  BY <1>0, <1>3, <2>1, PlainInit DEF PluginInit
<1>4. CASE LoadPlugins
  <2>1. Done("localstorages") = Done("loadPlugin") \cup {"loadPlugin"}  BY DEF Done, Before, InitSteps
  <2> QED  BY <1>0, <1>4, <2>1, PlainInit DEF LoadPlugins
<1>5. CASE InitStorages
  <2>1. Done("utils") = Done("localstorages") \cup {"localstorages"}  BY DEF Done, Before, InitSteps
  <2> QED  BY <1>0, <1>5, <2>1, PlainInit DEF InitStorages
<1>6. CASE InitUtils
  <2>1. Done("StorageManager") = Done("utils") \cup {"utils"}  BY DEF Done, Before, InitSteps
  <2>2. "check" \in Points /\ "check" \in Bottom("checker")  BY DEF Points, Bottom
  <2> QED  BY <1>6, <2>1, <2>2, InitMoves DEF InitUtils, InitSteps
<1>7. CASE StorageInit
  <2>1. Done("NetManager") = Done("StorageManager") \cup {"StorageManager"}  BY DEF Done, Before, InitSteps
  <2>2. "mounting" \in Points /\ "mounting" \in Bottom("fuse")  BY DEF Points, Bottom
  <2> QED  BY <1>7, <2>1, <2>2, InitMoves DEF StorageInit, InitSteps
<1>8. CASE NetInit
  <2>1. Done("RPCManager") = Done("NetManager") \cup {"NetManager"}  BY DEF Done, Before, InitSteps
  <2> QED  BY <1>0, <1>8, <2>1, PlainInit DEF NetInit
<1>9. CASE RpcInit
  <2>1. /\ Done("fork") = Done("RPCManager") \cup {"RPCManager"}
        /\ Done("signal") = Done("RPCManager") \cup {"RPCManager"}
    BY DEF Done, Before, InitSteps
  <2>2. CASE daemonize  BY <1>0, <1>9, <2>1, <2>2, PlainInit DEF RpcInit
  <2>3. CASE ~daemonize  BY <1>0, <1>9, <2>1, <2>3, PlainInit DEF RpcInit
  <2> QED  BY <2>2, <2>3
<1>10. CASE Fork
  <2>0. At("main", "fork") /\ "fork" \notin Handler  BY <1>10 DEF Fork, Handler
  <2>1. CASE Exit("failure") \/ Exit("success")  BY <2>0, <2>1, ExitKeeps DEF Gone
  <2>2. CASE ~(Exit("failure") \/ Exit("success"))  BY <1>10, <2>2, ForkKeeps DEF Fork
  <2> QED  BY <2>1, <2>2
<1>11. CASE InstallHandlers  BY <1>11, InstallKeeps DEF InstallHandlers
<1>12. CASE Run  BY <1>12, RunKeeps
<1>13. CASE Join
  <2>1. "joined" \in Points /\ "joined" \in Serving /\ "join" \in Serving /\ "join" \notin Handler
        /\ "joined" \in Bottom("main") /\ "joined" \notin Killing
    BY DEF Points, Settled, Serving, Handler, Bottom, Killing
  <2> QED  BY <1>13, <2>1, QuietMove, ThreadKinds DEF Join, down
<1>14. CASE Leave  BY <1>14, Still DEF Leave
<1> QED  BY <1>1, <1>2, <1>3, <1>4, <1>5, <1>6, <1>7, <1>8, <1>9, <1>10, <1>11, <1>12, <1>13, <1>14
         DEF Main

LEMMA StopKeeps ==
  ASSUME DaemonInv, NEW t \in Threads, Stop(t)
  PROVE  DaemonInv' /\ Lower
<1>0. /\ "net" \in Handler /\ "halt" \in Handler /\ "kill" \in Handler /\ "disconnect" \in Handler
      /\ Handler \subseteq Points /\ "halt" \notin Killing
  BY DEF Handler, Points, Killing
<1>1. CASE NetStop(t)  BY <1>0, <1>1, QuietMove DEF NetStop, Unlock, down
<1>2. CASE RpcStop(t)  BY <1>0, <1>2, QuietMove DEF RpcStop, Unlock
<1>3. CASE Kill(t)  BY <1>3, KillKeeps
<1>4. CASE Disconnect(t)
  <2>1. At(t, "disconnect") /\ stack' = Return(t) /\ UNCHANGED << start, stopped, killed, busy >>
    BY <1>4 DEF Disconnect, Unlock, down
  <2> QED  BY <1>0, <2>1, ReturnKeeps DEF DaemonInv, StopInv
<1> QED  BY <1>1, <1>2, <1>3, <1>4 DEF Stop

LEMMA PoolKeeps ==
  ASSUME DaemonInv, NEW p \in Pool,
         Wake(p) \/ WakeStopped(p) \/ Poll(p) \/ Emit(p) \/ EmitFails(p) \/ EndRequest(p)
  PROVE  DaemonInv' /\ Lower
<1>0. /\ p \in Threads /\ p # "main" /\ Bottom(p) = PoolPoints
      /\ {"idle", "poll", "request", "emit", "use"} \subseteq Points
      /\ {"idle", "poll", "request", "emit", "use"} \cap Handler = {}
      /\ {"idle", "poll", "request", "emit", "use"} \cap Killing = {}
      /\ {"idle", "poll", "request", "emit", "use"} \subseteq Bottom(p)
  BY ThreadKinds DEF Points, Handler, Killing, PoolPoints
<1>1. CASE Wake(p)  BY <1>0, <1>1, QuietMove DEF Wake, down
<1>2. CASE WakeStopped(p)  BY <1>0, <1>2, QuietMove DEF WakeStopped, down
<1>3. CASE Poll(p)
  <2>1. At(p, "poll") /\ UNCHANGED << start, stopped, killed, busy >>
    BY <1>3 DEF Poll, Unlock, down
  <2>2. CASE stopped
    <3>1. stack' = Return(p)  BY <1>3, <2>2 DEF Poll
    <3> QED  BY <1>0, <2>1, <3>1, ReturnKeeps DEF DaemonInv, StopInv
  <2>3. CASE ~stopped
    <3>1. stack' = Goto(p, "request")  BY <1>3, <2>3 DEF Poll
    <3> QED  BY <1>0, <2>1, <2>3, <3>1, QuietMove
  <2> QED  BY <2>2, <2>3
<1>4. CASE Emit(p)  BY <1>0, <1>4, QuietMove DEF Emit, Unlock, down
<1>5. CASE EmitFails(p)  BY <1>5, Still DEF EmitFails
<1>6. CASE EndRequest(p)
  <2>1. At(p, "use") /\ UNCHANGED << start, down >>  BY <1>6 DEF EndRequest
  <2>2. CASE stack' = stack  BY <2>1, <2>2, Still
  <2>3. CASE stack' = Goto(p, "idle")  BY <1>0, <2>1, <2>3, QuietMove DEF down
  <2> QED  BY <1>6, <2>2, <2>3 DEF EndRequest
<1> QED  BY <1>1, <1>2, <1>3, <1>4, <1>5, <1>6

\* The step keeps the invariant, and only signal_handler makes a stack grow.
LEMMA DaemonStep ==
  ASSUME DaemonInv, [Next]_vars
  PROVE  /\ DaemonInv'
         /\ \/ Lower
            \/ \E s \in Signals, t \in Threads : Signal(s, t)
<1>1. ASSUME NEW t \in Threads, Step(t) PROVE DaemonInv' /\ Lower
  <2>1. CASE Lock(t)  BY <2>1, Still DEF Lock
  <2>2. CASE LogRecord(t)  BY <2>2, LogMoves
  <2>3. CASE Stop(t)  BY <2>3, StopKeeps
  <2>4. CASE Main  BY <2>4, MainKeeps
  <2>5. CASE RpcReturns
    <3>1. At("rpc", "join pool") /\ stack' = Return("rpc") /\ UNCHANGED << start, down >>
      BY <2>5 DEF RpcReturns
    <3>2. UNCHANGED << stopped, killed, busy >>  BY <3>1 DEF down
    <3> QED  BY <3>1, <3>2, ReturnKeeps, ThreadKinds DEF DaemonInv, StopInv
  <2>6. CASE t \in Pool /\ (WakeStopped(t) \/ Poll(t) \/ Emit(t) \/ EndRequest(t))
    BY <2>6, PoolKeeps
  <2> QED  BY <1>1, <2>1, <2>2, <2>3, <2>4, <2>5, <2>6 DEF Step
<1>2. ASSUME NEW p \in Pool, Wake(p) \/ EmitFails(p) PROVE DaemonInv' /\ Lower  BY <1>2, PoolKeeps
<1>3. ASSUME NEW t, Helper(t) PROVE DaemonInv' /\ Lower  BY <1>3, Still DEF Helper
<1>4. ASSUME NEW s \in Signals, NEW t \in Threads, Signal(s, t) PROVE DaemonInv'
  <2>1. CASE /\ handled /\ Runs(t) /\ stack' = [stack EXCEPT ![t] = Append(@, "shutting")]
             /\ UNCHANGED << start, down >>
    BY <2>1, SignalKeeps
  <2>2. CASE UNCHANGED << stack, start, down >>  BY <2>2, Still
  <2> QED  BY <1>4, <2>1, <2>2 DEF Signal
<1>6. ASSUME NEW t \in Threads, SignalLate(t) PROVE DaemonInv' /\ Lower
  BY <1>6, Still DEF SignalLate
<1>5. CASE UNCHANGED vars  BY <1>5, Still DEF vars
<1> QED  BY <1>1, <1>2, <1>3, <1>4, <1>5, <1>6 DEF Next

LEMMA DaemonInit ==
  ASSUME Init
  PROVE  DaemonInv
<1>1. /\ stack["main"] = << "ConfigManager" >>
      /\ \A t \in Threads : t # "main" => stack[t] = << >>
      /\ stack = [t \in Threads |-> stack[t]]
  BY ThreadKinds DEF Init
<1>2. "ConfigManager" \in Points /\ "ConfigManager" \in Bottom("main")
  BY DEF Points, Bottom, InitSteps
<1>3. Len(stack["main"]) = 1 /\ stack["main"][1] = "ConfigManager"  BY <1>1, <1>2, OneElement
<1>4. \A t \in Threads : t # "main" => Len(stack[t]) = 0  BY <1>1, EmptyShape
<1>5. \A t \in Threads : Shaped(t, stack[t])  BY <1>1, <1>2, SingleShape, EmptyShape
<1>6. StackInv  BY <1>1, <1>5 DEF StackInv, Shaped
<1>7. \A t \in Threads : Len(stack[t]) <= 1
  <2>1. ASSUME NEW t \in Threads PROVE Len(stack[t]) <= 1
    <3> DEFINE n == Len(stack[t])
    <3>1. n = 0 \/ n = 1  BY <1>3, <1>4
    <3> HIDE DEF n
    <3>2. n <= 1  BY <3>1
    <3> QED  BY <3>2 DEF n
  <2> QED  BY <2>1
<1>8. OrderInv
  <2>1. made = {} /\ ~handled /\ ~served  BY DEF Init
  <2>2. Done("ConfigManager") = {} /\ "ConfigManager" \notin {"run"} \cup Serving
        /\ "ConfigManager" \notin Settled
        /\ "ConfigManager" \notin Gone
    BY DEF Done, Before, InitSteps, Serving, Settled, Gone
  <2> QED  BY <1>3, <1>4, <1>7, <2>1, <2>2, ThreadKinds DEF OrderInv
<1>9. StopInv
  <2>1. ASSUME NEW t \in Threads, NEW i \in 1..Len(stack[t]) PROVE stack[t][i] \notin Killing
    <3>1. t = "main"  BY <1>4
    <3>2. Spares(stack["main"])  BY <1>3, OneSpares DEF Killing
    <3> QED  BY <3>1, <3>2 DEF Spares
  <2> QED  BY <2>1 DEF StopInv, Init
<1> QED  BY <1>6, <1>8, <1>9 DEF DaemonInv
-----------------------------------------------------------------------------
(* The types.                                                                *)

\* The types of TypeOK, without the bound on the stacks.
PlainType ==
  /\ daemonize \in BOOLEAN /\ checks \in BOOLEAN /\ handled \in BOOLEAN
  /\ served \in BOOLEAN /\ stopped \in BOOLEAN
  /\ requests \in 0..MaxRequests /\ made \subseteq InitSteps /\ sent \subseteq Signals
  /\ busy \subseteq Pool /\ killed \subseteq {"DBManager", "ModuleManager"}
  /\ ended \in {"no", "success", "failure", "signal", "thrown", "crashed", "hung"}

Depth == \A t \in Threads : Len(stack[t]) <= 1 + Cardinality(sent)

LEMMA InitStepType ==
  ASSUME PlainType, NEW step \in InitSteps, NEW next, NEW new, NEW at, InitStep(step, next, new, at)
  PROVE  PlainType' /\ sent' = sent
<1>1. CASE Exit("failure")  BY <1>1 DEF Exit, PlainType, start, down
<1>2. CASE /\ made' = made \cup {step}
           /\ UNCHANGED << daemonize, checks, handled, served, sent, requests, ended, lock, down >>
  BY <1>2 DEF PlainType, down
<1> QED  BY <1>1, <1>2 DEF InitStep

LEMMA MainType ==
  ASSUME PlainType, Main
  PROVE  PlainType' /\ sent' = sent
<1>0. /\ "ConfigManager" \in InitSteps /\ "Logger" \in InitSteps /\ "PluginManager" \in InitSteps
      /\ "loadPlugin" \in InitSteps /\ "localstorages" \in InitSteps /\ "utils" \in InitSteps
      /\ "StorageManager" \in InitSteps /\ "NetManager" \in InitSteps /\ "RPCManager" \in InitSteps
  BY DEF InitSteps
<1>1. ASSUME NEW step \in InitSteps, NEW next, NEW new, NEW at, InitStep(step, next, new, at)
      PROVE  PlainType' /\ sent' = sent
  BY <1>1, InitStepType
<1>2. CASE ConfigInit \/ PluginInit \/ LoadPlugins \/ InitStorages
  BY <1>0, <1>1, <1>2 DEF ConfigInit, PluginInit, LoadPlugins, InitStorages
<1>3. CASE InitUtils  BY <1>0, <1>1, <1>3 DEF InitUtils
<1>4. CASE StorageInit \/ NetInit \/ RpcInit  BY <1>0, <1>1, <1>4 DEF StorageInit, NetInit, RpcInit
<1>5. CASE LoggerInit
  <2>1. CASE InitStep("Logger", "PluginManager", "main", "")  BY <1>0, <1>1, <2>1
  <2>2. CASE ended' = "crashed" /\ UNCHANGED << sent, requests, start, down >>
    BY <2>2 DEF PlainType, start, down
  <2> QED  BY <1>5, <2>1, <2>2 DEF LoggerInit
<1>6. CASE Fork  BY <1>6 DEF Fork, Exit, PlainType, start, down
<1>7. CASE InstallHandlers \/ Run \/ Join
  BY <1>7 DEF InstallHandlers, Run, Join, PlainType, start, down
<1>8. CASE Leave  BY <1>8 DEF Leave, PlainType, start, down
<1> QED  BY <1>2, <1>3, <1>4, <1>5, <1>6, <1>7, <1>8 DEF Main

LEMMA TypeStep ==
  ASSUME PlainType, [Next]_vars
  PROVE  /\ PlainType'
         /\ sent' = sent \/ \E s \in Signals, t \in Threads : Signal(s, t) /\ handled
<1>1. ASSUME NEW t \in Threads, Step(t) PROVE PlainType' /\ sent' = sent
  <2>1. CASE Lock(t) \/ LogRecord(t)  BY <2>1 DEF Lock, LogRecord, PlainType, start, down
  <2>2. CASE NetStop(t) \/ RpcStop(t) \/ Disconnect(t)
    BY <2>2 DEF NetStop, RpcStop, Disconnect, PlainType, start, down
  <2>3. CASE Kill(t)  BY <2>3 DEF Kill, PlainType, start
  <2>4. CASE Main  BY <2>4, MainType
  <2>5. CASE RpcReturns \/ WakeStopped(t) \/ Poll(t) \/ Emit(t)
    BY <2>5 DEF RpcReturns, WakeStopped, Poll, Emit, PlainType, start, down
  <2>6. CASE EndRequest(t)  BY <2>6 DEF EndRequest, Uses, PlainType, start, down
  <2> QED  BY <1>1, <2>1, <2>2, <2>3, <2>4, <2>5, <2>6 DEF Step, Stop
<1>2. ASSUME NEW p \in Pool, Wake(p) \/ EmitFails(p) PROVE PlainType' /\ sent' = sent
  <2>1. CASE Wake(p)  BY <2>1, DaemonAssumption DEF Wake, PlainType, start, down
  <2>2. CASE EmitFails(p)  BY <2>2 DEF EmitFails, PlainType, start, down
  <2> QED  BY <1>2, <2>1, <2>2
<1>3. ASSUME NEW t, Helper(t) PROVE PlainType' /\ sent' = sent
  BY <1>3 DEF Helper, Uses, PlainType, start, down
<1>4. ASSUME NEW s \in Signals, NEW t \in Threads, Signal(s, t)
      PROVE  PlainType' /\ (sent' = sent \/ handled)
  BY <1>4 DEF Signal, PlainType, start, down
<1>6. ASSUME NEW t \in Threads, SignalLate(t) PROVE PlainType' /\ sent' = sent
  BY <1>6 DEF SignalLate, PlainType, start, down
<1>5. CASE UNCHANGED vars  BY <1>5 DEF vars, PlainType, start, down
<1> QED  BY <1>1, <1>2, <1>3, <1>4, <1>5, <1>6 DEF Next

LEMMA DepthStep ==
  ASSUME DaemonInv, PlainType, Depth, [Next]_vars
  PROVE  Depth'
<1>1. IsFiniteSet(sent) /\ Cardinality(sent) \in Nat
  BY DaemonAssumption, FS_Subset, FS_CardinalityType DEF PlainType
<1>2. ASSUME NEW t \in Threads PROVE Len(stack[t]) \in Nat
  BY DEF DaemonInv, StackInv
<1>3. CASE Lower /\ sent' = sent
  <2>1. ASSUME NEW t \in Threads PROVE Len(stack'[t]) <= 1 + Cardinality(sent)
    <3> DEFINE n == Len(stack[t])
               m == Len(stack'[t])
               c == Cardinality(sent)
    <3>1. n \in Nat /\ c \in Nat /\ n <= 1 + c  BY <1>1, <1>2 DEF Depth
    <3>2. m = n \/ m = n - 1 \/ m <= 1  BY <1>3 DEF Lower
    <3>3. m \in Nat
      <4>1. stack'[t] \in Seq(Points)  BY DaemonStep DEF DaemonInv, StackInv
      <4> QED  BY <4>1
    <3> HIDE DEF n, m, c
    <3>4. m <= 1 + c  BY <3>1, <3>2, <3>3
    <3> QED  BY <3>4 DEF m, c
  <2> QED  BY <1>3, <2>1 DEF Depth
<1>4. ASSUME NEW s \in Signals, NEW v \in Threads, Signal(s, v),
             stack' = [stack EXCEPT ![v] = Append(@, "shutting")], sent' = sent \cup {s}
      PROVE  Depth'
  <2>1. /\ stack' = [stack EXCEPT ![v] = Append(@, "shutting")] /\ sent' = sent \cup {s}
        /\ s \notin sent
    BY <1>4 DEF Signal
  <2>2. Cardinality(sent') = Cardinality(sent) + 1  BY <1>1, <2>1, FS_AddElement
  <2>3. ASSUME NEW t \in Threads PROVE Len(stack'[t]) <= 1 + Cardinality(sent')
    <3> DEFINE n == Len(stack[t])
               m == Len(stack'[t])
               c == Cardinality(sent)
               d == Cardinality(sent')
    <3>1. n \in Nat /\ c \in Nat /\ n <= 1 + c /\ d = c + 1  BY <1>1, <1>2, <2>2 DEF Depth
    <3>2. m = n \/ m = n + 1
      <4>1. stack[t] \in Seq(Points) /\ "shutting" \in Points
        BY DEF DaemonInv, StackInv, Points, Handler
      <4>2. Len(Append(stack[t], "shutting")) = Len(stack[t]) + 1  BY <4>1
      <4>3. stack'[t] = stack[t] \/ stack'[t] = Append(stack[t], "shutting")
        BY <2>1 DEF DaemonInv, StackInv
      <4> QED  BY <4>2, <4>3
    <3> HIDE DEF n, m, c, d
    <3>3. m <= 1 + d  BY <3>1, <3>2
    <3> QED  BY <3>3 DEF m, d
  <2> QED  BY <2>3 DEF Depth
<1>5. ASSUME UNCHANGED << stack, sent >> PROVE Depth'
  BY <1>5 DEF Depth
<1>6. \/ Lower /\ sent' = sent
      \/ \E s \in Signals, t \in Threads : Signal(s, t)
  BY DaemonStep, TypeStep
<1>7. ASSUME NEW s \in Signals, NEW v \in Threads, Signal(s, v) PROVE Depth'
  BY <1>4, <1>5, <1>7 DEF Signal
<1> QED  BY <1>3, <1>6, <1>7

LEMMA TypeInit ==
  ASSUME Init
  PROVE  PlainType /\ Depth
<1>0. 0 \in 0..MaxRequests  BY DaemonAssumption
<1>1. PlainType
  <2>1. handled \in BOOLEAN /\ served \in BOOLEAN /\ stopped \in BOOLEAN /\ daemonize \in BOOLEAN
        /\ checks \in BOOLEAN
    BY DEF Init
  <2>2. made = {} /\ sent = {} /\ busy = {} /\ killed = {} /\ requests = 0 /\ ended = "no"
    BY DEF Init
  <2> QED  BY <1>0, <2>1, <2>2 DEF PlainType
<1>2. Cardinality(sent) = 0  BY FS_EmptySet DEF Init
<1>3. \A t \in Threads : Len(stack[t]) <= 1
  <2>1. OrderInv /\ ~handled  BY DaemonInit DEF DaemonInv, Init
  <2> QED  BY <2>1 DEF OrderInv
<1>4. ASSUME NEW t \in Threads PROVE Len(stack[t]) <= 1 + Cardinality(sent)
  <2>1. 1 + Cardinality(sent) = 1  BY <1>2
  <2> QED  BY <1>3, <2>1
<1> QED  BY <1>1, <1>4 DEF Depth

-----------------------------------------------------------------------------
(* Who holds the mutexes.                                                    *)

Held(m) ==
  \E t \in Threads : \E n \in 1..Len(stack[t]) :
    lock[m] = << t, n >> /\ stack[t][n] \in DOMAIN Mutex /\ Mutex[stack[t][n]] = m

\* The fork takes a mutex along only from the thread that mounts the file system;
\* main starts that thread once, and not again after the fork.
Taken(m) ==
  /\ daemonize /\ m = "log" /\ lock[m][1] = "fuse" /\ lock[m] # Free /\ Len(stack["fuse"]) = 0
  /\ stack["main"][1] \notin InitSteps

LockInv ==
  /\ lock = [m \in Mutexes |-> lock[m]]
  /\ \A m \in Mutexes : lock[m] = Free \/ Taken(m) \/ Held(m)
  /\ stack["main"][1] \in InitSteps \ {"NetManager", "RPCManager"} => Len(stack["fuse"]) = 0
  /\ stack["main"][1] = "fork" => daemonize

LEMMA MutexIs ==
  /\ DOMAIN Mutex = {"forked", "waiting", "joined", "mounting", "request", "shutting", "net", "poll",
                     "halt", "emit", "disconnect"}
  /\ \A p \in DOMAIN Mutex : Mutex[p] \in Mutexes
  /\ \A p \in InitSteps \cup {"fork", "signal", "run", "join", "join pool", "mount", "check", "idle",
                              "use", "kill", "kill modules"} : p \notin DOMAIN Mutex
BY DEF Mutex, Mutexes, InitSteps

\* What thread t was doing below its topmost point stays, and so do the others.
Below(t) ==
  /\ \A v \in Threads : v # t => stack'[v] = stack[v]
  /\ \A i \in 1..Len(stack[t]) : i # Len(stack[t]) => i \in 1..Len(stack'[t]) /\ stack'[t][i] = stack[t][i]

LEMMA GotoBelow ==
  ASSUME StackInv, NEW t \in Threads, NEW x, At(t, x), NEW y \in Points, stack' = Goto(t, y)
  PROVE  Below(t) /\ Len(stack'[t]) = Len(stack[t]) /\ stack'[t][Len(stack[t])] = y
<1>1. Moves(t, x, y)  BY GotoMoves
<1> QED  BY <1>1 DEF Moves, Replaced, Below

LEMMA ReturnBelow ==
  ASSUME StackInv, NEW t \in Threads, NEW x, At(t, x), stack' = Return(t)
  PROVE  Below(t)
<1> DEFINE s == stack[t]
           u == Front(s)
<1>1. s \in Seq(Points) /\ s # << >>  BY OnBottom
<1>2. /\ Len(u) = Len(s) - 1 /\ Len(s) \in Nat /\ Len(s) >= 1
      /\ \A i \in 1..(Len(s) - 1) : u[i] = s[i]
  BY <1>1, DropLast
<1>3. stack'[t] = u /\ \A v \in Threads : v # t => stack'[v] = stack[v]  BY DEF Return, StackInv
<1> HIDE DEF u
<1>4. \A i \in 1..Len(s) : i # Len(s) => i \in 1..Len(u) /\ u[i] = s[i]
  <2> HIDE DEF s
  <2> QED  BY <1>2
<1> QED  BY <1>3, <1>4 DEF Below, s

\* A step of t at x that gives back the mutex of x, if x has one.
GivesBack(t, x) ==
  \/ x \notin DOMAIN Mutex /\ lock' = lock
  \/ /\ x \in DOMAIN Mutex /\ lock[Mutex[x]] = Top(t)
     /\ lock' = [lock EXCEPT ![Mutex[x]] = Free]

LEMMA LocksKept ==
  ASSUME StackInv, LockInv, NEW t \in Threads, NEW x, At(t, x), Below(t), GivesBack(t, x),
         daemonize' = daemonize, Len(stack["main"]) >= 1,
         stack["main"][1] \notin InitSteps => stack'["main"][1] \notin InitSteps
  PROVE  /\ lock' = [m \in Mutexes |-> lock'[m]]
         /\ \A m \in Mutexes : lock'[m] = Free \/ Taken(m)' \/ Held(m)'
<1>0. /\ stack[t] \in Seq(Points) /\ Len(stack[t]) \in Nat /\ Len(stack[t]) >= 1
      /\ stack[t][Len(stack[t])] = x
  BY OnBottom
<1>1. lock' = [m \in Mutexes |-> lock'[m]]  BY DEF LockInv, GivesBack
<1>2. ASSUME NEW m \in Mutexes PROVE lock'[m] = Free \/ Taken(m)' \/ Held(m)'
  <2>1. lock'[m] = Free \/ (lock'[m] = lock[m] /\ (x \in DOMAIN Mutex => m # Mutex[x]))
    BY MutexIs DEF LockInv, GivesBack
  <2>2. CASE lock'[m] = lock[m] /\ (x \in DOMAIN Mutex => m # Mutex[x]) /\ Held(m)
    <3>0. PICK v \in Threads : \E n \in 1..Len(stack[v]) :
            lock[m] = << v, n >> /\ stack[v][n] \in DOMAIN Mutex /\ Mutex[stack[v][n]] = m
      BY <2>2 DEF Held
    <3>1. PICK n \in 1..Len(stack[v]) :
            lock[m] = << v, n >> /\ stack[v][n] \in DOMAIN Mutex /\ Mutex[stack[v][n]] = m
      BY <3>0
    <3>2. v = t => n # Len(stack[t])  BY <1>0, <2>2, <3>1
    <3>3. n \in 1..Len(stack'[v]) /\ stack'[v][n] = stack[v][n]
      BY <3>2 DEF Below
    <3> QED  BY <2>2, <3>1, <3>3 DEF Held
  <2>3. CASE lock'[m] = lock[m] /\ Taken(m)
    <3>1. t # "fuse"  BY <1>0, <2>3 DEF Taken
    <3>2. stack'["fuse"] = stack["fuse"]  BY <3>1, ThreadKinds DEF Below
    <3> QED  BY <2>3, <3>2 DEF Taken
  <2> QED  BY <2>1, <2>2, <2>3 DEF LockInv
<1> QED  BY <1>1, <1>2

\* main's lowest point, when another thread or a handler on it moves.
LEMMA MainBelow ==
  ASSUME DaemonInv, NEW t \in Threads, NEW x, At(t, x), Below(t), t # "main" \/ x \in Handler
  PROVE  stack'["main"][1] = stack["main"][1]
<1>1. Len(stack[t]) \in Nat /\ (x \in Handler => Len(stack[t]) >= 2)  BY OnBottom DEF DaemonInv
<1>2. CASE t # "main"  BY <1>2, ThreadKinds DEF Below
<1>3. CASE t = "main"
  <2>1. x \in Handler /\ Len(stack[t]) >= 2  BY <1>1, <1>3
  <2>2. Len(stack[t]) >= 1 /\ Len(stack[t]) # 1  BY <1>1, <2>1, UpTo
  <2>3. 1 \in 1..Len(stack[t])  BY <1>1, <2>2, UpTo
  <2> QED  BY <1>3, <2>2, <2>3 DEF Below
<1> QED  BY <1>2, <1>3

\* A step of another thread than main, or of a handler, that starts no thread.
LEMMA LocksElsewhere ==
  ASSUME DaemonInv, LockInv, NEW t \in Threads, NEW x, At(t, x), Below(t), GivesBack(t, x),
         daemonize' = daemonize, t # "main" \/ x \in Handler
  PROVE  LockInv'
<1>1. stack'["main"][1] = stack["main"][1]  BY MainBelow
<1>2. StackInv /\ Len(stack["main"]) >= 1  BY DEF DaemonInv, OrderInv
<1>3. /\ lock' = [m \in Mutexes |-> lock'[m]]
      /\ \A m \in Mutexes : lock'[m] = Free \/ Taken(m)' \/ Held(m)'
  BY <1>1, <1>2, LocksKept
<1>4. ASSUME stack["main"][1] \in InitSteps \ {"NetManager", "RPCManager"} PROVE stack'["fuse"] = stack["fuse"]
  <2>1. Len(stack["fuse"]) = 0  BY <1>4 DEF LockInv
  <2>2. Len(stack[t]) >= 1 /\ Len(stack[t]) \in Nat  BY <1>2, OnBottom
  <2>3. t # "fuse"  BY <2>1, <2>2
  <2> QED  BY <2>3, ThreadKinds DEF Below
<1> QED  BY <1>1, <1>3, <1>4 DEF LockInv

\* A step of main that starts no thread.
LEMMA LocksOfMain ==
  ASSUME DaemonInv, LockInv, NEW x, At("main", x), x \notin Handler, NEW y \in Points,
         stack' = Goto("main", y), GivesBack("main", x), daemonize' = daemonize,
         y \notin InitSteps \cup {"fork"}
  PROVE  LockInv'
<1>0. "main" \in Threads /\ StackInv /\ Len(stack["main"]) >= 1  BY ThreadKinds DEF DaemonInv, OrderInv
<1>1. /\ Below("main") /\ Len(stack'["main"]) = Len(stack["main"])
      /\ stack'["main"][Len(stack["main"])] = y
  BY <1>0, GotoBelow
<1>2. Len(stack["main"]) = 1 /\ stack["main"][1] = x  BY <1>0, OnBottom
<1>3. stack'["main"][1] = y  BY <1>1, <1>2
<1>4. /\ lock' = [m \in Mutexes |-> lock'[m]]
      /\ \A m \in Mutexes : lock'[m] = Free \/ Taken(m)' \/ Held(m)'
  BY <1>0, <1>1, <1>2, <1>3, LocksKept
<1>5. stack'["fuse"] = stack["fuse"]  BY <1>1, ThreadKinds DEF Below
<1> QED  BY <1>2, <1>3, <1>4, <1>5 DEF LockInv

\* Nothing moves but what no mutex depends on.
LEMMA LocksStill ==
  ASSUME LockInv, UNCHANGED << stack, lock, daemonize >>
  PROVE  LockInv'
BY DEF LockInv, Taken, Held, InitSteps

LEMMA LockTaken ==
  ASSUME DaemonInv, LockInv, NEW t \in Threads, Lock(t)
  PROVE  LockInv'
<1>1. PICK p \in DOMAIN Mutex :
        /\ At(t, p) /\ lock[Mutex[p]] = Free /\ lock' = [lock EXCEPT ![Mutex[p]] = Top(t)]
        /\ UNCHANGED << stack, start >>
  BY DEF Lock
<1>2. daemonize' = daemonize /\ stack' = stack  BY <1>1 DEF start
<1>3. /\ Len(stack[t]) \in Nat /\ Len(stack[t]) >= 1 /\ stack[t][Len(stack[t])] = p
  BY <1>1, OnBottom DEF DaemonInv
<1>4. Len(stack[t]) \in 1..Len(stack[t])  BY <1>3, UpTo
<1>5. ASSUME NEW m \in Mutexes PROVE lock'[m] = Free \/ Taken(m)' \/ Held(m)'
  <2>1. CASE m = Mutex[p]
    <3>1. lock'[m] = << t, Len(stack[t]) >>  BY <1>1, <2>1 DEF LockInv, Top
    <3> QED  BY <1>2, <1>3, <1>4, <2>1, <3>1 DEF Held
  <2>2. CASE m # Mutex[p]
    <3>1. lock'[m] = lock[m]  BY <1>1, <2>2 DEF LockInv
    <3> QED  BY <1>2, <3>1 DEF LockInv, Taken, Held
  <2> QED  BY <2>1, <2>2
<1>6. lock' = [m \in Mutexes |-> lock'[m]]  BY <1>1 DEF LockInv
<1> QED  BY <1>2, <1>5, <1>6 DEF LockInv

\* signal_handler begins above what holds a mutex.
LEMMA LockSignal ==
  ASSUME DaemonInv, LockInv, NEW t \in Threads, Runs(t),
         stack' = [stack EXCEPT ![t] = Append(@, "shutting")], UNCHANGED << lock, daemonize >>
  PROVE  LockInv'
<1> DEFINE s == stack[t]
           u == Append(s, "shutting")
<1>1. s \in Seq(Points) /\ s # << >> /\ "shutting" \in Points
  BY DEF DaemonInv, StackInv, Runs, Points, Handler
<1>2. stack' = [stack EXCEPT ![t] = u]  OBVIOUS
<1> HIDE DEF u
<1>3. /\ Len(u) = Len(s) + 1 /\ Len(s) \in Nat /\ Len(s) >= 1 /\ \A i \in 1..Len(s) : u[i] = s[i]
  <2> HIDE DEF s
  <2> QED  BY <1>1 DEF u
<1>4. stack'[t] = u /\ \A v \in Threads : v # t => stack'[v] = stack[v]
  BY <1>2 DEF DaemonInv, StackInv
<1>5. \A i \in 1..Len(s) : i \in 1..Len(u) /\ u[i] = s[i]
  <2> HIDE DEF s
  <2> QED  BY <1>3
<1>6. \A v \in Threads : \A i \in 1..Len(stack[v]) : i \in 1..Len(stack'[v]) /\ stack'[v][i] = stack[v][i]
  BY <1>4, <1>5 DEF s
<1>7. /\ stack'["main"][1] = stack["main"][1]
      /\ Len(stack["fuse"]) = 0 => stack'["fuse"] = stack["fuse"]
  <2>1. 1 \in 1..Len(stack["main"])
    <3>1. stack["main"] \in Seq(Points) /\ Len(stack["main"]) >= 1
      BY ThreadKinds DEF DaemonInv, StackInv, OrderInv
    <3>2. Len(stack["main"]) \in Nat  BY <3>1
    <3> QED  BY <3>1, <3>2, UpTo
  <2>2. Len(stack["fuse"]) = 0 => t # "fuse"  BY <1>3 DEF s
  <2> QED  BY <1>4, <1>6, <2>1, <2>2, ThreadKinds
<1>8. ASSUME NEW m \in Mutexes PROVE lock'[m] = Free \/ Taken(m)' \/ Held(m)'
  <2>1. CASE Held(m)
    <3>0. PICK v \in Threads : \E n \in 1..Len(stack[v]) :
            lock[m] = << v, n >> /\ stack[v][n] \in DOMAIN Mutex /\ Mutex[stack[v][n]] = m
      BY <2>1 DEF Held
    <3>1. PICK n \in 1..Len(stack[v]) :
            lock[m] = << v, n >> /\ stack[v][n] \in DOMAIN Mutex /\ Mutex[stack[v][n]] = m
      BY <3>0
    <3>2. n \in 1..Len(stack'[v]) /\ stack'[v][n] = stack[v][n]  BY <1>6
    <3> QED  BY <3>1, <3>2 DEF Held
  <2>2. CASE Taken(m)  BY <1>7, <2>2 DEF Taken
  <2> QED  BY <2>1, <2>2 DEF LockInv
<1> QED  BY <1>7, <1>8 DEF LockInv

\* No mutex is held by main before it is forked, by the updater, or by a thread
\* that does not run.
LEMMA HeldBy ==
  ASSUME DaemonInv, ~handled, stack["main"][1] \notin DOMAIN Mutex,
         NEW m, NEW v \in Threads, NEW n \in 1..Len(stack[v]),
         stack[v][n] \in DOMAIN Mutex, Mutex[stack[v][n]] = m
  PROVE  v = "fuse" /\ m = "log"
<1>1. stack[v] \in Seq(Points) /\ Len(stack[v]) <= 1 /\ Shaped(v, stack[v])
  BY DEF DaemonInv, StackInv, OrderInv
<1>2. Len(stack[v]) \in Nat  BY <1>1
<1>3. n = 1 /\ Len(stack[v]) >= 1 /\ Len(stack[v]) # 0  BY <1>1, <1>2
<1>4. stack[v][n] \in Bottom(v)  BY <1>1, <1>3 DEF Shaped
<1>5. v # "main"  BY <1>3
<1>6. v \notin Pool \cup {"rpc"}
  <2>1. ~served  BY DEF DaemonInv, OrderInv
  <2> QED  BY <1>3, <2>1 DEF DaemonInv, OrderInv
<1>7. v = "fuse" \/ v = "checker"  BY <1>5, <1>6 DEF Threads
<1>8. stack[v][n] = "mounting"  BY <1>4, <1>7, MutexIs DEF Bottom
<1>9. v # "checker"  BY <1>4, <1>8 DEF Bottom
<1> QED  BY <1>7, <1>8, <1>9 DEF Mutex

LEMMA LockInitStep ==
  ASSUME DaemonInv, LockInv, NEW step \in InitSteps, NEW next \in InitSteps \cup {"fork", "signal"},
         NEW new \in {"main", "fuse", "checker"}, NEW at, At("main", step),
         new = "fuse" => step = "StorageManager",
         next \in InitSteps \ {"NetManager", "RPCManager"} =>
           new # "fuse" /\ step \notin {"NetManager", "RPCManager"},
         next = "fork" => daemonize,
         stack' = [Goto("main", next) EXCEPT ![new] = IF new = "main" THEN @ ELSE << at >>],
         UNCHANGED << lock, daemonize >>
  PROVE  LockInv'
<1>0. "main" \in Threads /\ new \in Threads /\ step \notin Handler /\ next \in Points
  BY ThreadKinds DEF InitSteps, Handler, Points, Settled
<1>1. /\ stack["main"] \in Seq(Points) /\ stack["main"] # << >> /\ Len(stack["main"]) = 1
      /\ stack["main"][1] = step
  BY <1>0, OnBottom DEF DaemonInv
<1> DEFINE u == Append(Front(stack["main"]), next)
<1>2. u \in Seq(Points) /\ Replaced(stack["main"], u, next)  BY <1>0, <1>1, ReplaceLast
<1>3. stack' = [[stack EXCEPT !["main"] = u] EXCEPT ![new] = IF new = "main" THEN @ ELSE << at >>]
  BY DEF Goto
<1> HIDE DEF u
<1>4. u[1] = next  BY <1>1, <1>2 DEF Replaced
<1>5. /\ stack'["main"] = u
      /\ \A v \in Threads : v # "main" /\ v # new => stack'[v] = stack[v]
  BY <1>0, <1>3 DEF DaemonInv, StackInv
<1>6. ~handled /\ stack["main"][1] \notin DOMAIN Mutex
  BY <1>1, MutexIs DEF DaemonInv, OrderInv, InitSteps, Serving, Gone
<1>7. ASSUME NEW m \in Mutexes PROVE lock'[m] = Free \/ Taken(m)' \/ Held(m)'
  <2>1. ~Taken(m)  BY <1>1 DEF Taken
  <2>2. CASE Held(m)
    <3>0. PICK v \in Threads : \E n \in 1..Len(stack[v]) :
            lock[m] = << v, n >> /\ stack[v][n] \in DOMAIN Mutex /\ Mutex[stack[v][n]] = m
      BY <2>2 DEF Held
    <3>1. PICK n \in 1..Len(stack[v]) :
            lock[m] = << v, n >> /\ stack[v][n] \in DOMAIN Mutex /\ Mutex[stack[v][n]] = m
      BY <3>0
    <3>2. v = "fuse"  BY <1>6, <3>1, HeldBy
    <3>3. new # "fuse"
      <4>1. ASSUME new = "fuse" PROVE FALSE
        <5>1. Len(stack["fuse"]) = 0  BY <1>1, <4>1 DEF LockInv
        <5> QED  BY <3>2, <5>1
      <4> QED  BY <4>1
    <3>4. stack'[v] = stack[v]  BY <1>5, <3>2, <3>3
    <3> QED  BY <3>1, <3>4 DEF Held
  <2> QED  BY <2>1, <2>2 DEF LockInv
<1>8. stack'["main"][1] = next  BY <1>4, <1>5
<1>9. next \in InitSteps \ {"NetManager", "RPCManager"} => Len(stack'["fuse"]) = 0
  BY <1>1, <1>5, ThreadKinds DEF LockInv
<1> QED  BY <1>7, <1>8, <1>9 DEF LockInv

LEMMA LockFork ==
  ASSUME DaemonInv, LockInv, At("main", "fork"),
         stack' = [t \in Threads |-> IF t = "main" THEN << "forked" >> ELSE << >>],
         UNCHANGED << lock, daemonize >>
  PROVE  LockInv'
<1>1. stack["main"][1] = "fork"  BY OnBottom, ThreadKinds DEF Handler, DaemonInv
<1>2. "forked" \in Points  BY DEF Points, Settled
<1>3. stack'["main"][1] = "forked" /\ Len(stack'["fuse"]) = 0
  BY <1>2, OneElement, EmptyShape, ThreadKinds
<1>4. daemonize  BY <1>1 DEF LockInv
<1>5. ~handled /\ stack["main"][1] \notin DOMAIN Mutex
  BY <1>1, MutexIs DEF DaemonInv, OrderInv, Serving, Gone
<1>6. "forked" \notin InitSteps  BY DEF InitSteps
<1>7. ASSUME NEW m \in Mutexes PROVE lock'[m] = Free \/ Taken(m)' \/ Held(m)'
  <2>1. CASE Held(m)
    <3>0. PICK v \in Threads : \E n \in 1..Len(stack[v]) :
            lock[m] = << v, n >> /\ stack[v][n] \in DOMAIN Mutex /\ Mutex[stack[v][n]] = m
      BY <2>1 DEF Held
    <3>1. PICK n \in 1..Len(stack[v]) :
            lock[m] = << v, n >> /\ stack[v][n] \in DOMAIN Mutex /\ Mutex[stack[v][n]] = m
      BY <3>0
    <3>2. v = "fuse" /\ m = "log"  BY <1>5, <3>1, HeldBy
    <3>3. lock[m][1] = "fuse"  BY <3>1, <3>2
    <3> QED  BY <1>3, <1>4, <1>6, <3>2, <3>3 DEF Taken
  <2>2. CASE Taken(m)  BY <1>3, <1>6, <2>2 DEF Taken
  <2> QED  BY <2>1, <2>2 DEF LockInv
<1> QED  BY <1>3, <1>6, <1>7 DEF LockInv

LEMMA LockRun ==
  ASSUME DaemonInv, LockInv, Run
  PROVE  LockInv'
<1>1. At("main", "run") /\ UNCHANGED << lock, daemonize >>  BY DEF Run
<1>2. "main" \in Threads /\ "run" \notin Handler /\ "waiting" \in Points
  BY ThreadKinds DEF Handler, Points, Settled, Serving
<1>3. /\ stack["main"] \in Seq(Points) /\ stack["main"] # << >> /\ Len(stack["main"]) = 1
      /\ stack["main"][1] = "run"
  BY <1>1, <1>2, OnBottom DEF DaemonInv
<1> DEFINE u == Append(Front(stack["main"]), "waiting")
<1>4. Replaced(stack["main"], u, "waiting")  BY <1>2, <1>3, ReplaceLast
<1>5. stack'["main"] = u /\ stack'["fuse"] = stack["fuse"] /\ stack'["checker"] = stack["checker"]
  BY ThreadKinds DEF Run
<1> HIDE DEF u
<1>6. stack'["main"][1] = "waiting"  BY <1>3, <1>4, <1>5 DEF Replaced
<1>7. "waiting" \notin InitSteps \cup {"fork"}  BY DEF InitSteps
<1>8. ~served  BY <1>3 DEF DaemonInv, OrderInv, Serving, Gone
<1>9. ASSUME NEW m \in Mutexes PROVE lock'[m] = Free \/ Taken(m)' \/ Held(m)'
  <2>1. CASE Held(m)
    <3>0. PICK v \in Threads : \E n \in 1..Len(stack[v]) :
            lock[m] = << v, n >> /\ stack[v][n] \in DOMAIN Mutex /\ Mutex[stack[v][n]] = m
      BY <2>1 DEF Held
    <3>1. PICK n \in 1..Len(stack[v]) :
            lock[m] = << v, n >> /\ stack[v][n] \in DOMAIN Mutex /\ Mutex[stack[v][n]] = m
      BY <3>0
    <3>2. v # "main"
      <4>1. ASSUME v = "main" PROVE FALSE
        <5>0. n \in 1..1  BY <1>3, <4>1
        <5>1. n = 1  BY <5>0, UpTo
        <5> QED  BY <1>3, <3>1, <4>1, <5>1, MutexIs
      <4> QED  BY <4>1
    <3>3. v \notin Pool \cup {"rpc"}
      <4>1. Len(stack[v]) # 0
        <5>1. stack[v] \in Seq(Points)  BY DEF DaemonInv, StackInv
        <5>2. Len(stack[v]) \in Nat  BY <5>1
        <5> QED  BY <5>2
      <4> QED  BY <1>8, <4>1 DEF DaemonInv, OrderInv
    <3>4. v \in {"fuse", "checker"}  BY <3>2, <3>3 DEF Threads
    <3>5. stack'[v] = stack[v]  BY <1>5, <3>4
    <3> QED  BY <1>1, <3>1, <3>5 DEF Held
  <2>2. CASE Taken(m)  BY <1>1, <1>5, <1>6, <1>7, <2>2 DEF Taken
  <2> QED  BY <1>1, <2>1, <2>2 DEF LockInv
<1> QED  BY <1>1, <1>6, <1>7, <1>9 DEF LockInv

LEMMA LockExit ==
  ASSUME DaemonInv, LockInv, NEW x, x \notin Handler, x \notin DOMAIN Mutex, At("main", x),
         NEW code \in Gone, Exit(code)
  PROVE  LockInv'
<1>1. stack' = Goto("main", code) /\ UNCHANGED << lock, daemonize >>  BY DEF Exit, start
<1>2. code \in Points /\ code \notin InitSteps \cup {"fork"}  BY DEF Points, Gone, InitSteps
<1> QED  BY <1>1, <1>2, LocksOfMain DEF GivesBack

LEMMA LockInits ==
  ASSUME DaemonInv, LockInv, NEW step \in InitSteps, NEW next \in InitSteps \cup {"fork", "signal"},
         NEW new \in {"main", "fuse", "checker"}, NEW at,
         new = "fuse" => step = "StorageManager",
         next \in InitSteps \ {"NetManager", "RPCManager"} =>
           new # "fuse" /\ step \notin {"NetManager", "RPCManager"},
         next = "fork" => daemonize, InitStep(step, next, new, at)
  PROVE  LockInv'
<1>0. step \notin Handler /\ step \notin DOMAIN Mutex  BY MutexIs DEF InitSteps, Handler
<1>1. CASE At("main", step) /\ Exit("failure")  BY <1>0, <1>1, LockExit DEF Gone
<1>2. CASE /\ At("main", step)
           /\ stack' = [Goto("main", next) EXCEPT ![new] = IF new = "main" THEN @ ELSE << at >>]
           /\ UNCHANGED << lock, daemonize >>
  BY <1>2, LockInitStep
<1> QED  BY <1>1, <1>2 DEF InitStep

LEMMA LockMain ==
  ASSUME DaemonInv, LockInv, Main
  PROVE  LockInv'
<1>0. /\ "ConfigManager" \in InitSteps /\ "Logger" \in InitSteps /\ "PluginManager" \in InitSteps
      /\ "loadPlugin" \in InitSteps /\ "localstorages" \in InitSteps /\ "utils" \in InitSteps
      /\ "StorageManager" \in InitSteps /\ "NetManager" \in InitSteps /\ "RPCManager" \in InitSteps
      /\ "signal" \notin InitSteps /\ "fork" \notin InitSteps
  BY DEF InitSteps
<1>1. ASSUME NEW step \in InitSteps, NEW next \in InitSteps \cup {"fork", "signal"},
             next \in InitSteps \ {"NetManager", "RPCManager"} => step \notin {"NetManager", "RPCManager"},
             next = "fork" => daemonize, InitStep(step, next, "main", "")
      PROVE  LockInv'
  <2> DEFINE new == "main"
  <2>1. new \in {"main", "fuse", "checker"} /\ new # "fuse" /\ InitStep(step, next, new, "")  BY <1>1
  <2> HIDE DEF new
  <2> QED  BY <1>1, <2>1, LockInits
<1>2. CASE ConfigInit \/ PluginInit \/ LoadPlugins \/ InitStorages
  BY <1>0, <1>1, <1>2 DEF ConfigInit, PluginInit, LoadPlugins, InitStorages
<1>3. CASE LoggerInit
  <2>1. CASE InitStep("Logger", "PluginManager", "main", "")  BY <1>0, <1>1, <2>1
  <2>2. CASE UNCHANGED << stack, lock, start >>  BY <2>2, LocksStill DEF start
  <2> QED  BY <1>3, <2>1, <2>2 DEF LoggerInit
<1>4. CASE InitUtils  BY <1>4, LockInits DEF InitUtils, InitSteps
<1>5. CASE StorageInit  BY <1>5, LockInits DEF StorageInit, InitSteps
<1>6. CASE NetInit  BY <1>0, <1>1, <1>6 DEF NetInit
<1>7. CASE RpcInit
  <2>1. CASE daemonize  BY <1>0, <1>1, <1>7, <2>1 DEF RpcInit
  <2>2. CASE ~daemonize
    <3> DEFINE next == "signal"
    <3>1. InitStep("RPCManager", next, "main", "")  BY <1>7, <2>2 DEF RpcInit
    <3>2. next \in InitSteps \cup {"fork", "signal"} /\ next # "fork" /\ next \notin InitSteps  BY <1>0
    <3> HIDE DEF next
    <3> QED  BY <1>0, <1>1, <3>1, <3>2
  <2> QED  BY <2>1, <2>2
<1>8. CASE Fork
  <2>0. At("main", "fork") /\ "fork" \notin Handler /\ "fork" \notin DOMAIN Mutex
    BY <1>8, MutexIs DEF Fork, Handler
  <2>1. CASE Exit("failure") \/ Exit("success")  BY <2>0, <2>1, LockExit DEF Gone
  <2>2. CASE ~(Exit("failure") \/ Exit("success"))  BY <1>8, <2>2, LockFork DEF Fork, start
  <2> QED  BY <2>1, <2>2
<1>9. CASE InstallHandlers
  <2>1. /\ "signal" \notin Handler /\ "signal" \notin DOMAIN Mutex /\ "run" \in Points
        /\ "run" \notin InitSteps \cup {"fork"}
    BY MutexIs DEF Handler, Points, Settled, InitSteps
  <2> QED  BY <1>9, <2>1, LocksOfMain DEF InstallHandlers, GivesBack
<1>10. CASE Run  BY <1>10, LockRun
<1>11. CASE Join
  <2>1. /\ "join" \notin Handler /\ "join" \notin DOMAIN Mutex /\ "joined" \in Points
        /\ "joined" \notin InitSteps \cup {"fork"}
    BY MutexIs DEF Handler, Points, Settled, Serving, InitSteps
  <2> QED  BY <1>11, <2>1, LocksOfMain DEF Join, GivesBack, start
<1>12. CASE Leave  BY <1>12, LocksStill DEF Leave, start
<1> QED  BY <1>2, <1>3, <1>4, <1>5, <1>6, <1>7, <1>8, <1>9, <1>10, <1>11, <1>12 DEF Main

\* The steps that are not main's own.
LEMMA LockThread ==
  ASSUME DaemonInv, LockInv, NEW t \in Threads, NEW x, At(t, x), t # "main" \/ x \in Handler,
         GivesBack(t, x), (\E y \in Points : stack' = Goto(t, y)) \/ stack' = Return(t),
         daemonize' = daemonize
  PROVE  LockInv'
<1>1. StackInv  BY DEF DaemonInv
<1>2. Below(t)  BY <1>1, GotoBelow, ReturnBelow
<1> QED  BY <1>2, LocksElsewhere

LEMMA LockRecord ==
  ASSUME DaemonInv, LockInv, NEW t \in Threads, LogRecord(t)
  PROVE  LockInv'
<1>1. PICK p \in DOMAIN Log : Unlock(t, p) /\ \E next \in Log[p] : stack' = Goto(t, next)
  BY DEF LogRecord
<1>2. PICK y \in Log[p] : stack' = Goto(t, y)  BY <1>1
<1>3. daemonize' = daemonize  BY DEF LogRecord, start
<1>4. At(t, p) /\ GivesBack(t, p)  BY <1>1, MutexIs DEF Unlock, GivesBack, Log
<1>5. y \in {"signal", "join", "success", "mount", "use", "emit", "net"}  BY DEF Log
<1>6. y \in Points /\ y \notin InitSteps \cup {"fork"}
  BY <1>5 DEF Points, Handler, Settled, Serving, Gone, PoolPoints, InitSteps
<1> QED  BY <1>2, <1>3, <1>4, <1>6, LockThread, LocksOfMain

LEMMA LockStop ==
  ASSUME DaemonInv, LockInv, NEW t \in Threads, Stop(t)
  PROVE  LockInv'
<1>0. /\ Handler \subseteq Points /\ "net" \in Handler /\ "halt" \in Handler /\ "kill" \in Handler
      /\ "kill modules" \in Handler /\ "disconnect" \in Handler
  BY DEF Handler, Points
<1>1. CASE NetStop(t)
  BY <1>0, <1>1, LockThread, MutexIs DEF NetStop, Unlock, GivesBack, start
<1>2. CASE RpcStop(t)
  BY <1>0, <1>2, LockThread, MutexIs DEF RpcStop, Unlock, GivesBack, start
<1>3. CASE Kill(t)
  <2>1. PICK x \in {"kill", "kill modules"} :
          /\ At(t, x) /\ UNCHANGED << lock, start >>
          /\ stack' = Goto(t, "kill modules") \/ stack' = Goto(t, "disconnect") \/ stack' = Return(t)
    BY <1>3 DEF Kill
  <2>2. GivesBack(t, x)  BY <2>1, MutexIs DEF GivesBack
  <2> QED  BY <1>0, <2>1, <2>2, LockThread DEF start
<1>4. CASE Disconnect(t)
  BY <1>0, <1>4, LockThread, MutexIs DEF Disconnect, Unlock, GivesBack, start
<1> QED  BY <1>1, <1>2, <1>3, <1>4 DEF Stop

LEMMA LockPool ==
  ASSUME DaemonInv, LockInv, NEW p \in Pool,
         Wake(p) \/ WakeStopped(p) \/ Poll(p) \/ Emit(p) \/ EmitFails(p) \/ EndRequest(p)
  PROVE  LockInv'
<1>0. /\ p \in Threads /\ p # "main" /\ {"idle", "poll", "request", "emit", "use"} \subseteq Points
  BY ThreadKinds DEF Points, PoolPoints
<1>1. CASE Wake(p)  BY <1>0, <1>1, LockThread, MutexIs DEF Wake, GivesBack, start
<1>2. CASE WakeStopped(p)  BY <1>0, <1>2, LockThread, MutexIs DEF WakeStopped, GivesBack, start
<1>3. CASE Poll(p)
  <2>1. At(p, "poll") /\ daemonize' = daemonize /\ GivesBack(p, "poll")
    BY <1>3, MutexIs DEF Poll, Unlock, GivesBack, start
  <2>2. stack' = Return(p) \/ stack' = Goto(p, "request")  BY <1>3 DEF Poll
  <2> QED  BY <1>0, <2>1, <2>2, LockThread
<1>4. CASE Emit(p)  BY <1>0, <1>4, LockThread, MutexIs DEF Emit, Unlock, GivesBack, start
<1>5. CASE EmitFails(p)  BY <1>5, LocksStill DEF EmitFails, start
<1>6. CASE EndRequest(p)
  <2>1. At(p, "use") /\ UNCHANGED << lock, start >> /\ (stack' = stack \/ stack' = Goto(p, "idle"))
    BY <1>6 DEF EndRequest
  <2>2. CASE stack' = stack  BY <2>1, <2>2, LocksStill DEF start
  <2>3. CASE stack' = Goto(p, "idle")
    BY <1>0, <2>1, <2>3, LockThread, MutexIs DEF GivesBack, start
  <2> QED  BY <2>1, <2>2, <2>3
<1> QED  BY <1>1, <1>2, <1>3, <1>4, <1>5, <1>6

LEMMA LockStep ==
  ASSUME DaemonInv, LockInv, [Next]_vars
  PROVE  LockInv'
<1>1. ASSUME NEW t \in Threads, Step(t) PROVE LockInv'
  <2>1. CASE RpcReturns
    BY <2>1, LockThread, MutexIs, ThreadKinds DEF RpcReturns, GivesBack, start
  <2> QED  BY <1>1, <2>1, LockTaken, LockRecord, LockStop, LockMain, LockPool DEF Step
<1>2. ASSUME NEW p \in Pool, Wake(p) \/ EmitFails(p) PROVE LockInv'  BY <1>2, LockPool
<1>3. ASSUME NEW t, Helper(t) PROVE LockInv'  BY <1>3, LocksStill DEF Helper, start
<1>4. ASSUME NEW s \in Signals, NEW t \in Threads, Signal(s, t) PROVE LockInv'
  <2>1. CASE stack' = [stack EXCEPT ![t] = Append(@, "shutting")]
    BY <1>4, <2>1, LockSignal DEF Signal, start
  <2>2. CASE stack' = stack  BY <1>4, <2>2, LocksStill DEF Signal, start
  <2> QED  BY <1>4, <2>1, <2>2 DEF Signal
<1>5. ASSUME NEW t \in Threads, SignalLate(t) PROVE LockInv'  BY <1>5, LocksStill DEF SignalLate, start
<1>6. CASE UNCHANGED vars  BY <1>6, LocksStill DEF vars, start
<1> QED  BY <1>1, <1>2, <1>3, <1>4, <1>5, <1>6 DEF Next

LEMMA LockStart ==
  ASSUME Init
  PROVE  LockInv
<1>1. stack["main"] = << "ConfigManager" >> /\ stack["fuse"] = << >>  BY ThreadKinds DEF Init
<1>2. "ConfigManager" \in Points  BY DEF Points, InitSteps
<1>3. stack["main"][1] = "ConfigManager" /\ Len(stack["fuse"]) = 0
  BY <1>1, <1>2, OneElement, EmptyShape, ThreadKinds
<1> QED  BY <1>3 DEF Init, LockInv
-----------------------------------------------------------------------------
(* The theorems.                                                             *)

\* The daemon's state has its types, a stack is never deeper than the thread's own
\* work and one run of signal_handler per signal (main.cc:40-55), and a mutex that
\* is held is held by a thread at a point that takes it, or was taken along by the
\* fork (main.cc:111-123) from the thread that mounts the file system.
THEOREM DaemonTyped == Spec => []TypeOK
<1> DEFINE IInv == DaemonInv /\ PlainType /\ Depth /\ LockInv
<1>1. Init => IInv  BY DaemonInit, TypeInit, LockStart
<1>2. IInv /\ [Next]_vars => IInv'  BY DaemonStep, TypeStep, DepthStep, LockStep
<1>3. IInv => TypeOK
  <2> SUFFICES ASSUME IInv PROVE TypeOK  OBVIOUS
  <2>1. Len(stack["fuse"]) = 0 => ~Runs("fuse")
    <3>1. stack["fuse"] \in Seq(Points)  BY ThreadKinds DEF DaemonInv, StackInv
    <3> QED  BY <3>1 DEF Runs
  <2>2. \A m \in Mutexes : Taken(m) => daemonize /\ m = "log" /\ lock[m][1] = "fuse" /\ Lost(m)
    BY <2>1 DEF Taken, Lost
  <2> QED  BY <2>2 DEF PlainType, Depth, LockInv, Held, TypeOK
<1> QED  BY <1>1, <1>2, <1>3, PTL DEF Spec

\* A request begins by Poll alone, which needs an io_service that is not stopped.
LEMMA RequestsBegin ==
  ASSUME DaemonInv, [Next]_vars, NEW p \in Pool, At(p, "poll"), stack'[p] = << "request" >>
  PROVE  ~stopped
<1> USE DEF DaemonInv
<1>0. /\ p \in Threads /\ p # "main" /\ p # "rpc" /\ p # "fuse" /\ p # "checker"
      /\ "request" \in Points /\ "poll" \notin Handler /\ Handler \subseteq Points
  BY ThreadKinds DEF Points, Handler, PoolPoints
<1>1. Len(stack[p]) = 1 /\ stack[p][1] = "poll" /\ stack[p] \in Seq(Points)  BY <1>0, OnBottom
<1>2. Len(stack'[p]) = 1 /\ stack'[p][1] = "request"  BY <1>0, OneElement
<1>3. stack'[p] # stack[p]  BY <1>1, <1>2
<1>4. stack["main"][1] \in Serving \cup Gone
  <2>1. served  BY <1>0, <1>1 DEF OrderInv
  <2> QED  BY <2>1 DEF OrderInv
<1>5. \A x \in InitSteps \cup {"fork", "signal", "run"} : ~At("main", x)
  <2>1. ASSUME NEW x \in InitSteps \cup {"fork", "signal", "run"}, At("main", x) PROVE FALSE
    <3>1. x \notin Handler /\ x \notin Serving \cup Gone  BY DEF InitSteps, Handler, Serving, Gone
    <3>2. stack["main"][1] = x  BY <2>1, <3>1, OnBottom, ThreadKinds
    <3> QED  BY <1>4, <3>1, <3>2
  <2> QED  BY <2>1
<1>6. \A x : At(p, x) => x = "poll"  BY DEF At
<1>7. ASSUME NEW t \in Threads, stack' = stack \/ (\E y : stack' = Goto(t, y)) \/ stack' = Return(t)
      PROVE  t = p
  <2>1. t # p => stack'[p] = stack[p]  BY <1>0, <1>7 DEF Goto, Return, StackInv
  <2> QED  BY <1>3, <2>1
<1>8. ASSUME NEW q \in Pool, Poll(q) PROVE ~stopped
  <2>1. CASE stopped
    <3>1. stack' = Return(q)  BY <1>8, <2>1 DEF Poll
    <3>2. q = p  BY <1>7, <3>1, ThreadKinds
    <3>3. stack'[p] = Front(stack[p])  BY <1>0, <3>1, <3>2 DEF Return, StackInv
    <3>4. stack[p] # << >>  BY <1>0, OnBottom
    <3>5. Len(stack'[p]) = Len(stack[p]) - 1  BY <1>1, <3>3, <3>4, DropLast
    <3>6. Len(stack'[p]) = 0  BY <1>1, <3>5
    <3> QED  BY <1>2, <3>6
  <2> QED  BY <2>1
<1>9. ASSUME NEW t \in Threads, Step(t) PROVE ~stopped
  <2>1. CASE Lock(t)  BY <1>3, <2>1 DEF Lock
  <2>2. CASE LogRecord(t)
    <3>1. PICK x \in DOMAIN Log : At(t, x) /\ \E y \in Log[x] : stack' = Goto(t, y)
      BY <2>2 DEF LogRecord, Unlock
    <3>2. t = p /\ x = "poll"  BY <1>6, <1>7, <3>1
    <3> QED  BY <3>2 DEF Log
  <2>3. CASE Stop(t)
    <3>1. \E x \in {"net", "halt", "kill", "kill modules", "disconnect"} : At(t, x)
      BY <2>3 DEF Stop, NetStop, RpcStop, Kill, Disconnect, Unlock
    <3>2. (\E y : stack' = Goto(t, y)) \/ stack' = Return(t)
      BY <2>3 DEF Stop, NetStop, RpcStop, Kill, Disconnect
    <3> QED  BY <1>6, <1>7, <3>1, <3>2
  <2>4. CASE Main
    <3>1. CASE Join
      <4>1. stack' = Goto("main", "joined")  BY <3>1 DEF Join
      <4> QED  BY <1>0, <1>7, <4>1, ThreadKinds
    <3>2. CASE Leave  BY <1>3, <3>2 DEF Leave
    <3> QED  BY <1>5, <2>4, <3>1, <3>2
             DEF Main, ConfigInit, LoggerInit, PluginInit, LoadPlugins, InitStorages, InitUtils,
                 StorageInit, NetInit, RpcInit, Fork, InstallHandlers, Run, InitStep, InitSteps
  <2>5. CASE RpcReturns
    <3>1. stack' = Return("rpc")  BY <2>5 DEF RpcReturns
    <3> QED  BY <1>0, <1>7, <3>1, ThreadKinds
  <2>6. CASE t \in Pool /\ (WakeStopped(t) \/ Emit(t) \/ EndRequest(t))
    <3>1. /\ \E x \in {"idle", "emit", "use"} : At(t, x)
          /\ stack' = stack \/ \E y : stack' = Goto(t, y)
      BY <2>6 DEF WakeStopped, Emit, EndRequest, Unlock
    <3> QED  BY <1>6, <1>7, <3>1
  <2> QED  BY <1>8, <1>9, <2>1, <2>2, <2>3, <2>4, <2>5, <2>6 DEF Step
<1>10. ASSUME NEW q \in Pool, Wake(q) \/ EmitFails(q) PROVE FALSE
  <2>1. /\ At(q, "idle") \/ At(q, "emit")
        /\ stack' = stack \/ \E y : stack' = Goto(q, y)
    BY <1>10 DEF Wake, EmitFails
  <2> QED  BY <1>6, <1>7, <2>1, ThreadKinds
<1>11. ASSUME NEW s \in Signals, NEW t \in Threads, Signal(s, t) PROVE FALSE
  <2>1. CASE stack' = stack  BY <1>3, <2>1
  <2>2. CASE stack' = [stack EXCEPT ![t] = Append(@, "shutting")]
    <3>1. stack'[p] = stack[p] \/ stack'[p] = Append(stack[p], "shutting")
      BY <1>0, <2>2 DEF StackInv
    <3>2. stack'[p] = Append(stack[p], "shutting")  BY <1>3, <3>1
    <3>3. "shutting" \in Points  BY DEF Points, Handler
    <3>a. \A u \in Seq(Points) : \A x \in Points : Len(Append(u, x)) = Len(u) + 1  OBVIOUS
    <3>4. Len(Append(stack[p], "shutting")) = Len(stack[p]) + 1  BY <1>1, <3>3, <3>a
    <3>5. Len(stack'[p]) = 2  BY <1>1, <3>2, <3>4
    <3> QED  BY <1>2, <3>5
  <2> QED  BY <1>11, <2>1, <2>2 DEF Signal
<1>12. ASSUME stack' = stack PROVE FALSE  BY <1>3, <1>12
<1> QED  BY <1>9, <1>10, <1>11, <1>12 DEF Next, Helper, SignalLate, vars

\* A request begins only when every manager is there: after all of anDaemon::init
\* and before stop destroys the first of them (daemon.cc:38-87), whichever threads
\* the signals interrupt.
THEOREM RequestsAlwaysFindManagers == Spec => RequestsFindManagers
<1>1. Init => DaemonInv  BY DaemonInit
<1>2. DaemonInv /\ [Next]_vars => DaemonInv'  BY DaemonStep
<1>3. DaemonInv /\ [Next]_vars =>
        [\A p \in Pool : At(p, "poll") /\ stack'[p] = << "request" >>
           => made = InitSteps /\ killed = {}]_vars
  <2> SUFFICES ASSUME DaemonInv, [Next]_vars, NEW p \in Pool, At(p, "poll"),
                      stack'[p] = << "request" >>
               PROVE  made = InitSteps /\ killed = {}
    OBVIOUS
  <2>1. ~stopped  BY RequestsBegin
  <2>2. killed = {}  BY <2>1 DEF DaemonInv, StopInv
  <2>3. Len(stack[p]) >= 1  BY OnBottom, ThreadKinds DEF DaemonInv
  <2>4. served
    <3>1. Len(stack[p]) # 0  BY <2>3
    <3> QED  BY <3>1 DEF DaemonInv, OrderInv
  <2> QED  BY <2>2, <2>4 DEF DaemonInv, OrderInv
<1> QED  BY <1>1, <1>2, <1>3, PTL DEF Spec, RequestsFindManagers

\* main joins the thread that joins the pool.
JoinInv ==
  /\ served /\ Len(stack["rpc"]) = 0 => \A p \in Pool : Len(stack[p]) = 0
  /\ served /\ stack["main"][1] \in {"joined"} \cup Gone => Len(stack["rpc"]) = 0

LEMMA JoinGoto ==
  ASSUME DaemonInv, JoinInv, NEW t \in Threads, NEW x, At(t, x), NEW y \in Points,
         stack' = Goto(t, y), served' = served,
         t = "main" /\ x \notin Handler /\ y \in {"joined"} \cup Gone => ~served \/ Len(stack["rpc"]) = 0
  PROVE  JoinInv'
<1>1. StackInv  BY DEF DaemonInv
<1>2. Below(t) /\ Len(stack'[t]) = Len(stack[t]) /\ stack'[t][Len(stack[t])] = y  BY <1>1, GotoBelow
<1>3. \A v \in Threads : Len(stack'[v]) = Len(stack[v])  BY <1>2 DEF Below
<1>4. CASE t # "main" \/ x \in Handler
  <2>1. stack'["main"][1] = stack["main"][1]  BY <1>2, <1>4, MainBelow
  <2> QED  BY <1>3, <2>1, ThreadKinds DEF JoinInv
<1>5. CASE t = "main" /\ x \notin Handler
  <2>1. Len(stack[t]) = 1  BY <1>1, <1>5, OnBottom
  <2>2. stack'["main"][1] = y  BY <1>2, <1>5, <2>1
  <2> QED  BY <1>3, <1>5, <2>2, ThreadKinds DEF JoinInv
<1> QED  BY <1>4, <1>5

LEMMA JoinReturn ==
  ASSUME DaemonInv, JoinInv, NEW t \in Threads, NEW x, At(t, x), stack' = Return(t), served' = served,
         x \in Handler \/ t \in Pool \/ (t = "rpc" /\ \A p \in Pool : Len(stack[p]) = 0)
  PROVE  JoinInv'
<1>1. StackInv  BY DEF DaemonInv
<1> DEFINE s == stack[t]
           u == Front(s)
<1>2. /\ s \in Seq(Points) /\ s # << >> /\ Len(s) \in Nat /\ Len(s) >= 1
      /\ x \in Handler => Len(s) >= 2
  BY <1>1, OnBottom
<1>3. Len(u) = Len(s) - 1  BY <1>2, DropLast
<1>4. stack'[t] = u /\ \A v \in Threads : v # t => stack'[v] = stack[v]
  BY <1>1 DEF Return, StackInv
<1> HIDE DEF u, s
<1>5. x \in Handler => Len(u) # 0  BY <1>2, <1>3
<1>6. t # "main" \/ x \in Handler  BY ThreadKinds
<1>7. stack'["main"][1] = stack["main"][1]  BY <1>1, <1>6, ReturnBelow, MainBelow
<1>8. Len(s) # 0  BY <1>2
<1>9. CASE t = "rpc" /\ x \notin Handler
  <2>1. \A p \in Pool : Len(stack'[p]) = 0  BY <1>4, <1>9, ThreadKinds
  <2>2. stack["main"][1] \notin {"joined"} \cup Gone \/ ~served  BY <1>8, <1>9 DEF JoinInv, s
  <2> QED  BY <1>7, <2>1, <2>2 DEF JoinInv
<1>10. CASE t = "rpc" /\ x \in Handler
  <2>1. Len(stack'["rpc"]) # 0 /\ Len(stack["rpc"]) # 0  BY <1>4, <1>5, <1>8, <1>10 DEF s
  <2> QED  BY <1>7, <2>1 DEF JoinInv
<1>11. CASE t # "rpc"
  <2>1. stack'["rpc"] = stack["rpc"]  BY <1>4, <1>11, ThreadKinds
  <2>2. served /\ Len(stack["rpc"]) = 0 => \A p \in Pool : Len(stack'[p]) = 0
    <3>1. ASSUME served, Len(stack["rpc"]) = 0, NEW p \in Pool PROVE Len(stack'[p]) = 0
      <4>1. Len(stack[p]) = 0  BY <3>1 DEF JoinInv
      <4>2. p # t  BY <1>8, <4>1 DEF s
      <4> QED  BY <1>4, <4>1, <4>2, ThreadKinds
    <3> QED  BY <3>1
  <2> QED  BY <1>7, <2>1, <2>2 DEF JoinInv
<1> QED  BY <1>9, <1>10, <1>11

LEMMA JoinSignal ==
  ASSUME DaemonInv, JoinInv, NEW t \in Threads, Runs(t),
         stack' = [stack EXCEPT ![t] = Append(@, "shutting")], served' = served
  PROVE  JoinInv'
<1> DEFINE s == stack[t]
           u == Append(s, "shutting")
<1>1. s \in Seq(Points) /\ s # << >> /\ "shutting" \in Points
  BY DEF DaemonInv, StackInv, Runs, Points, Handler
<1>2. stack'[t] = u /\ \A v \in Threads : v # t => stack'[v] = stack[v]
  BY DEF DaemonInv, StackInv
<1> HIDE DEF u, s
<1>3. Len(u) # 0 /\ Len(s) \in Nat /\ Len(s) >= 1 /\ Len(s) # 0 /\ u[1] = s[1]  BY <1>1 DEF u
<1>4. stack'["main"][1] = stack["main"][1]
  BY <1>2, <1>3, ThreadKinds DEF s
<1>5. \A v \in Threads : Len(stack'[v]) = 0 <=> Len(stack[v]) = 0  BY <1>2, <1>3 DEF s
<1> QED  BY <1>4, <1>5, ThreadKinds DEF JoinInv

LEMMA JoinMain ==
  ASSUME DaemonInv, JoinInv, Main
  PROVE  JoinInv'
<1>1. ASSUME NEW x \in InitSteps \cup {"fork", "signal"}, At("main", x), served' = served PROVE JoinInv'
  <2>1. x \notin Handler /\ x \notin Serving \cup Gone  BY DEF InitSteps, Handler, Serving, Gone
  <2>2. stack["main"][1] = x  BY <1>1, <2>1, OnBottom, ThreadKinds DEF DaemonInv
  <2>3. ~served  BY <2>1, <2>2 DEF DaemonInv, OrderInv
  <2> QED  BY <1>1, <2>3 DEF JoinInv
<1>2. ASSUME NEW step \in InitSteps, NEW next, NEW new, NEW at, InitStep(step, next, new, at)
      PROVE  JoinInv'
  BY <1>1, <1>2 DEF InitStep, Exit, start
<1>3. CASE \/ ConfigInit \/ LoggerInit \/ PluginInit \/ LoadPlugins \/ InitStorages \/ InitUtils
           \/ StorageInit \/ NetInit \/ RpcInit
  <2>0. /\ "ConfigManager" \in InitSteps /\ "Logger" \in InitSteps /\ "PluginManager" \in InitSteps
        /\ "loadPlugin" \in InitSteps /\ "localstorages" \in InitSteps /\ "utils" \in InitSteps
        /\ "StorageManager" \in InitSteps /\ "NetManager" \in InitSteps /\ "RPCManager" \in InitSteps
    BY DEF InitSteps
  <2>1. CASE LoggerInit  BY <1>1, <1>2, <2>0, <2>1 DEF LoggerInit, start
  <2>2. CASE InitUtils  BY <1>2, <2>0, <2>2 DEF InitUtils
  <2>3. CASE ConfigInit \/ PluginInit \/ LoadPlugins \/ InitStorages
    BY <1>2, <2>0, <2>3 DEF ConfigInit, PluginInit, LoadPlugins, InitStorages
  <2>4. CASE StorageInit \/ NetInit \/ RpcInit  BY <1>2, <2>0, <2>4 DEF StorageInit, NetInit, RpcInit
  <2> QED  BY <1>3, <2>1, <2>2, <2>3, <2>4
<1>4. CASE Fork  BY <1>1, <1>4 DEF Fork, Exit, start
<1>5. CASE InstallHandlers  BY <1>1, <1>5 DEF InstallHandlers
<1>6. CASE Run
  <2>1. /\ stack'["rpc"] = << "join pool" >> /\ "join pool" \in Points
    BY <1>6, ThreadKinds DEF Run, Points
  <2>2. Len(stack'["rpc"]) # 0
    <3>1. Len(<< "join pool" >>) = 1  BY <2>1, OneElement
    <3>2. Len(<< "join pool" >>) # 0  BY <3>1
    <3> QED  BY <2>1, <3>2
  <2>3. At("main", "run") /\ "run" \notin Handler /\ "waiting" \in Points
    BY <1>6 DEF Run, Handler, Points, Settled, Serving
  <2>4. stack["main"] \in Seq(Points) /\ stack["main"] # << >> /\ Len(stack["main"]) = 1
    BY <2>3, OnBottom, ThreadKinds DEF DaemonInv
  <2>5. stack'["main"] = Append(Front(stack["main"]), "waiting")  BY <1>6, ThreadKinds DEF Run
  <2>6. Replaced(stack["main"], stack'["main"], "waiting")  BY <2>3, <2>4, <2>5, ReplaceLast
  <2>7. stack'["main"][1] = "waiting"  BY <2>4, <2>6 DEF Replaced
  <2> QED  BY <2>2, <2>7 DEF JoinInv, Gone
<1>7. CASE Join
  <2>1. stack["rpc"] \in Seq(Points) /\ stack["rpc"] = << >>
    BY <1>7, ThreadKinds DEF Join, Runs, DaemonInv, StackInv
  <2>2. Len(stack["rpc"]) = 0  BY <2>1
  <2>3. "joined" \in Points  BY DEF Points, Settled, Serving
  <2> QED  BY <1>7, <2>2, <2>3, JoinGoto, ThreadKinds DEF Join, start
<1>8. CASE Leave  BY <1>8 DEF Leave, start, JoinInv
<1> QED  BY <1>3, <1>4, <1>5, <1>6, <1>7, <1>8 DEF Main

LEMMA JoinStep ==
  ASSUME DaemonInv, JoinInv, [Next]_vars
  PROVE  JoinInv'
<1>0. /\ Handler \subseteq Points /\ PoolPoints \subseteq Points
      /\ \A p \in Pool : p \in Threads /\ p # "main"
  BY ThreadKinds DEF Points
<1>1. CASE UNCHANGED << stack, served >>  BY <1>1 DEF JoinInv
<1>2. ASSUME NEW t \in Threads, LogRecord(t) PROVE JoinInv'
  <2>1. PICK p \in DOMAIN Log : At(t, p) /\ \E next \in Log[p] : stack' = Goto(t, next)
    BY <1>2 DEF LogRecord, Unlock
  <2>2. PICK y \in Log[p] : stack' = Goto(t, y)  BY <2>1
  <2>3. served' = served  BY <1>2 DEF LogRecord, start
  <2>4. y \in {"signal", "join", "success", "mount", "use", "emit", "net"}
        /\ (y = "success" => p = "joined")
    BY DEF Log
  <2>5. y \in Points  BY <2>4 DEF Points, Handler, Settled, Serving, Gone, PoolPoints
  <2>6. ASSUME t = "main", p \notin Handler, y \in {"joined"} \cup Gone, served
        PROVE  Len(stack["rpc"]) = 0
    <3>1. p = "joined"  BY <2>4, <2>6 DEF Gone
    <3>2. stack["main"][1] = p  BY <2>1, <2>6, OnBottom DEF DaemonInv
    <3> QED  BY <2>6, <3>1, <3>2 DEF JoinInv
  <2> QED  BY <2>1, <2>2, <2>3, <2>5, <2>6, JoinGoto
<1>3. ASSUME NEW t \in Threads, Stop(t) PROVE JoinInv'
  <2>1. \E x \in Handler : At(t, x)
    BY <1>3 DEF Stop, NetStop, RpcStop, Kill, Disconnect, Unlock, Handler
  <2>2. (\E y \in Handler : stack' = Goto(t, y)) \/ stack' = Return(t)
    BY <1>3 DEF Stop, NetStop, RpcStop, Kill, Disconnect, Handler
  <2>3. served' = served  BY <1>3 DEF Stop, NetStop, RpcStop, Kill, Disconnect, start
  <2> QED  BY <1>0, <2>1, <2>2, <2>3, JoinGoto, JoinReturn
<1>4. ASSUME NEW p \in Pool,
             Wake(p) \/ WakeStopped(p) \/ Poll(p) \/ Emit(p) \/ EmitFails(p) \/ EndRequest(p)
      PROVE  JoinInv'
  <2>1. \E x : At(p, x)  BY <1>4 DEF Wake, WakeStopped, Poll, Emit, EmitFails, EndRequest, Unlock
  <2>2. served' = served
    BY <1>4 DEF Wake, WakeStopped, Poll, Emit, EmitFails, EndRequest, start
  <2>3. stack' = stack \/ (\E y \in PoolPoints : stack' = Goto(p, y)) \/ stack' = Return(p)
    BY <1>4 DEF Wake, WakeStopped, Poll, Emit, EmitFails, EndRequest, PoolPoints
  <2> QED  BY <1>0, <1>1, <2>1, <2>2, <2>3, JoinGoto, JoinReturn
<1>5. CASE RpcReturns
  <2>1. \A p \in Pool : stack[p] = << >>  BY <1>5 DEF RpcReturns, Runs
  <2>2. \A p \in Pool : Len(stack[p]) = 0  BY <2>1, EmptyShape, ThreadKinds
  <2> QED  BY <1>5, <2>2, JoinReturn, ThreadKinds DEF RpcReturns, start
<1>6. ASSUME NEW t \in Threads, Step(t) PROVE JoinInv'
  <2>1. CASE Lock(t)  BY <1>1, <2>1 DEF Lock, start
  <2> QED  BY <1>2, <1>3, <1>4, <1>5, <1>6, <2>1, JoinMain DEF Step
<1>7. ASSUME NEW s \in Signals, NEW t \in Threads, Signal(s, t) PROVE JoinInv'
  <2>1. CASE stack' = [stack EXCEPT ![t] = Append(@, "shutting")]
    BY <1>7, <2>1, JoinSignal DEF Signal, start
  <2>2. CASE stack' = stack  BY <1>1, <1>7, <2>2 DEF Signal, start
  <2> QED  BY <1>7, <2>1, <2>2 DEF Signal
<1> QED  BY <1>1, <1>4, <1>6, <1>7 DEF Next, Helper, SignalLate, vars, start

\* What ends the process by a crash, and when it can.
LEMMA CrashStep ==
  ASSUME DaemonInv, JoinInv, CrashNeedsRequest, [Next]_vars
  PROVE  CrashNeedsRequest'
<1> USE DEF DaemonInv
<1>a. \A t, x : At(t, x) => ended = "no"  BY DEF At
<1>b. CASE UNCHANGED << stack, daemonize, served, ended, busy >>
  BY <1>b DEF CrashNeedsRequest, Leaving, Runs
<1>c. CASE ended' # "crashed"  BY <1>c DEF CrashNeedsRequest
<1>d. CASE ended = "no" /\ ended' = ended  BY <1>d DEF CrashNeedsRequest
<1>2. ASSUME served, daemonize PROVE ~Runs("fuse") /\ ~Runs("checker")
  <2>1. Len(stack["fuse"]) = 0 /\ Len(stack["checker"]) = 0
    BY <1>2 DEF OrderInv, Settled
  <2>2. stack["fuse"] \in Seq(Points) /\ stack["checker"] \in Seq(Points)
    BY ThreadKinds DEF StackInv
  <2> QED  BY <2>1, <2>2 DEF Runs
<1>3. ASSUME NEW step \in InitSteps, NEW next, NEW new, NEW at, InitStep(step, next, new, at)
      PROVE  CrashNeedsRequest'
  BY <1>a, <1>d, <1>3 DEF InitStep, Exit
<1>4. CASE Main
  <2>0. /\ "ConfigManager" \in InitSteps /\ "Logger" \in InitSteps /\ "PluginManager" \in InitSteps
        /\ "loadPlugin" \in InitSteps /\ "localstorages" \in InitSteps /\ "utils" \in InitSteps
        /\ "StorageManager" \in InitSteps /\ "NetManager" \in InitSteps /\ "RPCManager" \in InitSteps
    BY DEF InitSteps
  <2>1. CASE ConfigInit \/ PluginInit \/ LoadPlugins \/ InitStorages
    BY <1>3, <2>0, <2>1 DEF ConfigInit, PluginInit, LoadPlugins, InitStorages
  <2>2. CASE InitUtils  BY <1>3, <2>0, <2>2 DEF InitUtils
  <2>3. CASE StorageInit \/ NetInit \/ RpcInit  BY <1>3, <2>0, <2>3 DEF StorageInit, NetInit, RpcInit
  <2>4. CASE LoggerInit
    <3>1. At("main", "Logger") /\ "Logger" \notin Handler  BY <2>4 DEF LoggerInit, InitStep, Handler
    <3>2. stack["main"][1] = "Logger"  BY <3>1, OnBottom, ThreadKinds
    <3>3. ~served  BY <3>2 DEF OrderInv, Serving, Gone
    <3> QED  BY <1>3, <2>0, <2>4, <3>3 DEF LoggerInit, start, CrashNeedsRequest
  <2>5. CASE Fork  BY <1>a, <1>d, <2>5 DEF Fork, Exit
  <2>6. CASE InstallHandlers \/ Run \/ Join
    BY <1>a, <1>d, <2>6 DEF InstallHandlers, Run, Join
  <2>7. CASE Leave  BY <1>c, <2>7 DEF Leave
  <2> QED  BY <1>4, <2>1, <2>2, <2>3, <2>4, <2>5, <2>6, <2>7 DEF Main
<1>5. ASSUME NEW p \in Pool, NEW x \in {"emit", "use"}, At(p, x), killed # {} PROVE p \in busy
  <2>2. x \notin Handler  BY DEF Handler
  <2>3. Requesting(stack[p])  BY <1>5, <2>2, OnBottom, ThreadKinds DEF Requesting
  <2> QED  BY <1>5, <2>3 DEF StopInv
<1>6. ASSUME NEW p \in Pool, EndRequest(p) PROVE CrashNeedsRequest'
  <2>1. At(p, "use") /\ UNCHANGED << start, down >>  BY <1>6 DEF EndRequest
  <2>2. CASE killed # {}  BY <1>5, <2>1, <2>2 DEF CrashNeedsRequest, down
  <2>3. CASE killed = {} /\ served
    <3>1. Len(stack[p]) >= 1 /\ Len(stack[p]) # 0  BY <2>1, OnBottom, ThreadKinds
    <3>2. stack["main"][1] \notin Gone  BY <2>3, <3>1 DEF JoinInv
    <3>3. stack["main"] \in Seq(Points) /\ Len(stack["main"]) >= 1  BY ThreadKinds DEF StackInv, OrderInv
    <3>4. Head(stack["main"]) = stack["main"][1]  BY <3>3
    <3>5. ~Leaving  BY <3>2, <3>4 DEF Leaving, Gone
    <3> QED  BY <1>6, <1>a, <1>c, <1>d, <2>1, <2>3, <3>5 DEF EndRequest, Uses
  <2>4. CASE ~served  BY <2>1, <2>4 DEF CrashNeedsRequest, start
  <2> QED  BY <2>2, <2>3, <2>4
<1>7. ASSUME NEW p \in Pool, EmitFails(p) PROVE CrashNeedsRequest'
  BY <1>5, <1>7 DEF EmitFails, CrashNeedsRequest, down
<1>8. ASSUME NEW t \in {"checker", "fuse"}, Helper(t) PROVE CrashNeedsRequest'
  <2>1. Runs(t)  BY <1>8 DEF Helper, At
  <2> QED  BY <1>2, <1>8, <2>1 DEF Helper, start, CrashNeedsRequest
<1>9. ASSUME NEW t \in Threads, SignalLate(t) PROVE CrashNeedsRequest'
  <2>1. PICK x \in Handler : At(t, x)  BY <1>9 DEF SignalLate
  <2>2. Len(stack[t]) \in Nat /\ Len(stack[t]) >= 2  BY <2>1, OnBottom
  <2>3. Len(stack[t]) > 1  BY <2>2
  <2> QED  BY <1>9, <2>3 DEF SignalLate, CrashNeedsRequest, Leaving, Runs
<1>10. ASSUME NEW t \in Threads, Step(t) PROVE CrashNeedsRequest'
  <2>1. CASE Lock(t) \/ LogRecord(t)  BY <1>a, <1>d, <2>1 DEF Lock, LogRecord, Unlock
  <2>2. CASE Stop(t)  BY <1>a, <1>d, <2>2 DEF Stop, NetStop, RpcStop, Kill, Disconnect, Unlock
  <2>3. CASE RpcReturns \/ WakeStopped(t) \/ Poll(t) \/ Emit(t)
    BY <1>a, <1>d, <2>3 DEF RpcReturns, WakeStopped, Poll, Emit, Unlock
  <2> QED  BY <1>4, <1>6, <1>10, <2>1, <2>2, <2>3 DEF Step
<1>11. ASSUME NEW p \in Pool, Wake(p) PROVE CrashNeedsRequest'  BY <1>a, <1>d, <1>11 DEF Wake
<1>12. ASSUME NEW s \in Signals, NEW t \in Threads, Signal(s, t) PROVE CrashNeedsRequest'
  BY <1>c, <1>d, <1>12 DEF Signal
<1>13. CASE UNCHANGED vars  BY <1>b, <1>13 DEF vars, start, down
<1> QED  BY <1>7, <1>8, <1>9, <1>10, <1>11, <1>12, <1>13 DEF Next

\* The daemonized process crashes while it stops only if a request was under way
\* when a manager was destroyed (daemon.cc:85-86), or a signal handler was still
\* running when main left: the threads that init had started did not survive the
\* fork (main.cc:111-123), and main leaves only after the pool.
THEOREM CrashesNeedRequests == Spec => []CrashNeedsRequest
<1> DEFINE IInv == DaemonInv /\ JoinInv /\ CrashNeedsRequest
<1>1. Init => IInv  BY DaemonInit DEF Init, CrashNeedsRequest, JoinInv
<1>2. IInv /\ [Next]_vars => IInv'  BY DaemonStep, JoinStep, CrashStep
<1>3. IInv => CrashNeedsRequest  OBVIOUS
<1> QED  BY <1>1, <1>2, <1>3, PTL DEF Spec
=============================================================================

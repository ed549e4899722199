---------------------------- MODULE LoggerProofs ----------------------------
(***************************************************************************)
(* What TLC checks of Logger on two callers and three messages each,       *)
(* proved for any number of callers, messages and failures: that nothing   *)
(* logged is lost, doubled or overtaken, that the file follows the         *)
(* console, and that safeExit loses at most the last message.              *)
(*                                                                         *)
(* The proofs follow Line, all that was put or printed.  A step leaves it  *)
(* as it is (t_write takes a message from the queue, or prints the one it  *)
(* took) or appends the message one thread is logging.                     *)
(***************************************************************************)
EXTENDS Logger, FiniteSetTheorems, SequenceTheorems, TLAPS

\* Only one thread prints: t_write, or the one that holds printLock.
Control ==
    /\ \A t \in Callers : pc[t] \notin {"off", "get"}
    /\ \A t \in Callers : pc[t] # "run" => logged[t] > 0
    /\ pc[t_write] \in {"off", "log", "get", "console", "file"}
    /\ pc[t_write] \in {"console", "file"} => msg[t_write] \in Messages
    /\ isAsyncLog =>
          /\ pc[t_write] # "off" /\ logged[t_write] = 1
          /\ \A t \in Callers : pc[t] \notin {"console", "file", "unlock"}
    /\ ~isAsyncLog =>
          /\ pc[t_write] = "off" /\ logged[t_write] = 0
          /\ msgQueue = <<>>
          /\ \A t \in Callers : pc[t] \in {"console", "file", "unlock"} => printLock = t

\* SIGINT cuts off one message of Main, which Main does not log again, and
\* which t_write takes out of the queue only if Main released the queue.
Signal ==
    /\ ~interrupted => cut = {} /\ ~queueHeld
    /\ \A m \in cut : m[1] = Main /\ m[2] < logged[Main]
    /\ \A m, n \in cut : m = n
    /\ pc[t_write] = "console" => msg[t_write] \notin cut
    /\ \A k \in 1..Len(msgQueue) : msgQueue[k] \in cut => queueHeld

\* What is written to the file is the last on the console.
Writing ==
    \A t \in Threads : pc[t] = "file" =>
        /\ console # <<>> /\ console[Len(console)] = Printing(t)
        /\ \A j \in 1..Len(file) : file[j] # Printing(t)

\* Whoever saw an empty queue has all but the last of its messages printed.
Exiting ==
    \A t \in Callers : pc[t] = "exit" =>
        \A n \in 1..(logged[t] - 1) : <<t, n>> \in ToSet(console) \cup Lost

Ordered == OnceInOrder /\ Control /\ Signal

IndInv == Ordered /\ FileFollowsConsole /\ Writing /\ Exiting

----------------------------------------------------------------------------
\* Line

LEMMA LineIsASeq ==
    ASSUME TypeOK, Control
    PROVE  /\ InHand \in Seq(Messages) /\ console \o InHand \in Seq(Messages)
           /\ Line \in Seq(Messages)
<1>1. InHand \in Seq(Messages)
    BY DEF InHand, Control
<1>2. console \in Seq(Messages) /\ msgQueue \in Seq(Messages)
    BY DEF TypeOK
<1> QED BY <1>1, <1>2, ConcatProperties DEF Line

\* A message is in Line if it is in one of its parts.
LEMMA PartsOfLine ==
    ASSUME TypeOK, Control
    PROVE  /\ ToSet(Line) = ToSet(console) \cup ToSet(InHand) \cup ToSet(msgQueue)
           /\ \A k \in 1..Len(console) : k \in 1..Len(Line) /\ Line[k] = console[k]
<1>1. /\ console \in Seq(Messages) /\ InHand \in Seq(Messages)
      /\ msgQueue \in Seq(Messages) /\ console \o InHand \in Seq(Messages)
    BY LineIsASeq DEF TypeOK
<1>2. ASSUME NEW s1 \in Seq(Messages), NEW s2 \in Seq(Messages)
      PROVE  /\ ToSet(s1 \o s2) = ToSet(s1) \cup ToSet(s2)
             /\ \A k \in 1..Len(s1) : k \in 1..Len(s1 \o s2) /\ (s1 \o s2)[k] = s1[k]
    <2>1. /\ Len(s1) \in Nat /\ Len(s2) \in Nat /\ Len(s1 \o s2) = Len(s1) + Len(s2)
          /\ DOMAIN s1 = 1..Len(s1) /\ DOMAIN s2 = 1..Len(s2)
          /\ DOMAIN (s1 \o s2) = 1..(Len(s1) + Len(s2))
        BY ConcatProperties, LenProperties
    <2>2. \A k \in 1..Len(s1) : (s1 \o s2)[k] = s1[k]
        BY <2>1, ConcatProperties
    <2>3. \A k \in 1..Len(s2) : (s1 \o s2)[Len(s1) + k] = s2[k]
        BY <2>1
    <2>4. \A k \in 1..(Len(s1) + Len(s2)) :
              k \in 1..Len(s1) \/ (k - Len(s1) \in 1..Len(s2) /\ k = Len(s1) + (k - Len(s1)))
        BY <2>1
    <2>5. ToSet(s1 \o s2) \subseteq ToSet(s1) \cup ToSet(s2)
        BY <2>1, <2>2, <2>3, <2>4 DEF ToSet
    <2>6. ToSet(s1) \subseteq ToSet(s1 \o s2)
        BY <2>1, <2>2 DEF ToSet
    <2>7. ToSet(s2) \subseteq ToSet(s1 \o s2)
        <3>1. \A k \in 1..Len(s2) : Len(s1) + k \in 1..(Len(s1) + Len(s2))
            BY <2>1
        <3> QED BY <2>1, <2>3, <3>1 DEF ToSet
    <2> QED BY <2>1, <2>2, <2>5, <2>6, <2>7
<1> QED BY <1>1, <1>2 DEF Line

LEMMA ToSetIs ==
    ASSUME NEW S, NEW s \in Seq(S)
    PROVE  /\ \A m : m \in ToSet(s) <=> \E k \in 1..Len(s) : s[k] = m
           /\ ToSet(s) \subseteq S
BY LenProperties DEF ToSet

LEMMA ToSetGrows ==
    ASSUME NEW S, NEW s \in Seq(S), NEW x \in S
    PROVE  ToSet(Append(s, x)) = ToSet(s) \cup {x}
<1>1. PICK r : r = Append(s, x)
    OBVIOUS
<1>2. /\ r \in Seq(S) /\ Len(s) \in Nat /\ Len(r) = Len(s) + 1
      /\ r[Len(s) + 1] = x /\ \A k \in 1..Len(s) : r[k] = s[k]
    BY <1>1, AppendProperties, LenProperties
<1>3. /\ \A m : m \in ToSet(s) <=> \E k \in 1..Len(s) : s[k] = m
      /\ \A m : m \in ToSet(r) <=> \E k \in 1..(Len(s) + 1) : r[k] = m
    BY <1>2, ToSetIs
<1>4. \A k : k \in 1..(Len(s) + 1) <=> k \in 1..Len(s) \/ k = Len(s) + 1
    BY <1>2
<1>5. ToSet(r) \subseteq ToSet(s) \cup {x}
    BY <1>2, <1>3, <1>4
<1>6. ToSet(s) \subseteq ToSet(r) /\ x \in ToSet(r)
    BY <1>2, <1>3, <1>4
<1> QED BY <1>1, <1>5, <1>6

\* t_write takes the oldest message of the queue, or prints the one it took.
LEMMA WriterKeepsLine ==
    ASSUME TypeOK, Control, GetMsg \/ PrintConsole(t_write)
    PROVE  Line' = Line
<1>1. /\ console \in Seq(Messages) /\ msgQueue \in Seq(Messages)
      /\ DOMAIN pc = Threads /\ DOMAIN msg = {t_write} /\ t_write \in Threads
    BY DEF TypeOK, Threads
<1>2. CASE GetMsg
    <2>1. /\ msgQueue # <<>> /\ msgQueue' = Tail(msgQueue)
          /\ InHand = <<>> /\ InHand' = <<Head(msgQueue)>> /\ console' = console
        BY <1>1, <1>2 DEF GetMsg, Queue!Get, Goto, InHand
    <2>2. /\ Head(msgQueue) \in Messages /\ Tail(msgQueue) \in Seq(Messages)
          /\ <<Head(msgQueue)>> \in Seq(Messages)
        BY <1>1, <2>1, HeadTailProperties
    <2>3. msgQueue = <<Head(msgQueue)>> \o Tail(msgQueue)
        BY <1>1, <2>1
    <2>4. Line = console \o (<<Head(msgQueue)>> \o Tail(msgQueue))
        BY <1>1, <2>1, <2>3, ConcatEmptySeq DEF Line
    <2>5. Line' = (console \o <<Head(msgQueue)>>) \o Tail(msgQueue)
        BY <2>1 DEF Line
    <2> QED BY <1>1, <2>2, <2>4, <2>5, ConcatAssociative
<1>3. CASE PrintConsole(t_write)
    <2>1. /\ InHand = <<msg[t_write]>> /\ InHand' = <<>> /\ msg[t_write] \in Messages
          /\ console' = Append(console, msg[t_write]) /\ msgQueue' = msgQueue
        BY <1>1, <1>3 DEF PrintConsole, Printing, Goto, InHand, Control
    <2>2. console' = console \o InHand /\ console' \in Seq(Messages)
        BY <1>1, <2>1, AppendIsConcat, AppendProperties
    <2>3. Line' = console' \o msgQueue
        BY <2>1, <2>2, ConcatEmptySeq DEF Line
    <2> QED BY <2>2, <2>3 DEF Line
<1> QED BY <1>2, <1>3

LEMMA PutGrowsLine ==
    ASSUME TypeOK, Control, NEW x \in Messages, msgQueue' = Append(msgQueue, x),
           console' = console, InHand' = InHand
    PROVE  Line' = Append(Line, x)
<1>1. /\ msgQueue \in Seq(Messages) /\ console \o InHand \in Seq(Messages)
      /\ Line \in Seq(Messages) /\ <<x>> \in Seq(Messages)
    BY LineIsASeq DEF TypeOK
<1>2. PICK a \in Seq(Messages) : a = console \o InHand
    BY <1>1
<1>3. Line' = a \o (msgQueue \o <<x>>) /\ Line = a \o msgQueue
    BY <1>1, <1>2, AppendIsConcat DEF Line
<1>4. Append(Line, x) = Line \o <<x>>
    BY <1>1, AppendIsConcat
<1>5. a \o (msgQueue \o <<x>>) = (a \o msgQueue) \o <<x>>
    BY <1>1, ConcatAssociative
<1> QED BY <1>3, <1>4, <1>5

\* When the log is synchronous Line is the console.
LEMMA PrintGrowsLine ==
    ASSUME TypeOK, Control, NEW t \in Callers, PrintConsole(t)
    PROVE  /\ <<t, logged[t]>> \in Messages /\ ~isAsyncLog
           /\ Line = console /\ Line' = Append(Line, <<t, logged[t]>>)
<1>0. /\ pc[t] = "console" /\ pc' = [pc EXCEPT ![t] = "file"]
      /\ console' = Append(console, Printing(t)) /\ msgQueue' = msgQueue
      /\ t # t_write /\ t \in Threads /\ DOMAIN pc = Threads
      /\ console \in Seq(Messages) /\ logged \in [Threads -> 0..MaxLogged]
    BY LoggerAssumption DEF PrintConsole, Goto, TypeOK, Threads
<1>1. /\ console \in Seq(Messages) /\ ~isAsyncLog
      /\ msgQueue = <<>> /\ msgQueue' = <<>> /\ InHand = <<>> /\ InHand' = <<>>
      /\ console' = Append(console, <<t, logged[t]>>) /\ <<t, logged[t]>> \in Messages
    <2>1. ~isAsyncLog /\ msgQueue = <<>> /\ pc[t_write] = "off"
        BY <1>0 DEF Control
    <2>2. logged[t] \in 1..MaxLogged
        BY <1>0, LoggerAssumption DEF Control
    <2>3. Printing(t) = <<t, logged[t]>>
        BY <1>0 DEF Printing
    <2>4. pc'[t_write] = "off"
        BY <1>0, <2>1
    <2> QED BY <1>0, <2>1, <2>2, <2>3, <2>4 DEF InHand, Messages
<1>2. console' \in Seq(Messages)
    BY <1>1, AppendProperties
<1> QED BY <1>1, <1>2, ConcatEmptySeq DEF Line

\* A step that logs nothing.
LEMMA SameLine ==
    ASSUME OnceInOrder, TypeOK', Line' = Line, cut' = cut \/ Lost' = Lost,
           \A t \in Threads : Said(t)' = Said(t)
    PROVE  OnceInOrder' /\ Lost' = Lost
<1>1. Lost' = Lost
    BY DEF Lost
<1>2. {m \in Messages : m[2] <= Said(m[1])}' = {m \in Messages : m[2] <= Said(m[1])}
    BY DEF Messages
<1> QED BY <1>1, <1>2 DEF OnceInOrder

\* A step that logs the message of one thread, its newest.
LEMMA LongerLine ==
    ASSUME Ordered, TypeOK', NEW t \in Threads, logged[t] \in 1..MaxLogged,
           (cut' = cut \/ Lost' = Lost), <<t, logged[t]>> \notin cut,
           Line' = Append(Line, <<t, logged[t]>>),
           Said(t) = logged[t] - 1, Said(t)' = logged[t],
           \A u \in Threads \ {t} : Said(u)' = Said(u)
    PROVE  OnceInOrder' /\ Lost' = Lost
<1> DEFINE x == <<t, logged[t]>>
           L == Line
<1>1. L \in Seq(Messages) /\ x \in Messages
    BY LineIsASeq DEF Ordered, OnceInOrder, Messages
<1>2. /\ L' = Append(L, x) /\ ToSet(L') = ToSet(L) \cup {x}
      /\ Len(L) \in Nat /\ Len(L') = Len(L) + 1 /\ L'[Len(L) + 1] = x
      /\ \A k \in 1..Len(L) : L'[k] = L[k]
    BY <1>1, ToSetGrows, AppendProperties, LenProperties
<1>3. \A m : m \in ToSet(L) <=> \E k \in 1..Len(L) : L[k] = m
    BY <1>1, ToSetIs
<1>4. /\ ToSet(L) = {m \in Messages : m[2] <= Said(m[1])} \ Lost
      /\ \A j, k \in 1..Len(L) : j < k /\ L[j][1] = L[k][1] => L[j][2] < L[k][2]
    BY DEF Ordered, OnceInOrder
<1>5. Lost' = Lost /\ x \notin Lost
    BY <1>2 DEF Lost
<1>6. ToSet(L') = {m \in Messages : m[2] <= Said(m[1])}' \ Lost'
    <2>1. ASSUME NEW m \in Messages
          PROVE  m[2] <= Said(m[1])' <=> m[2] <= Said(m[1]) \/ m = x
        BY DEF Messages
    <2>2. {m \in Messages : m[2] <= Said(m[1])}'
              = {m \in Messages : m[2] <= Said(m[1])} \cup {x}
        BY <1>1, <2>1
    <2> QED BY <1>2, <1>4, <1>5, <2>2
<1>7. ASSUME NEW j \in 1..Len(L'), NEW k \in 1..Len(L'), j < k, L'[j][1] = L'[k][1]
      PROVE  L'[j][2] < L'[k][2]
    <2>1. j \in 1..Len(L) /\ L'[j] = L[j]
        BY <1>2, <1>7
    <2>2. CASE k \in 1..Len(L)
        BY <1>2, <1>4, <1>7, <2>1, <2>2
    <2>3. CASE k = Len(L) + 1
        <3>1. L[j] \in Messages /\ L[j][1] = t /\ L[j][2] <= Said(t)
            BY <1>2, <1>3, <1>4, <1>7, <2>1, <2>3
        <3> QED BY <1>1, <1>2, <2>1, <2>3, <3>1 DEF Messages
    <2> QED BY <1>2, <2>2, <2>3
<1> QED BY <1>5, <1>6, <1>7 DEF OnceInOrder

----------------------------------------------------------------------------
\* A step of a caller that touches neither console, file nor queue

Quiet(t) == Info(t) \/ CallSafeExit(t) \/ LockPrint(t) \/ UnlockPrint(t)
                \/ CheckEmpty(t) \/ Exit(t)

\* What such a step may do with the place and the number of its thread.
LEMMA QuietIs ==
    ASSUME TypeOK, Control, NEW t \in Callers, Quiet(t), UNCHANGED signalVars
    PROVE  /\ UNCHANGED <<isAsyncLog, msgQueue, msg, console, file, cerr>>
           /\ t # t_write /\ t \in Threads /\ TypeOK'
           /\ \A u \in Threads \ {t} : pc'[u] = pc[u] /\ logged'[u] = logged[u]
           /\ pc[t] \notin {"console", "file"} /\ pc'[t] \notin {"file", "off", "get"}
           /\ \/ /\ pc[t] \in {"run", "isEmpty"} /\ pc'[t] = "log"
                 /\ logged'[t] = logged[t] + 1
              \/ /\ pc[t] = "log" /\ pc'[t] = "console" /\ logged'[t] = logged[t]
              \/ /\ pc[t] \notin {"log", "run"} /\ pc'[t] \notin {"log", "console"}
                 /\ logged'[t] = logged[t]
<1> USE LoggerAssumption
<1>1. /\ t # t_write /\ t \in Threads
      /\ pc \in [Threads -> {"off", "run", "log", "get", "console", "file",
                             "unlock", "isEmpty", "exit"}]
      /\ logged \in [Threads -> 0..MaxLogged] /\ exiting \in [Callers -> BOOLEAN]
      /\ printLock \in Callers \cup {Free} /\ exited \in BOOLEAN
    BY DEF Threads, TypeOK
<1>2. UNCHANGED <<isAsyncLog, msgQueue, msg, console, file, cerr>>
    BY DEF Quiet, Info, CallSafeExit, LockPrint, UnlockPrint, CheckEmpty, Exit
\* It begins to log, or takes printLock, or is past logging.
<1>3. \/ /\ pc[t] \in {"run", "isEmpty"} /\ logged[t] < MaxLogged
         /\ logged' = [logged EXCEPT ![t] = @ + 1] /\ pc' = [pc EXCEPT ![t] = "log"]
      \/ /\ pc[t] = "log" /\ pc' = [pc EXCEPT ![t] = "console"] /\ logged' = logged
      \/ /\ pc[t] \in {"unlock", "isEmpty", "exit"} /\ logged' = logged
         /\ \E step \in {"run", "isEmpty", "exit"} : pc' = [pc EXCEPT ![t] = step]
    <2>1. CASE Info(t) \/ CallSafeExit(t)
        BY <2>1 DEF Info, CallSafeExit, Begin, Goto
    <2>2. CASE LockPrint(t)
        BY <2>2 DEF LockPrint, Goto
    <2>3. CASE UnlockPrint(t)
        BY <1>1, <2>3 DEF UnlockPrint, Goto, AfterLog
    <2>4. CASE CheckEmpty(t)
        BY <2>4 DEF CheckEmpty, Begin, Goto
    <2>5. CASE Exit(t)
        <3>1. pc[t] = "exit" /\ pc' = [pc EXCEPT ![t] = "exit"] /\ logged' = logged
            BY <1>1, <2>5 DEF Exit
        <3> QED BY <3>1
    <2> QED BY <2>1, <2>2, <2>3, <2>4, <2>5 DEF Quiet
<1>4. /\ printLock' \in Callers \cup {Free} /\ exited' \in BOOLEAN
      /\ exiting' \in [Callers -> BOOLEAN]
    BY <1>1 DEF Quiet, Info, CallSafeExit, LockPrint, UnlockPrint, CheckEmpty, Exit
<1>5. /\ pc' \in [Threads -> {"off", "run", "log", "get", "console", "file",
                              "unlock", "isEmpty", "exit"}]
      /\ logged' \in [Threads -> 0..MaxLogged]
    BY <1>1, <1>3
<1>6. TypeOK'
    BY <1>2, <1>4, <1>5 DEF TypeOK, signalVars
<1> QED BY <1>1, <1>2, <1>3, <1>6

LEMMA QuietKeepsControl ==
    ASSUME TypeOK, Control, NEW t \in Callers, Quiet(t), UNCHANGED signalVars
    PROVE  Control'
<1>1. /\ UNCHANGED <<isAsyncLog, msgQueue, msg>> /\ t # t_write /\ t \in Threads
      /\ \A u \in Threads \ {t} : pc'[u] = pc[u] /\ logged'[u] = logged[u]
      /\ pc'[t] \notin {"off", "get"} /\ pc'[t] # "file"
      /\ logged'[t] >= logged[t] /\ (pc[t] = "run" => logged'[t] = logged[t] + 1)
      /\ logged[t] \in Nat /\ logged'[t] \in Nat
      /\ t_write \in Threads \ {t} /\ Callers \subseteq Threads
    <2>1. /\ UNCHANGED <<isAsyncLog, msgQueue, msg>> /\ t # t_write /\ t \in Threads
          /\ \A u \in Threads \ {t} : pc'[u] = pc[u] /\ logged'[u] = logged[u]
          /\ pc'[t] \notin {"file", "off", "get"}
          /\ logged'[t] = logged[t] \/ logged'[t] = logged[t] + 1
          /\ pc[t] = "run" => logged'[t] = logged[t] + 1
        BY QuietIs
    <2>2. logged[t] \in 0..MaxLogged
        BY <2>1 DEF TypeOK
    <2>3. t_write \in Threads /\ Callers \subseteq Threads
        BY DEF Threads
    <2> QED BY <2>1, <2>2, <2>3
<1>2. /\ \A u \in Callers : pc'[u] \notin {"off", "get"}
      /\ \A u \in Callers : pc'[u] # "run" => logged'[u] > 0
      /\ pc'[t_write] = pc[t_write] /\ logged'[t_write] = logged[t_write]
    BY <1>1 DEF Control
<1>3. pc'[t] \in {"console", "unlock"} => ~isAsyncLog /\ printLock' = t
    BY LoggerAssumption, <1>1 DEF Quiet, Info, CallSafeExit, LockPrint, UnlockPrint, CheckEmpty, Exit,
           Begin, Goto, AfterLog, TypeOK, Threads
<1>4. \A u \in Callers \ {t} :
          ~isAsyncLog /\ pc[u] \in {"console", "file", "unlock"} => printLock' = u
    BY <1>1, LoggerAssumption
       DEF Quiet, Info, CallSafeExit, LockPrint, UnlockPrint, CheckEmpty, Exit, Control
<1> QED BY <1>1, <1>2, <1>3, <1>4 DEF Control

\* Who sees an empty queue has all but the last of its messages printed: the
\* one in the hand of t_write is the newest there is.
LEMMA EmptyMeansPrinted ==
    ASSUME Ordered, NEW t \in Callers, pc[t] = "isEmpty", msgQueue = <<>>,
           NEW n \in 1..(logged[t] - 1)
    PROVE  <<t, n>> \in ToSet(console) \cup Lost
<1> DEFINE last == <<t, logged[t]>>
<1>1. /\ t \in Threads /\ t # t_write /\ logged[t] \in 1..MaxLogged
      /\ Said(t) = logged[t] /\ MaxLogged \in Nat
    BY LoggerAssumption DEF Ordered, OnceInOrder, TypeOK, Control, Threads, Said
<1>2. /\ <<t, n>> \in Messages /\ <<t, n>>[1] = t /\ <<t, n>>[2] = n
      /\ last \in Messages /\ last[1] = t /\ last[2] = logged[t]
    BY <1>1 DEF Messages
<1>3. <<t, n>> \in ToSet(Line) \/ <<t, n>> \in Lost
    BY <1>1, <1>2 DEF Ordered, OnceInOrder
<1>4. last \in ToSet(Line)
    <2>1. last \notin cut
        BY <1>1, <1>2 DEF Ordered, Signal, OnceInOrder, TypeOK
    <2> QED BY <1>1, <1>2, <2>1 DEF Ordered, OnceInOrder, Lost
<1>5. CASE <<t, n>> \in ToSet(Line) /\ <<t, n>> \notin ToSet(console)
    <2>1. /\ Line \in Seq(Messages) /\ InHand \in Seq(Messages)
          /\ console \in Seq(Messages) /\ msgQueue \in Seq(Messages)
          /\ ToSet(Line) = ToSet(console) \cup ToSet(InHand) \cup ToSet(msgQueue)
        BY LineIsASeq, PartsOfLine DEF Ordered, OnceInOrder, TypeOK
    <2>2. <<t, n>> \in ToSet(InHand)
        <3>1. ToSet(msgQueue) = {}
            BY DEF ToSet
        <3> QED BY <1>5, <2>1, <3>1
    <2>3. InHand = <<<<t, n>>>>
        <3>1. CASE pc[t_write] = "console"
            <4>1. InHand = <<msg[t_write]>> /\ Len(InHand) = 1 /\ InHand[1] = msg[t_write]
                BY <3>1 DEF InHand
            <4>2. PICK k \in 1..Len(InHand) : InHand[k] = <<t, n>>
                BY <2>1, <2>2, ToSetIs
            <4> QED BY <4>1, <4>2
        <3>2. CASE pc[t_write] # "console"
            BY <2>2, <3>2 DEF InHand, ToSet
        <3> QED BY <3>1, <3>2
    <2>4. /\ Len(Line) = Len(console) + 1 /\ Len(console) \in Nat
          /\ Line[Len(Line)] = <<t, n>>
        <3>1. Line = Append(console, <<t, n>>)
            <4>1. Append(console, <<t, n>>) = console \o InHand
                BY <1>2, <2>1, <2>3, AppendIsConcat
            <4>2. Append(console, <<t, n>>) \in Seq(Messages)
                BY <1>2, <2>1, AppendProperties
            <4> QED BY <4>1, <4>2, ConcatEmptySeq DEF Line
        <3> QED BY <1>2, <2>1, <3>1, AppendProperties, LenProperties
    <2>5. PICK k \in 1..Len(Line) : Line[k] = last
        BY <1>4, <2>1, ToSetIs
    <2>6. k < Len(Line)
        BY <1>1, <1>2, <2>4, <2>5
    <2>7. logged[t] < n
        <3>1. Len(Line) \in 1..Len(Line)
            BY <2>4
        <3> QED BY <1>2, <2>4, <2>5, <2>6, <3>1 DEF Ordered, OnceInOrder
    <2> QED BY <1>1, <2>7
<1> QED BY <1>3, <1>5

LEMMA QuietKeeps ==
    ASSUME IndInv, NEW t \in Callers, Quiet(t), UNCHANGED signalVars
    PROVE  IndInv'
<1> USE DEF IndInv, Ordered
<1>1. /\ UNCHANGED <<isAsyncLog, msgQueue, msg, console, file, cerr>>
      /\ t # t_write /\ t \in Threads /\ t_write \in Threads /\ TypeOK /\ TypeOK'
      /\ \A u \in Threads \ {t} : pc'[u] = pc[u] /\ logged'[u] = logged[u]
      /\ pc[t] # "file" /\ pc'[t] # "file" /\ UNCHANGED <<cut, interrupted, queueHeld>>
    BY QuietIs DEF OnceInOrder, signalVars, Threads
<1>2. logged[t] \in Nat /\ logged'[t] \in Nat /\ logged[t] <= logged'[t] /\ Said(t)' = Said(t)
    <2>1. logged[t] \in Nat /\ logged'[t] \in Nat
        BY <1>1 DEF TypeOK
    <2>2. \/ /\ pc[t] \in {"run", "isEmpty"} /\ pc'[t] = "log"
             /\ logged'[t] = logged[t] + 1
          \/ /\ pc[t] = "log" /\ pc'[t] = "console" /\ logged'[t] = logged[t]
          \/ /\ pc[t] # "log" /\ pc'[t] \notin {"log", "console"}
             /\ logged'[t] = logged[t]
        BY <1>1, QuietIs
    <2>3. pc[t] # "console"
        BY <1>1, QuietIs
    <2> QED BY <1>1, <2>1, <2>2, <2>3 DEF Said
<1>3. \A u \in Threads : Said(u)' = Said(u)
    BY <1>1, <1>2 DEF Said
<1>4. Line' = Line
    BY <1>1 DEF Line, InHand
<1>5. OnceInOrder' /\ Lost' = Lost
    BY <1>1, <1>3, <1>4, SameLine
<1>6. Control'
    BY <1>1, QuietKeepsControl
<1>7. Signal'
    <2>1. logged[Main] \in Nat /\ logged'[Main] \in Nat /\ logged[Main] <= logged'[Main]
        <3>1. Main \in Threads /\ logged \in [Threads -> 0..MaxLogged]
            BY <1>1, LoggerAssumption DEF TypeOK, Threads
        <3>2. CASE Main = t
            BY <1>2, <3>2
        <3>3. CASE Main # t
            BY <1>1, <3>1, <3>3
        <3> QED BY <3>2, <3>3
    <2>2. \A m \in cut : m[2] \in Nat
        BY <1>1 DEF TypeOK, Messages
    <2>3. pc'[t_write] = pc[t_write]
        BY <1>1
    <2>4. \A m \in cut : m[1] = Main /\ m[2] < logged'[Main]
        BY <2>1, <2>2 DEF Signal
    <2>5. \A k \in 1..Len(msgQueue') : msgQueue'[k] \in cut' => queueHeld'
        BY <1>1 DEF Signal
    <2>6. /\ ~interrupted' => cut' = {} /\ ~queueHeld'
          /\ \A m, n \in cut' : m = n
          /\ pc'[t_write] = "console" => msg'[t_write] \notin cut'
        BY <1>1, <2>3 DEF Signal
    <2> QED BY <1>1, <2>4, <2>5, <2>6 DEF Signal
<1>8. FileFollowsConsole'
    <2>1. (\E u \in Threads : pc'[u] = "file") <=> (\E u \in Threads : pc[u] = "file")
        BY <1>1
    <2>2. file' = file /\ console' = console
        BY <1>1
    <2>3. FileInOrder'
        BY <2>2 DEF FileFollowsConsole, FileInOrder
    <2>4. Missing' = Missing
        BY <1>1, <2>1 DEF Missing
    <2> QED BY <2>2, <2>3, <2>4 DEF FileFollowsConsole
<1>9. Writing'
    <2> SUFFICES ASSUME NEW u \in Threads, pc'[u] = "file"
                 PROVE  /\ console # <<>> /\ console[Len(console)] = Printing(u)'
                        /\ \A j \in 1..Len(file) : file[j] # Printing(u)'
        BY <1>1 DEF Writing
    <2>1. u # t /\ Printing(u)' = Printing(u) /\ pc[u] = "file"
        BY <1>1 DEF Printing
    <2> QED BY <2>1 DEF Writing
<1>10. Exiting'
    <2> SUFFICES ASSUME NEW u \in Callers, pc'[u] = "exit", NEW n \in 1..(logged'[u] - 1)
                 PROVE  <<u, n>> \in ToSet(console) \cup Lost
        BY <1>1, <1>5 DEF Exiting
    <2>1. CASE u # t
        BY <1>1, <2>1 DEF Exiting, Threads
    <2>2. CASE u = t /\ pc[t] = "exit"
        <3>1. logged'[t] = logged[t]
            BY <1>1, <2>2, QuietIs
        <3> QED BY <2>2, <3>1 DEF Exiting
    <2>3. CASE u = t /\ pc[t] # "exit"
        <3>1. CheckEmpty(t)
            <4>1. ~Exit(t)
                BY <2>3 DEF Exit
            <4>2. DOMAIN pc = Threads
                BY <1>1 DEF TypeOK
            <4> QED BY <1>1, <2>3, <4>1, <4>2
                    DEF Quiet, Info, CallSafeExit, LockPrint, UnlockPrint, Begin, Goto, AfterLog
        <3>2. pc[t] = "isEmpty" /\ msgQueue = <<>> /\ logged' = logged
            BY <1>1, <2>3, <3>1 DEF CheckEmpty, Begin, Goto, TypeOK
        <3> QED BY <2>3, <3>2, EmptyMeansPrinted
    <2> QED BY <2>1, <2>2, <2>3
<1> QED BY <1>5, <1>6, <1>7, <1>8, <1>9, <1>10

----------------------------------------------------------------------------
\* The queue

\* A thread that logs has begun a message that SIGINT did not cut off.
LEMMA NewestIsAMessage ==
    ASSUME Ordered, NEW t \in Threads, pc[t] \in {"log", "console"},
           pc[t] = "console" => t # t_write
    PROVE  /\ logged[t] \in 1..MaxLogged /\ <<t, logged[t]>> \in Messages
           /\ <<t, logged[t]>> \notin cut
           /\ Said(t) = logged[t] - 1
<1> USE DEF Ordered
<1>1. /\ logged \in [Threads -> 0..MaxLogged] /\ cut \subseteq Messages
      /\ MaxLogged \in Nat \ {0}
    BY LoggerAssumption DEF OnceInOrder, TypeOK
<1>2. logged[t] > 0
    <2>1. CASE t \in Callers
        BY <2>1 DEF Control
    <2>2. CASE t = t_write
        BY <2>2, LoggerAssumption DEF Control
    <2> QED BY <2>1, <2>2 DEF Threads
<1>3. logged[t] \in 1..MaxLogged
    BY <1>1, <1>2
<1>4. <<t, logged[t]>> \notin cut
    <2> SUFFICES ASSUME <<t, logged[t]>> \in cut PROVE FALSE
        OBVIOUS
    <2>1. t = Main /\ logged[t] < logged[Main]
        BY DEF Signal
    <2> QED BY <1>3, <2>1
<1> QED BY <1>3, <1>4 DEF Messages, Said

\* A step that prints nothing and after which the same thread, if any, writes
\* to the file.
LEMMA FileStays ==
    ASSUME IndInv, UNCHANGED <<console, file, cerr, cut>>,
           \A u \in Threads : /\ pc'[u] = "file" <=> pc[u] = "file"
                              /\ pc[u] = "file" => Printing(u)' = Printing(u)
    PROVE  FileFollowsConsole' /\ Writing'
<1>1. file' = file /\ console' = console /\ cerr' = cerr /\ cut' = cut
    OBVIOUS
<1>2. FileInOrder'
    BY <1>1 DEF IndInv, FileFollowsConsole, FileInOrder
<1>3. Missing' = Missing
    <2>1. (\E u \in Threads : pc'[u] = "file") <=> (\E u \in Threads : pc[u] = "file")
        OBVIOUS
    <2> QED BY <1>1, <2>1 DEF Missing
<1>4. Writing'
    BY <1>1 DEF IndInv, Writing
<1> QED BY <1>1, <1>2, <1>3, <1>4 DEF IndInv, FileFollowsConsole

LEMMA EnqueueKeeps ==
    ASSUME IndInv, NEW t \in Threads, Enqueue(t), UNCHANGED signalVars
    PROVE  IndInv'
<1> USE LoggerAssumption DEF IndInv, Ordered
<1> DEFINE x == <<t, logged[t]>>
<1>1. /\ pc[t] = "log" /\ isAsyncLog /\ ~queueHeld
      /\ msgQueue' = Append(msgQueue, x)
      /\ \E step \in {"get", "isEmpty", "run"} : pc' = [pc EXCEPT ![t] = step]
      /\ t = t_write <=> pc'[t] = "get"
      /\ UNCHANGED <<isAsyncLog, msg, printLock, exiting, logged, console, file, cerr,
                     exited, interrupted, cut, queueHeld>>
      /\ t_write \in Threads /\ Callers \subseteq Threads
      /\ pc \in [Threads -> {"off", "run", "log", "get", "console", "file",
                             "unlock", "isEmpty", "exit"}]
    BY DEF Enqueue, Queue!Put, Goto, AfterLog, signalVars, Threads, OnceInOrder, TypeOK
<1>2. /\ \A u \in Threads \ {t} : pc'[u] = pc[u]
      /\ pc'[t] \in {"get", "isEmpty", "run"}
    BY <1>1
<1>3. /\ x \in Messages /\ x \notin cut /\ logged[t] \in 1..MaxLogged
      /\ Said(t) = logged[t] - 1
    BY <1>1, NewestIsAMessage
<1>4. TypeOK'
    <2>1. msgQueue' \in Seq(Messages)
        BY <1>1, <1>3, AppendProperties DEF OnceInOrder, TypeOK
    <2>2. pc' \in [Threads -> {"off", "run", "log", "get", "console", "file",
                               "unlock", "isEmpty", "exit"}]
        BY <1>1
    <2> QED BY <1>1, <2>1, <2>2 DEF OnceInOrder, TypeOK
<1>5. Line' = Append(Line, x)
    <2>1. InHand' = InHand
        BY <1>1, <1>2 DEF InHand
    <2> QED BY <1>1, <1>3, <2>1, PutGrowsLine DEF OnceInOrder
<1>6. OnceInOrder' /\ Lost' = Lost
    <2>1. Said(t)' = logged[t] /\ \A u \in Threads \ {t} : Said(u)' = Said(u)
        BY <1>1, <1>2 DEF Said
    <2> QED BY <1>1, <1>3, <1>4, <1>5, <2>1, LongerLine
<1>7. Control'
    BY <1>1, <1>2 DEF Control
<1>8. Signal'
    <2>1. \A k \in 1..Len(msgQueue') : msgQueue'[k] \notin cut
        <3>1. /\ Len(msgQueue') = Len(msgQueue) + 1 /\ msgQueue'[Len(msgQueue) + 1] = x
              /\ \A k \in 1..Len(msgQueue) : msgQueue'[k] = msgQueue[k]
              /\ Len(msgQueue) \in Nat
            BY <1>1, <1>3, AppendProperties, LenProperties DEF OnceInOrder, TypeOK
        <3>2. \A k \in 1..Len(msgQueue) : msgQueue[k] \notin cut
            BY <1>1 DEF Signal
        <3> QED BY <1>3, <3>1, <3>2
    <2>2. pc'[t_write] = "console" => pc[t_write] = "console"
        BY <1>1, <1>2
    <2> QED BY <1>1, <2>1, <2>2 DEF Signal
<1>9. FileFollowsConsole' /\ Writing'
    <2>1. \A u \in Threads : /\ pc'[u] = "file" <=> pc[u] = "file"
                             /\ Printing(u)' = Printing(u)
        BY <1>1, <1>2 DEF Printing
    <2> QED BY <1>1, <2>1, FileStays
<1>10. Exiting'
    <2>1. \A u \in Callers : pc'[u] = "exit" => pc[u] = "exit"
        BY <1>1, <1>2
    <2> QED BY <1>1, <1>6, <2>1 DEF Exiting
<1> QED BY <1>6, <1>7, <1>8, <1>9, <1>10

LEMMA GetMsgKeeps ==
    ASSUME IndInv, GetMsg, UNCHANGED signalVars
    PROVE  IndInv'
<1> USE LoggerAssumption DEF IndInv, Ordered
<1>1. /\ pc[t_write] = "get" /\ ~queueHeld /\ msgQueue # <<>>
      /\ msgQueue' = Tail(msgQueue) /\ msg' = [msg EXCEPT ![t_write] = Head(msgQueue)]
      /\ pc' = [pc EXCEPT ![t_write] = "console"]
      /\ UNCHANGED <<isAsyncLog, printLock, exiting, logged, console, file, cerr,
                     exited, interrupted, cut, queueHeld>>
      /\ t_write \in Threads /\ Callers \subseteq Threads /\ t_write \notin Callers
      /\ pc \in [Threads -> {"off", "run", "log", "get", "console", "file",
                             "unlock", "isEmpty", "exit"}]
      /\ msg \in [{t_write} -> Messages \cup {Nothing}] /\ msgQueue \in Seq(Messages)
    BY DEF GetMsg, Queue!Get, Goto, signalVars, Threads, OnceInOrder, TypeOK
<1>2. /\ \A u \in Threads \ {t_write} : pc'[u] = pc[u]
      /\ pc'[t_write] = "console" /\ msg'[t_write] = Head(msgQueue)
    BY <1>1
<1>3. /\ Head(msgQueue) = msgQueue[1] /\ Head(msgQueue) \in Messages
      /\ msgQueue' \in Seq(Messages) /\ Len(msgQueue) \in Nat \ {0}
      /\ \A k \in 1..Len(msgQueue') :
            k + 1 \in 1..Len(msgQueue) /\ msgQueue'[k] = msgQueue[k + 1]
    BY <1>1, HeadTailProperties, LenProperties
<1>4. TypeOK'
    <2>1. /\ msg' \in [{t_write} -> Messages \cup {Nothing}]
          /\ pc' \in [Threads -> {"off", "run", "log", "get", "console", "file",
                                  "unlock", "isEmpty", "exit"}]
        BY <1>1, <1>3
    <2> QED BY <1>1, <1>3, <2>1 DEF OnceInOrder, TypeOK
<1>5. OnceInOrder' /\ Lost' = Lost
    <2>1. Line' = Line
        BY WriterKeepsLine DEF OnceInOrder
    <2>2. \A u \in Threads : Said(u)' = Said(u)
        BY <1>1, <1>2 DEF Said
    <2> QED BY <1>1, <1>4, <2>1, <2>2, SameLine
<1>6. Control'
    <2>1. isAsyncLog
        BY <1>1 DEF Control
    <2>2. \A u \in Callers : pc'[u] = pc[u]
        BY <1>1, <1>2
    <2> QED BY <1>1, <1>2, <1>3, <2>1, <2>2 DEF Control
<1>7. Signal'
    <2>1. \A k \in 1..Len(msgQueue) : msgQueue[k] \notin cut
        BY <1>1 DEF Signal
    <2>2. /\ msg'[t_write] \notin cut
          /\ \A k \in 1..Len(msgQueue') : msgQueue'[k] \notin cut
        BY <1>2, <1>3, <2>1
    <2> QED BY <1>1, <2>2 DEF Signal
<1>8. FileFollowsConsole' /\ Writing'
    <2>1. \A u \in Threads : /\ pc'[u] = "file" <=> pc[u] = "file"
                             /\ pc[u] = "file" => Printing(u)' = Printing(u)
        BY <1>1, <1>2 DEF Printing
    <2> QED BY <1>1, <2>1, FileStays
<1>9. Exiting'
    <2>1. \A u \in Callers : pc'[u] = pc[u]
        BY <1>1, <1>2
    <2> QED BY <1>1, <1>5, <2>1 DEF Exiting
<1> QED BY <1>5, <1>6, <1>7, <1>8, <1>9

----------------------------------------------------------------------------
\* Console and file

\* Only one thread is between the two writes of a message, or before the first.
LEMMA OnePrints ==
    ASSUME TypeOK, Control, NEW t \in Threads, pc[t] \in {"console", "file"}
    PROVE  \A u \in Threads \ {t} : pc[u] \notin {"console", "file"}
<1> USE LoggerAssumption DEF Threads
<1>1. CASE isAsyncLog
    BY <1>1 DEF Control
<1>2. CASE ~isAsyncLog
    <2>1. t \in Callers /\ printLock = t
        BY <1>2 DEF Control
    <2> QED BY <1>2, <2>1 DEF Control
<1> QED BY <1>1, <1>2 DEF TypeOK

\* What is about to be printed is a message that is not on the console.
LEMMA PrintingIsNew ==
    ASSUME Ordered, NEW t \in Threads, pc[t] = "console"
    PROVE  /\ Printing(t) \in Messages /\ Printing(t) \notin cut
           /\ \A k \in 1..Len(console) : console[k] # Printing(t)
<1> USE LoggerAssumption DEF Ordered
<1>1. /\ Line \in Seq(Messages) /\ console \in Seq(Messages) /\ InHand \in Seq(Messages)
      /\ msgQueue \in Seq(Messages) /\ console \o InHand \in Seq(Messages)
      /\ \A k \in 1..Len(console) : k \in 1..Len(Line) /\ Line[k] = console[k]
    BY LineIsASeq, PartsOfLine DEF OnceInOrder, TypeOK
<1>2. CASE t = t_write
    <2>1. /\ Printing(t) = msg[t_write] /\ InHand = <<Printing(t)>>
          /\ Printing(t) \in Messages /\ Printing(t) \notin cut
        BY <1>2 DEF Printing, InHand, Control, Signal
    <2>2. PICK n \in Nat : n = Len(console)
        BY <1>1, LenProperties
    <2>3. n + 1 \in 1..Len(Line) /\ Line[n + 1] = Printing(t)
        <3>1. /\ Len(console \o InHand) = n + 1
              /\ (console \o InHand)[n + 1] = Printing(t)
            <4>1. console \o InHand = Append(console, Printing(t))
                BY <1>1, <2>1, AppendIsConcat
            <4> QED BY <1>1, <2>1, <2>2, <4>1, AppendProperties
        <3>2. /\ Len(Line) = Len(console \o InHand) + Len(msgQueue) /\ Len(msgQueue) \in Nat
              /\ \A k \in 1..(Len(console \o InHand) + Len(msgQueue)) :
                    Line[k] = IF k <= Len(console \o InHand) THEN (console \o InHand)[k]
                              ELSE msgQueue[k - Len(console \o InHand)]
            BY <1>1, ConcatProperties, LenProperties DEF Line
        <3>3. n + 1 \in 1..(Len(console \o InHand) + Len(msgQueue))
            BY <3>1, <3>2
        <3> QED BY <3>1, <3>2, <3>3
    <2>4. ASSUME NEW k \in 1..Len(console), console[k] = Printing(t) PROVE FALSE
        <3>1. k \in 1..Len(Line) /\ Line[k] = Line[n + 1] /\ k < n + 1
            BY <1>1, <2>2, <2>3, <2>4
        <3>2. Line[k][2] < Line[k][2]
            BY <2>3, <3>1 DEF OnceInOrder
        <3>3. Line[k] \in Messages
            BY <1>1, <3>1, ElementOfSeq
        <3> QED BY <3>2, <3>3 DEF Messages
    <2> QED BY <2>1, <2>4
<1>3. CASE t # t_write
    <2>1. /\ Printing(t) = <<t, logged[t]>> /\ Said(t) = logged[t] - 1
          /\ logged[t] \in 1..MaxLogged
          /\ Printing(t) \in Messages /\ Printing(t) \notin cut
        BY <1>3, NewestIsAMessage DEF Printing
    <2>2. Printing(t)[1] = t /\ Printing(t)[2] = logged[t]
        BY <2>1
    <2>3. ~(Printing(t)[2] <= Said(Printing(t)[1]))
        BY <2>1, <2>2
    <2>4. Printing(t) \notin ToSet(Line)
        BY <2>3 DEF OnceInOrder
    <2>5. \A k \in 1..Len(Line) : Line[k] # Printing(t)
        BY <1>1, <2>4, ToSetIs
    <2>6. \A k \in 1..Len(console) : console[k] # Printing(t)
        BY <1>1, <2>5
    <2> QED BY <2>1, <2>6
<1> QED BY <1>2, <1>3

LEMMA PrintConsoleKeeps ==
    ASSUME IndInv, NEW t \in Threads, PrintConsole(t), UNCHANGED signalVars
    PROVE  IndInv'
<1> USE LoggerAssumption DEF IndInv, Ordered
<1>1. PICK x : x = Printing(t)
    OBVIOUS
<1>2. /\ pc[t] = "console" /\ console' = Append(console, x)
      /\ pc' = [pc EXCEPT ![t] = "file"]
      /\ UNCHANGED <<isAsyncLog, msgQueue, msg, printLock, exiting, logged, file, cerr,
                     exited, interrupted, cut, queueHeld>>
      /\ t_write \in Threads /\ Callers \subseteq Threads
      /\ pc \in [Threads -> {"off", "run", "log", "get", "console", "file",
                             "unlock", "isEmpty", "exit"}]
      /\ console \in Seq(Messages) /\ file \in Seq(Messages)
    BY <1>1 DEF PrintConsole, Goto, signalVars, Threads, OnceInOrder, TypeOK
<1>3. /\ \A u \in Threads \ {t} : pc'[u] = pc[u] /\ pc[u] \notin {"console", "file"}
      /\ pc'[t] = "file"
    BY <1>2, OnePrints DEF OnceInOrder
<1>4. /\ x \in Messages /\ x \notin cut /\ \A k \in 1..Len(console) : console[k] # x
      /\ x \notin ToSet(console)
    BY <1>1, <1>2, PrintingIsNew, ToSetIs
<1>5. /\ console' \in Seq(Messages) /\ ToSet(console') = ToSet(console) \cup {x}
      /\ Len(console) \in Nat /\ Len(console') = Len(console) + 1
      /\ console'[Len(console) + 1] = x
      /\ \A k \in 1..Len(console) : console'[k] = console[k]
    BY <1>2, <1>4, AppendProperties, LenProperties, ToSetGrows
<1>6. TypeOK'
    <2>1. pc' \in [Threads -> {"off", "run", "log", "get", "console", "file",
                               "unlock", "isEmpty", "exit"}]
        BY <1>2
    <2> QED BY <1>2, <1>5, <2>1 DEF OnceInOrder, TypeOK
<1>7. OnceInOrder' /\ Lost' = Lost
    <2>1. CASE t = t_write
        <3>1. Line' = Line
            BY <2>1, WriterKeepsLine DEF OnceInOrder
        <3>2. \A u \in Threads : Said(u)' = Said(u)
            BY <1>2, <1>3, <2>1 DEF Said
        <3> QED BY <1>2, <1>6, <3>1, <3>2, SameLine
    <2>2. CASE t # t_write
        <3>1. t \in Callers
            BY <2>2 DEF Threads
        <3>2. Line' = Append(Line, <<t, logged[t]>>)
            BY <3>1, PrintGrowsLine DEF OnceInOrder
        <3>3. /\ logged[t] \in 1..MaxLogged /\ <<t, logged[t]>> \notin cut
              /\ Said(t) = logged[t] - 1
            BY <1>2, <2>2, NewestIsAMessage
        <3>4. Said(t)' = logged[t] /\ \A u \in Threads \ {t} : Said(u)' = Said(u)
            BY <1>2, <1>3 DEF Said
        <3> QED BY <1>2, <1>6, <3>2, <3>3, <3>4, LongerLine
    <2> QED BY <2>1, <2>2
<1>8. Control'
    BY <1>2, <1>3 DEF Control
<1>9. Signal'
    BY <1>2, <1>3 DEF Signal
<1>10. FileInOrder'
    <2>1. ToSet(file') \subseteq ToSet(console') /\ x \notin ToSet(file)
        BY <1>2, <1>4, <1>5 DEF FileFollowsConsole, FileInOrder
    <2>2. \A j \in 1..Len(file) : file[j] # x
        BY <1>2, <2>1, ToSetIs
    <2>3. ASSUME NEW j \in 1..Len(file), NEW p \in 1..Len(console'), console'[p] = file[j]
          PROVE  p \in 1..Len(console) /\ console[p] = file[j]
        BY <1>5, <2>2, <2>3
    <2>4. ASSUME NEW j \in 1..Len(file), NEW k \in 1..Len(file), j < k,
                 NEW p \in 1..Len(console'), NEW q \in 1..Len(console'),
                 console'[p] = file[j], console'[q] = file[k]
          PROVE  p < q
        BY <2>3, <2>4 DEF FileFollowsConsole, FileInOrder
    <2> QED BY <1>2, <2>1, <2>4 DEF FileInOrder
<1>11. FileFollowsConsole'
    <2>1. cut' \cap ToSet(console') = cut \cap ToSet(console)
        BY <1>2, <1>4, <1>5
    <2>2. /\ ~\E u \in Threads : pc[u] = "file"
          /\ \E u \in Threads : pc'[u] = "file"
        BY <1>2, <1>3
    <2>3. IsFiniteSet(cut \cap ToSet(console))
        <3>1. cut \cap ToSet(console) = {} \/ \E m : cut \cap ToSet(console) = {m}
            BY DEF Signal
        <3> QED BY <3>1, FS_EmptySet, FS_Singleton
    <2>4. Cardinality(cut \cap ToSet(console)) \in Nat /\ cerr \in Nat
        BY <2>3, FS_CardinalityType DEF OnceInOrder, TypeOK
    <2>5. Missing' = Missing + 1
        <3>1. Missing = cerr + 0 + Cardinality(cut \cap ToSet(console))
            BY <2>2 DEF Missing
        <3>2. Missing' = cerr' + 1 + Cardinality(cut' \cap ToSet(console'))
            BY <2>2 DEF Missing
        <3>3. Missing' = cerr + 1 + Cardinality(cut \cap ToSet(console))
            BY <1>2, <2>1, <3>2
        <3> QED BY <2>4, <3>1, <3>3
    <2>6. Missing \in Nat /\ Len(file) \in Nat
        BY <1>2, <2>2, <2>4, LenProperties DEF Missing
    <2> QED BY <1>2, <1>5, <1>10, <2>5, <2>6 DEF FileFollowsConsole
<1>12. Writing'
    <2>1. Printing(t)' = x
        BY <1>1, <1>2 DEF Printing
    <2>2. \A j \in 1..Len(file) : file[j] # x
        BY <1>2, <1>4, ToSetIs DEF FileFollowsConsole, FileInOrder
    <2>3. console' # <<>> /\ console'[Len(console')] = x
        BY <1>5
    <2> QED BY <1>2, <1>3, <2>1, <2>2, <2>3 DEF Writing
<1>13. Exiting'
    <2>1. \A u \in Callers : pc'[u] = "exit" => pc[u] = "exit"
        BY <1>2, <1>3
    <2> QED BY <1>2, <1>5, <1>7, <2>1 DEF Exiting
<1> QED BY <1>7, <1>8, <1>9, <1>11, <1>12, <1>13

LEMMA WriteFileKeeps ==
    ASSUME IndInv, NEW t \in Threads, WriteFile(t), UNCHANGED signalVars
    PROVE  IndInv'
<1> USE LoggerAssumption DEF IndInv, Ordered
<1>1. PICK x : x = Printing(t)
    OBVIOUS
<1>2. /\ pc[t] = "file"
      /\ \/ file' = Append(file, x) /\ cerr' = cerr
         \/ cerr < MaxFailures /\ cerr' = cerr + 1 /\ file' = file
      /\ pc' = [pc EXCEPT ![t] = IF t = t_write THEN "get" ELSE "unlock"]
      /\ UNCHANGED <<isAsyncLog, msgQueue, msg, printLock, exiting, logged, console,
                     exited, interrupted, cut, queueHeld>>
      /\ t_write \in Threads /\ Callers \subseteq Threads
      /\ pc \in [Threads -> {"off", "run", "log", "get", "console", "file",
                             "unlock", "isEmpty", "exit"}]
      /\ console \in Seq(Messages) /\ file \in Seq(Messages) /\ cerr \in 0..MaxFailures
    <2>1. /\ t_write \in Threads /\ Callers \subseteq Threads
          /\ pc \in [Threads -> {"off", "run", "log", "get", "console", "file",
                                 "unlock", "isEmpty", "exit"}]
          /\ console \in Seq(Messages) /\ file \in Seq(Messages)
          /\ cerr \in 0..MaxFailures
        BY DEF Threads, OnceInOrder, TypeOK
    <2>2. /\ pc[t] = "file"
          /\ pc' = [pc EXCEPT ![t] = IF t = t_write THEN "get" ELSE "unlock"]
          /\ UNCHANGED <<isAsyncLog, msgQueue, msg, printLock, exiting, logged, console,
                         exited, interrupted, cut, queueHeld>>
        BY DEF WriteFile, Goto, signalVars
    <2>3. \/ file' = Append(file, x) /\ cerr' = cerr
          \/ cerr < MaxFailures /\ cerr' = cerr + 1 /\ file' = file
        BY <1>1 DEF WriteFile
    <2> QED BY <2>1, <2>2, <2>3
<1>3. /\ \A u \in Threads \ {t} : pc'[u] = pc[u] /\ pc[u] \notin {"console", "file"}
      /\ pc'[t] = IF t = t_write THEN "get" ELSE "unlock"
    BY <1>2, OnePrints DEF OnceInOrder
<1>4. /\ Len(console) \in Nat \ {0} /\ console[Len(console)] = x /\ x \in Messages
      /\ \A j \in 1..Len(file) : file[j] # x
    <2>1. console # <<>> /\ console[Len(console)] = x /\ \A j \in 1..Len(file) : file[j] # x
        BY <1>1, <1>2 DEF Writing
    <2>2. Len(console) \in Nat \ {0}
        BY <1>2, <2>1, EmptySeq
    <2> QED BY <1>2, <2>1, <2>2, ElementOfSeq
<1>5. file' \in Seq(Messages) /\ cerr' \in 0..MaxFailures
    <2>1. CASE file' = Append(file, x) /\ cerr' = cerr
        BY <1>2, <1>4, <2>1, AppendProperties
    <2>2. CASE cerr < MaxFailures /\ cerr' = cerr + 1 /\ file' = file
        <3>1. cerr' \in 0..MaxFailures
            BY <1>2, <2>2, LoggerAssumption
        <3> QED BY <1>2, <2>2, <3>1
    <2> QED BY <1>2, <2>1, <2>2
<1>6. TypeOK'
    <2>1. pc' \in [Threads -> {"off", "run", "log", "get", "console", "file",
                               "unlock", "isEmpty", "exit"}]
        BY <1>2
    <2> QED BY <1>2, <1>5, <2>1 DEF OnceInOrder, TypeOK
<1>7. OnceInOrder' /\ Lost' = Lost
    <2>1. InHand' = InHand
        BY <1>2, <1>3 DEF InHand
    <2>2. Line' = Line
        BY <1>2, <2>1 DEF Line
    <2>3. \A u \in Threads : Said(u)' = Said(u)
        BY <1>2, <1>3 DEF Said
    <2> QED BY <1>2, <1>6, <2>2, <2>3, SameLine
<1>8. Control'
    BY <1>2, <1>3 DEF Control
<1>9. Signal'
    <2>1. pc'[t_write] = "console" => pc[t_write] = "console"
        BY <1>2, <1>3
    <2> QED BY <1>2, <2>1 DEF Signal
\* The message is the last on the console, and nowhere else on it.
<1>10. FileInOrder'
    <2>1. CASE file' = file
        BY <1>2, <2>1 DEF FileFollowsConsole, FileInOrder
    <2>2. CASE file' = Append(file, x)
        <3>1. /\ Len(file) \in Nat /\ Len(file') = Len(file) + 1
              /\ file'[Len(file) + 1] = x /\ \A j \in 1..Len(file) : file'[j] = file[j]
              /\ ToSet(file') = ToSet(file) \cup {x}
            BY <1>2, <1>4, <2>2, AppendProperties, LenProperties, ToSetGrows
        <3>2. x \in ToSet(console)
            BY <1>2, <1>4, ToSetIs
        <3>3. ASSUME NEW q \in 1..Len(console), console[q] = x PROVE q = Len(console)
            <4>1. /\ q \in 1..Len(Line) /\ Line[q] = x
                  /\ Len(console) \in 1..Len(Line) /\ Line[Len(console)] = x
                BY <1>4, <3>3, PartsOfLine DEF OnceInOrder
            <4>2. x[2] \in Nat
                BY <1>4 DEF Messages
            <4>3. ~(q < Len(console))
                BY <4>1, <4>2 DEF OnceInOrder
            <4> QED BY <1>4, <4>3
        <3>4. ASSUME NEW j \in 1..Len(file'), NEW k \in 1..Len(file'), j < k,
                     NEW p \in 1..Len(console), NEW q \in 1..Len(console),
                     console[p] = file'[j], console[q] = file'[k]
              PROVE  p < q
            <4>1. j \in 1..Len(file) /\ file'[j] = file[j] /\ file[j] # x
                BY <1>4, <3>1, <3>4
            <4>2. CASE k \in 1..Len(file)
                BY <3>1, <3>4, <4>1, <4>2 DEF FileFollowsConsole, FileInOrder
            <4>3. CASE k = Len(file) + 1
                <5>1. q = Len(console)
                    BY <3>1, <3>3, <3>4, <4>3
                <5>2. p # Len(console)
                    BY <1>4, <3>4, <4>1
                <5> QED BY <5>1, <5>2
            <4> QED BY <3>1, <4>2, <4>3
        <3> QED BY <1>2, <3>1, <3>2, <3>4 DEF FileFollowsConsole, FileInOrder
    <2> QED BY <1>2, <2>1, <2>2
<1>11. FileFollowsConsole'
    <2>1. (\E u \in Threads : pc[u] = "file") /\ ~\E u \in Threads : pc'[u] = "file"
        BY <1>2, <1>3
    <2>2. IsFiniteSet(cut \cap ToSet(console))
        <3>1. cut \cap ToSet(console) = {} \/ \E m : cut \cap ToSet(console) = {m}
            BY DEF Signal
        <3> QED BY <3>1, FS_EmptySet, FS_Singleton
    <2>3. Cardinality(cut \cap ToSet(console)) \in Nat
        BY <2>2, FS_CardinalityType
    <2>4. Missing = cerr + 1 + Cardinality(cut \cap ToSet(console))
        BY <2>1 DEF Missing
    <2>5. Missing' = cerr' + 0 + Cardinality(cut \cap ToSet(console))
        <3>1. Missing' = cerr' + 0 + Cardinality(cut' \cap ToSet(console'))
            BY <2>1 DEF Missing
        <3> QED BY <1>2, <3>1
    <2>6. \/ Len(file') = Len(file) + 1 /\ cerr' = cerr
          \/ file' = file /\ cerr' = cerr + 1
        BY <1>2, <1>4, AppendProperties
    <2>7. Len(file) \in Nat
        BY <1>2, LenProperties
    <2> QED BY <1>2, <1>10, <2>3, <2>4, <2>5, <2>6, <2>7 DEF FileFollowsConsole
<1>12. Writing'
    BY <1>2, <1>3 DEF Writing
<1>13. Exiting'
    <2>1. \A u \in Callers : pc'[u] = "exit" => pc[u] = "exit"
        BY <1>2, <1>3
    <2> QED BY <1>2, <1>7, <2>1 DEF Exiting
<1> QED BY <1>7, <1>8, <1>9, <1>11, <1>12, <1>13

----------------------------------------------------------------------------
\* SIGINT

LEMMA InterruptKeeps ==
    ASSUME IndInv, Interrupt
    PROVE  IndInv'
<1> USE LoggerAssumption DEF IndInv, Ordered
<1>0. PICK y : y = <<Main, logged[Main]>>
    OBVIOUS
<1>1. /\ Main \in Threads /\ Main # t_write /\ t_write \in Threads
      /\ Callers \subseteq Threads
      /\ pc \in [Threads -> {"off", "run", "log", "get", "console", "file",
                             "unlock", "isEmpty", "exit"}]
      /\ logged \in [Threads -> 0..MaxLogged] /\ exiting \in [Callers -> BOOLEAN]
      /\ console \in Seq(Messages) /\ msgQueue \in Seq(Messages)
      /\ Line \in Seq(Messages)
      /\ ToSet(Line) = ToSet(console) \cup ToSet(InHand) \cup ToSet(msgQueue)
    BY LineIsASeq, PartsOfLine DEF Threads, OnceInOrder, TypeOK
<1>2. /\ logged[Main] < MaxLogged /\ logged' = [logged EXCEPT ![Main] = @ + 1]
      /\ pc' = [pc EXCEPT ![Main] = "log"]
      /\ exiting' = [exiting EXCEPT ![Main] = TRUE]
      /\ interrupted' = TRUE /\ cut = {} /\ ~queueHeld
      /\ pc[Main] \in {"log", "console", "file"} => cut' = {y}
      /\ pc[Main] \notin {"log", "console", "file"} => cut' = {}
      /\ UNCHANGED <<isAsyncLog, msg, printLock, console, file, cerr, exited>>
    BY <1>0 DEF Interrupt, Begin, Goto, Signal
<1>3. /\ queueHeld' \in BOOLEAN
      /\ \/ msgQueue' = msgQueue
         \/ /\ pc[Main] = "log" /\ isAsyncLog /\ queueHeld' = TRUE
            /\ msgQueue' = Append(msgQueue, y)
    BY <1>0 DEF Interrupt
<1>4. /\ \A u \in Threads \ {Main} : pc'[u] = pc[u] /\ logged'[u] = logged[u]
      /\ pc'[Main] = "log" /\ logged'[Main] = logged[Main] + 1
      /\ logged[Main] \in Nat /\ logged'[Main] \in Nat /\ pc'[t_write] = pc[t_write]
      /\ y[1] = Main /\ y[2] = logged[Main]
    BY <1>0, <1>1, <1>2
<1>5. InHand' = InHand /\ Lost = {}
    BY <1>2, <1>4 DEF InHand, Lost
<1>6. pc[Main] \in {"log", "console", "file"} => logged[Main] \in 1..MaxLogged /\ y \in Messages
    <2>1. pc[Main] \in {"log", "console", "file"} => logged[Main] > 0
        BY DEF Control
    <2>2. logged[Main] > 0 => logged[Main] \in 1..MaxLogged
        BY <1>1
    <2> QED BY <1>0, <1>1, <2>1, <2>2 DEF Messages
<1>7. TypeOK'
    <2>1. msgQueue' \in Seq(Messages)
        <3>1. CASE msgQueue' = msgQueue
            BY <1>1, <3>1
        <3>2. CASE pc[Main] = "log" /\ msgQueue' = Append(msgQueue, y)
            BY <1>1, <1>6, <3>2, AppendProperties
        <3> QED BY <1>3, <3>1, <3>2
    <2>2. /\ pc' \in [Threads -> {"off", "run", "log", "get", "console", "file",
                                  "unlock", "isEmpty", "exit"}]
          /\ logged' \in [Threads -> 0..MaxLogged]
        BY <1>1, <1>2
    <2>3. exiting' \in [Callers -> BOOLEAN] /\ cut' \subseteq Messages
        BY <1>1, <1>2, <1>6
    <2> QED BY <1>2, <1>3, <2>1, <2>2, <2>3 DEF OnceInOrder, TypeOK
<1>8. Said(Main)' = logged[Main] /\ \A u \in Threads \ {Main} : Said(u)' = Said(u)
    BY <1>1, <1>2, <1>4 DEF Said
\* What Main was logging is nowhere, or on the console if the file comes next.
<1>9. pc[Main] \in {"log", "console"} => Said(Main) = logged[Main] - 1 /\ y \notin ToSet(Line)
    <2> SUFFICES ASSUME pc[Main] \in {"log", "console"}
                 PROVE  Said(Main) = logged[Main] - 1 /\ y \notin ToSet(Line)
        OBVIOUS
    <2>1. Said(Main) = logged[Main] - 1
        BY <1>1 DEF Said
    <2>2. ~(y[2] <= Said(y[1]))
        BY <1>4, <2>1
    <2> QED BY <2>1, <2>2 DEF OnceInOrder
<1>10. pc[Main] = "file" => y \in ToSet(console)
    <2> SUFFICES ASSUME pc[Main] = "file" PROVE y \in ToSet(console)
        OBVIOUS
    <2>1. console # <<>> /\ console[Len(console)] = y
        BY <1>0, <1>1 DEF Writing, Printing
    <2>2. Len(console) \in Nat \ {0}
        BY <1>1, <2>1, EmptySeq
    <2>3. Len(console) \in 1..Len(console)
        BY <2>2
    <2> QED BY <1>1, <2>1, <2>3, ToSetIs
<1>11. OnceInOrder' /\ Lost' = (IF y \in ToSet(Line') THEN {} ELSE cut')
    <2>1. CASE pc[Main] \notin {"log", "console"}
        <3>1. Said(Main) = logged[Main] /\ msgQueue' = msgQueue
            BY <1>1, <1>3, <2>1 DEF Said
        <3>2. Line' = Line
            BY <1>2, <1>5, <3>1 DEF Line
        <3>3. Lost' = Lost
            BY <1>1, <1>2, <1>5, <1>10, <2>1, <3>2 DEF Lost
        <3>4. OnceInOrder'
            <4>1. \A u \in Threads : Said(u)' = Said(u)
                BY <1>8, <3>1
            <4> QED BY <1>7, <3>2, <3>3, <4>1, SameLine
        <3> QED BY <1>1, <1>2, <1>5, <1>10, <2>1, <3>2, <3>3, <3>4
    <2>2. CASE pc[Main] \in {"log", "console"} /\ msgQueue' = Append(msgQueue, y)
        <3>1. Line' = Append(Line, y)
            BY <1>2, <1>5, <1>6, <2>2, PutGrowsLine DEF OnceInOrder
        <3>2. ToSet(Line') = ToSet(Line) \cup {y}
            BY <1>1, <1>6, <2>2, <3>1, ToSetGrows
        <3>3. Lost' = Lost
            BY <1>2, <1>5, <2>2, <3>2 DEF Lost
        <3>4. OnceInOrder'
            BY <1>0, <1>1, <1>2, <1>6, <1>7, <1>8, <1>9, <2>2, <3>1, <3>3, LongerLine
        <3> QED BY <1>5, <3>2, <3>3, <3>4
    <2>3. CASE pc[Main] \in {"log", "console"} /\ msgQueue' = msgQueue
        <3>1. Line' = Line
            BY <1>2, <1>5, <2>3 DEF Line
        <3>2. Lost' = {y} /\ cut' = {y}
            BY <1>2, <1>9, <2>3, <3>1 DEF Lost
        <3>3. ToSet(Line) = {m \in Messages : m[2] <= Said(m[1])}
            BY <1>5 DEF OnceInOrder
        <3>4. {m \in Messages : m[2] <= Said(m[1])}'
                  = {m \in Messages : m[2] <= Said(m[1])} \cup {y}
            <4>1. ASSUME NEW m \in Messages
                  PROVE  m[2] <= Said(m[1])' <=> m[2] <= Said(m[1]) \/ m = y
                <5>1. m = <<m[1], m[2]>> /\ m[1] \in Threads /\ m[2] \in 1..MaxLogged
                    BY DEF Messages
                <5>2. CASE m[1] = Main
                    BY <1>0, <1>4, <1>8, <1>9, <2>3, <5>1, <5>2
                <5>3. CASE m[1] # Main
                    BY <1>4, <1>8, <5>1, <5>3
                <5> QED BY <5>2, <5>3
            <4> QED BY <1>6, <2>3, <4>1
        <3>5. ToSet(Line') = {m \in Messages : m[2] <= Said(m[1])}' \ Lost'
            BY <1>9, <2>3, <3>1, <3>2, <3>3, <3>4
        <3>6. \A j, k \in 1..Len(Line') :
                  j < k /\ Line'[j][1] = Line'[k][1] => Line'[j][2] < Line'[k][2]
            BY <3>1 DEF OnceInOrder
        <3>7. OnceInOrder'
            BY <1>7, <3>5, <3>6 DEF OnceInOrder
        <3> QED BY <1>9, <2>3, <3>1, <3>2, <3>7
    <2> QED BY <1>3, <2>1, <2>2, <2>3
<1>12. Control'
    BY <1>1, <1>2, <1>3, <1>4 DEF Control
<1>13. Signal'
    <2>1. \A m \in cut' : m[1] = Main /\ m[2] < logged'[Main]
        BY <1>2, <1>4
    <2>2. pc[t_write] = "console" => msg[t_write] \notin cut'
        <3> SUFFICES ASSUME pc[t_write] = "console", msg[t_write] = y,
                            pc[Main] \in {"log", "console", "file"}
                     PROVE  FALSE
            BY <1>2
        <3>1. pc[Main] = "log"
            BY DEF Control
        <3>2. y \in ToSet(InHand)
            BY DEF InHand, ToSet
        <3> QED BY <1>1, <1>9, <3>1, <3>2
    <2>3. \A k \in 1..Len(msgQueue') : msgQueue'[k] \in cut' => queueHeld'
        <3>1. CASE msgQueue' = msgQueue
            <4> SUFFICES ASSUME NEW k \in 1..Len(msgQueue), msgQueue[k] = y,
                                pc[Main] \in {"log", "console", "file"}
                         PROVE  FALSE
                BY <1>2, <3>1
            <4>1. y \in ToSet(msgQueue) /\ msgQueue # <<>>
                BY <1>1, ToSetIs
            <4>2. pc[Main] = "log"
                BY <4>1 DEF Control
            <4> QED BY <1>1, <1>9, <4>1, <4>2
        <3>2. CASE queueHeld' = TRUE
            BY <3>2
        <3> QED BY <1>3, <3>1, <3>2
    <2>4. \A m, n \in cut' : m = n
        BY <1>2
    <2> QED BY <1>2, <1>4, <2>1, <2>2, <2>3, <2>4 DEF Signal
<1>14. FileFollowsConsole'
    <2>1. FileInOrder'
        BY <1>2 DEF FileFollowsConsole, FileInOrder
    <2>2. Missing = cerr + (IF \E u \in Threads : pc[u] = "file" THEN 1 ELSE 0) + 0
        <3>1. cut \cap ToSet(console) = {}
            BY <1>2
        <3> QED BY <3>1, FS_EmptySet DEF Missing
    <2>3. Missing' = Missing
        <3>1. CASE pc[Main] = "file"
            <4>1. (\E u \in Threads : pc[u] = "file") /\ ~\E u \in Threads : pc'[u] = "file"
                BY <1>1, <1>4, <3>1, OnePrints DEF OnceInOrder
            <4>2. cut' \cap ToSet(console') = {y}
                BY <1>2, <1>10, <3>1
            <4>3. Missing' = cerr' + 0 + Cardinality({y})
                BY <4>1, <4>2 DEF Missing
            <4>4. Cardinality({y}) = 1
                BY FS_Singleton
            <4>5. Missing = cerr + 1 + 0
                BY <2>2, <4>1
            <4>6. cerr \in Nat
                BY <1>2 DEF OnceInOrder, TypeOK
            <4>7. Missing' = cerr + 0 + 1
                BY <1>2, <4>3, <4>4
            <4> QED BY <4>5, <4>6, <4>7
        <3>2. CASE pc[Main] # "file"
            <4>1. (\E u \in Threads : pc'[u] = "file") <=> (\E u \in Threads : pc[u] = "file")
                BY <1>1, <1>4, <3>2
            <4>2. cut' \cap ToSet(console') = {}
                BY <1>1, <1>2, <1>9, <3>2
            <4>3. Missing' = cerr' + (IF \E u \in Threads : pc[u] = "file" THEN 1 ELSE 0) + 0
                BY <4>1, <4>2, FS_EmptySet DEF Missing
            <4> QED BY <1>2, <2>2, <4>3
        <3> QED BY <3>1, <3>2
    <2> QED BY <1>2, <2>1, <2>3 DEF FileFollowsConsole
<1>15. Writing'
    <2> SUFFICES ASSUME NEW u \in Threads, pc'[u] = "file"
                 PROVE  /\ console # <<>> /\ console[Len(console)] = Printing(u)'
                        /\ \A j \in 1..Len(file) : file[j] # Printing(u)'
        BY <1>2 DEF Writing
    <2>1. u # Main /\ pc[u] = "file" /\ Printing(u)' = Printing(u)
        BY <1>2, <1>4 DEF Printing
    <2> QED BY <2>1 DEF Writing
<1>16. Exiting'
    <2> SUFFICES ASSUME NEW u \in Callers, pc'[u] = "exit", NEW n \in 1..(logged'[u] - 1)
                 PROVE  <<u, n>> \in ToSet(console)
        BY <1>2 DEF Exiting
    <2>1. u # Main /\ u \in Threads
        BY <1>1, <1>4
    <2> QED BY <1>4, <1>5, <2>1 DEF Exiting
<1> QED BY <1>11, <1>12, <1>13, <1>14, <1>15, <1>16

----------------------------------------------------------------------------
LEMMA InitIndInv == Init => IndInv
<1> SUFFICES ASSUME Init PROVE IndInv
    OBVIOUS
<1> USE LoggerAssumption DEF Init, Queue!Init, Threads
<1>1. TypeOK
    <2>1. <<>> \in Seq(Messages)
        BY EmptySeq
    <2>2. logged \in [Threads -> 0..MaxLogged]
        OBVIOUS
    <2>3. pc \in [Threads -> {"off", "run", "log", "get", "console", "file",
                             "unlock", "isEmpty", "exit"}]
        OBVIOUS
    <2>4. msg \in [{t_write} -> Messages \cup {Nothing}]
        OBVIOUS
    <2>5. cerr \in 0..MaxFailures
        OBVIOUS
    <2> QED BY <2>1, <2>2, <2>3, <2>4, <2>5 DEF TypeOK
<1>2. Control
    BY DEF Control
<1>3. Signal
    BY DEF Signal
<1>4. Line = <<>> /\ ToSet(Line) = {} /\ Len(Line) = 0
    <2>1. Line = <<>>
        <3>1. InHand = <<>>
            BY DEF InHand
        <3> QED BY <3>1, EmptySeq, ConcatEmptySeq DEF Line
    <2> QED BY <2>1 DEF ToSet
<1>5. \A m \in Messages : ~(m[2] <= Said(m[1]))
    BY DEF Said, Messages
<1>6. OnceInOrder
    BY <1>1, <1>4, <1>5 DEF OnceInOrder, Lost
<1>7. FileFollowsConsole
    <2>1. ToSet(file) = {} /\ Len(file) = 0 /\ Len(console) = 0
        BY DEF ToSet
    <2>2. ~\E t \in Threads : pc[t] = "file"
        OBVIOUS
    <2>3. cut \cap ToSet(console) = {}
        OBVIOUS
    <2>4. Missing = 0 + 0 + 0
        BY <2>2, <2>3, FS_EmptySet DEF Missing
    <2>5. FileInOrder
        BY <2>1 DEF FileInOrder
    <2> QED BY <2>1, <2>4, <2>5 DEF FileFollowsConsole
<1>8. Writing /\ Exiting
    BY DEF Writing, Exiting
<1> QED BY <1>2, <1>3, <1>6, <1>7, <1>8 DEF IndInv, Ordered

LEMMA Inductive == Spec => []IndInv
<1>1. IndInv /\ [Next]_vars => IndInv'
    <2> SUFFICES ASSUME IndInv, [Next]_vars PROVE IndInv'
        OBVIOUS
    <2>1. CASE Interrupt
        BY <2>1, InterruptKeeps
    <2>2. CASE WriterStep /\ UNCHANGED signalVars
        BY <2>2, GetMsgKeeps, EnqueueKeeps, PrintConsoleKeeps, WriteFileKeeps,
           LoggerAssumption DEF WriterStep, LogStep, Threads
    <2>3. ASSUME NEW t \in Callers, CallerStep(t) \/ Info(t) \/ CallSafeExit(t),
                 UNCHANGED signalVars
          PROVE  IndInv'
        <3>1. t \in Threads
            BY DEF Threads
        <3>2. Quiet(t) \/ Enqueue(t) \/ PrintConsole(t) \/ WriteFile(t)
            BY <2>3 DEF CallerStep, LogStep, Quiet
        <3> QED BY <2>3, <3>1, <3>2, QuietKeeps, EnqueueKeeps, PrintConsoleKeeps,
                   WriteFileKeeps
    <2>4. CASE UNCHANGED vars
        <3>1. UNCHANGED <<isAsyncLog, msgQueue, msg, printLock, pc, exiting, logged, console,
                          file, cerr, exited, interrupted, cut, queueHeld>>
            BY <2>4 DEF vars, signalVars
        <3>2. TypeOK' /\ Control' /\ Signal'
            BY <3>1 DEF IndInv, Ordered, OnceInOrder, TypeOK, Control, Signal
        <3>3. Line' = Line /\ \A t \in Threads : Said(t)' = Said(t)
            BY <3>1 DEF Line, InHand, Said
        <3>4. OnceInOrder' /\ Lost' = Lost
            BY <3>1, <3>2, <3>3, SameLine DEF IndInv, Ordered
        <3>5. FileFollowsConsole' /\ Writing'
            BY <3>1, FileStays DEF Printing
        <3>6. Exiting'
            BY <3>1, <3>4 DEF IndInv, Exiting
        <3> QED BY <3>2, <3>4, <3>5, <3>6 DEF IndInv, Ordered
    <2> QED BY <2>1, <2>2, <2>3, <2>4 DEF Next
<1> QED BY <1>1, InitIndInv, PTL DEF Spec

\* Nothing logged is lost, printed twice or overtaken, but for the message that
\* SIGINT cuts off (Logger.h, 174-207 and 278-308).
THEOREM LoggedOnceInOrder == Spec => []OnceInOrder
<1>1. IndInv => OnceInOrder
    BY DEF IndInv, Ordered
<1> QED BY <1>1, Inductive, PTL

\* The log file follows the console, whichever opens of it fail (Logger.h,
\* 185-205 and 286-305).
THEOREM FileAlwaysFollows == Spec => []FileFollowsConsole
<1>1. IndInv => FileFollowsConsole
    BY DEF IndInv
<1> QED BY <1>1, Inductive, PTL

\* All that a thread's safeExit says for certain: the thread's messages are on
\* the console except, it may be, for its last one.
ExitLosesAtMostTheLast ==
    \A t \in Callers : (exited /\ pc[t] = "exit") =>
        \A n \in 1..(logged[t] - 1) : <<t, n>> \in ToSet(console) \cup Lost

\* How far the loss that AllPrintedAtExit finds can go: safeExit loses at most
\* the last message of its thread (util.h, 46-56).
THEOREM ExitLosesOneAtMost == Spec => []ExitLosesAtMostTheLast
<1>1. IndInv => ExitLosesAtMostTheLast
    BY DEF IndInv, Exiting, ExitLosesAtMostTheLast
<1> QED BY <1>1, Inductive, PTL

----------------------------------------------------------------------------
\* The log uses its message queue as FifoQueue allows, a put that SIGINT cuts off
\* after its element is in the list included: what SyncQueue implements is all
\* that the log needs of it (Logger.h, 174-207 and 278-308).
THEOREM LogUsesTheQueue == Spec => Queue!Spec
<1>1. Init => Queue!Init
    BY DEF Init
<1>2. IndInv /\ [Next]_vars => [Queue!Next]_<<msgQueue, msg>>
  <2> SUFFICES ASSUME IndInv, [Next]_vars
               PROVE  Queue!Next \/ UNCHANGED <<msgQueue, msg>>
      OBVIOUS
  <2>1. ASSUME NEW t \in Threads, Enqueue(t) PROVE Queue!Next
    <3>1. <<t, logged[t]>> \in Messages
        BY <2>1, NewestIsAMessage DEF Enqueue, IndInv
    <3> QED BY <2>1, <3>1 DEF Enqueue, Queue!Next
  <2>2. CASE GetMsg
      BY <2>2 DEF GetMsg, Queue!Next
  <2>3. ASSUME NEW t \in Threads,
               \/ PrintConsole(t) \/ WriteFile(t) \/ LockPrint(t) \/ UnlockPrint(t)
               \/ CheckEmpty(t) \/ Exit(t) \/ Info(t) \/ CallSafeExit(t)
        PROVE  UNCHANGED <<msgQueue, msg>>
      BY <2>3 DEF PrintConsole, WriteFile, LockPrint, UnlockPrint, CheckEmpty, Exit, Info,
                  CallSafeExit
  <2>4. CASE Interrupt
    <3>1. CASE UNCHANGED msgQueue
        BY <2>4, <3>1 DEF Interrupt
    <3>2. CASE msgQueue' # msgQueue
      <4>1. /\ pc[Main] = "log" /\ UNCHANGED msg
            /\ msgQueue' = Append(msgQueue, <<Main, logged[Main]>>)
          BY <2>4, <3>2 DEF Interrupt
      <4>2. <<Main, logged[Main]>> \in Messages
          BY <4>1, LoggerAssumption, NewestIsAMessage DEF Threads, IndInv
      <4>3. Queue!Put(<<Main, logged[Main]>>)
          BY <4>1 DEF Queue!Put
      <4> QED BY <4>2, <4>3 DEF Queue!Next
    <3> QED BY <3>1, <3>2
  <2>5. CASE UNCHANGED vars
      BY <2>5 DEF vars
  <2> QED BY <2>1, <2>2, <2>3, <2>4, <2>5
          DEF Next, WriterStep, CallerStep, LogStep, Threads
<1> QED BY <1>1, <1>2, Inductive, PTL DEF Spec, Queue!Spec
=============================================================================

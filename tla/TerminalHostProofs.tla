-------------------------- MODULE TerminalHostProofs --------------------------
(***************************************************************************)
(* What holds of a terminal host in one run, for any number of             *)
(* connections, frames, units and chunks: every step keeps the invariant   *)
(* of TerminalHostLemmas, one part at a time, and the properties follow.   *)
(***************************************************************************)
EXTENDS TerminalHostLemmas

-----------------------------------------------------------------------------
(* What a handler finds on the agenda, and what it leaves.                 *)

LEMMA BusyIsAwake ==
    ASSUME NEW t \in Seq(Entry), Busy(t)
    PROVE  ~ Asleep(t) /\ t # <<>> /\ t # <<Do("poll")>>
<1>1. Len(t) >= 2 /\ t[Len(t) - 1].op = "act_on_buffered"
  BY DEF Busy, Do
<1>2. t # <<>> /\ t # <<Do("poll")>> /\ t # <<Do("refill_outgoing")>>
  <2>1. Len(<<>>) = 0 /\ Len(<<Do("poll")>>) = 1 /\ Len(<<Do("refill_outgoing")>>) = 1
    OBVIOUS
  <2>2. Len(t) # 0 /\ Len(t) # 1
    <3> DEFINE n == Len(t)
    <3>1. n \in Nat /\ n >= 2
      BY <1>1
    <3> HIDE DEF n
    <3>2. n # 0 /\ n # 1
      BY <3>1
    <3> QED
      BY <3>2 DEF n
  <2> QED
    BY <2>1, <2>2, Zenon
<1>3. t # <<Do("refill_outgoing"), Do("poll")>>
  BY <1>1 DEF Do
<1> QED
  BY <1>2, <1>3 DEF Asleep

LEMMA AsleepOps ==
    /\ Asleep(<<>>) /\ Asleep(<<Do("refill_outgoing"), Do("poll")>>)
    /\ AgendaOK(<<>>) /\ AgendaOK(<<Do("refill_outgoing"), Do("poll")>>)
    /\ OpsOf(<<>>) = {}
    /\ OpsOf(<<Do("refill_outgoing"), Do("poll")>>) = {"refill_outgoing", "poll"}
<1> DEFINE a == Do("refill_outgoing")
           b == Do("poll")
           t == <<a, b>>
<1>1. /\ a \in Entry /\ b \in Entry /\ a.op = "refill_outgoing" /\ b.op = "poll"
      /\ Before(a, b)
  BY EntryType DEF Ops, Before, Drains
<1>2. Asleep(<<>>) /\ Asleep(t)
  BY DEF Asleep
<1> HIDE DEF a, b
<1>3. t \in Seq(Entry) /\ DOMAIN t = 1 .. 2 /\ t[1] = a /\ t[2] = b
  BY <1>1
<1> HIDE DEF t
<1>4. OpsOf(t) = {"refill_outgoing", "poll"}
  BY <1>1, <1>3 DEF OpsOf
<1>5. Ordered(t)
  BY <1>1, <1>3 DEF Ordered
<1>6. \A i \in DOMAIN t : t[i].op # "close_receive"
  BY <1>1, <1>3
<1>7. AgendaOK(t)
  BY <1>2, <1>3, <1>4, <1>5, <1>6 DEF AgendaOK, Drains
<1>8. <<>> \in Seq(Entry) /\ DOMAIN <<>> = {} /\ OpsOf(<<>>) = {}
  BY DEF OpsOf
<1>9. Ordered(<<>>)
  BY <1>8 DEF Ordered
<1>10. AgendaOK(<<>>)
  BY <1>2, <1>8, <1>9 DEF AgendaOK
<1> QED
  BY <1>2, <1>4, <1>7, <1>8, <1>10 DEF t, a, b

\* The handler that runs is taken off.
LEMMA Returned ==
    ASSUME AgendaOK(todo), NEW op, Running(op), NEW r, r = Tail(todo)
    PROVE  /\ AgendaOK(r) /\ todo # <<>> /\ todo[1].op = op /\ Head(todo) = todo[1] /\ todo[1] \in Entry
           /\ \A x : x \in OpsOf(todo) <=> (x = op \/ x \in OpsOf(r))
           /\ \A i \in 1 .. Len(r) : r[i] = todo[i + 1] /\ Before(todo[1], r[i])
           /\ op \notin {"refill_outgoing", "poll", "act_on_buffered"} => Busy(todo) /\ Busy(r)
           /\ op = "poll" => todo = <<Do("poll")>> /\ r = <<>>
           /\ op = "act_on_buffered" => Busy(todo)
           /\ op = "refill_outgoing" => Asleep(todo) \/ Busy(r)
<1>1. todo # <<>> /\ Head(todo).op = op
  BY DEF Running
<1>2. /\ AgendaOK(r) /\ todo[1] \in Entry /\ Head(todo) = todo[1]
      /\ \A x : x \in OpsOf(todo) <=> (x = todo[1].op \/ x \in OpsOf(r))
      /\ \A i \in 1 .. Len(r) : r[i] = todo[i + 1] /\ Before(todo[1], r[i])
  BY <1>1, TailOK
<1>3. todo \in Seq(Entry) /\ Len(todo) = Len(r) + 1 /\ Len(r) \in Nat
  BY <1>1 DEF AgendaOK
<1>4. Asleep(todo) => op \in {"refill_outgoing", "poll"}
  BY <1>1, <1>2 DEF Asleep, Do
<1>5. Busy(todo) /\ op # "act_on_buffered" => Busy(r)
  <2>1. SUFFICES ASSUME Busy(todo), op # "act_on_buffered" PROVE Busy(r)
    OBVIOUS
  <2>2. Len(todo) # 2
    <3>1. todo[Len(todo) - 1].op = "act_on_buffered"
      BY <2>1 DEF Busy, Do
    <3> QED
      BY <1>1, <1>2, <1>3, <2>1, <3>1
  <2>3. Len(r) >= 2 /\ Len(r) - 1 \in 1 .. Len(r) /\ Len(r) \in 1 .. Len(r)
        /\ (Len(r) - 1) + 1 = Len(todo) - 1
    <3>1. Len(todo) >= 2
      BY <2>1 DEF Busy
    <3> DEFINE n == Len(r)
               m == Len(todo)
    <3>2. n \in Nat /\ m = n + 1 /\ m # 2 /\ m >= 2
      BY <1>3, <2>2, <3>1
    <3> HIDE DEF n, m
    <3>3. n >= 2 /\ n - 1 \in 1 .. n /\ n \in 1 .. n /\ (n - 1) + 1 = m - 1
      BY <3>2
    <3> QED
      BY <3>3 DEF n, m
  <2>4. r[Len(r) - 1] = todo[Len(todo) - 1] /\ r[Len(r)] = todo[Len(todo)]
    BY <1>2, <1>3, <2>3
  <2> QED
    BY <1>2, <2>1, <2>3, <2>4 DEF Busy
<1>6. Asleep(todo) \/ Busy(todo)
  BY DEF AgendaOK
<1>7. ASSUME op = "poll" PROVE todo = <<Do("poll")>> /\ r = <<>>
  <2>1. "poll" \in OpsOf(todo)
    BY <1>1, <1>2, <1>7
  <2>2. Asleep(todo)
    BY <1>6, <2>1 DEF Busy
  <2>3. todo = <<Do("poll")>>
    BY <1>1, <1>2, <1>7, <2>2 DEF Asleep, Do
  <2> QED
    BY <1>3, <2>3
<1>8. op \notin {"refill_outgoing", "poll", "act_on_buffered"} => Busy(todo) /\ Busy(r)
  BY <1>4, <1>5, <1>6
<1>9. op = "act_on_buffered" => Busy(todo)
  BY <1>4, <1>6
<1>10. op = "refill_outgoing" => Asleep(todo) \/ Busy(r)
  BY <1>5, <1>6
<1> QED
  BY <1>1, <1>2, <1>7, <1>8, <1>9, <1>10

\* What a handler that calls one leaves.
LEMMA CalledOne ==
    ASSUME AgendaOK(todo), NEW op, Running(op), NEW x \in Entry,
           \/ op = "reap_child" /\ x.op = "read_pty"
           \/ op \in {"write_client", "read_client", "read_pending"}
              /\ x.op \in {"close_client", "act_on_buffered"}
           \/ op = "accept" /\ x.op = "accept",
           NEW r, r = Cons(x, Tail(todo))
    PROVE  /\ AgendaOK(r) /\ Busy(r) /\ r[1] = x
           /\ \A y : y \in OpsOf(r) <=> (y = x.op \/ y \in OpsOf(Tail(todo)))
           /\ \A i \in 1 .. Len(r) : r[i] = x \/ (i - 1 \in 1 .. Len(Tail(todo)) /\ r[i] = Tail(todo)[i - 1])
<1>1. todo # <<>> /\ todo[1].op = op
  BY Returned
<1>2. \/ todo[1].op = "reap_child" /\ x.op = "read_pty"
      \/ todo[1].op \in {"write_client", "read_client", "read_pending"}
         /\ x.op \in {"close_client", "act_on_buffered"}
      \/ todo[1].op = "accept" /\ x.op = "accept"
  BY <1>1
<1> QED
  BY <1>1, <1>2, CallOne

LEMMA ReturnedBusy ==
    ASSUME AgendaOK(todo), NEW op, Running(op),
           op # "refill_outgoing", op # "poll", op # "act_on_buffered"
    PROVE  /\ Busy(todo) /\ Busy(Tail(todo)) /\ AgendaOK(Tail(todo))
           /\ todo # <<>> /\ todo[1].op = op /\ Head(todo) = todo[1] /\ todo[1] \in Entry
BY Returned

LEMMA ReturnedOps ==
    ASSUME AgendaOK(todo), NEW op, Running(op)
    PROVE  \A x : x \in OpsOf(todo) <=> (x = op \/ x \in OpsOf(Tail(todo)))
<1> DEFINE r == Tail(todo)
<1>1. r = Tail(todo)
  OBVIOUS
<1> HIDE DEF r
<1>2. \A x : x \in OpsOf(todo) <=> (x = op \/ x \in OpsOf(r))
  BY <1>1, Returned
<1> QED
  BY <1>2 DEF r

\* Which handlers are left to run, whatever happens.
LEMMA AgendaStep ==
    ASSUME TypeOK, AgendaOK(todo), Injective(pending), [Next]_vars
    PROVE  AgendaOK(todo')
<1>1. CASE step_terminated
  BY <1>1 DEF step_terminated
<1>2. CASE step_ended
  BY <1>2 DEF step_ended
<1>3. CASE handle_malformed
  BY <1>3 DEF handle_malformed, Acting
<1>4. CASE handle_hello
  BY <1>4 DEF handle_hello, Acting
<1>5. CASE handle_info_snapshot
  BY <1>5 DEF handle_info_snapshot, Acting
<1>6. CASE handle_read
  BY <1>6 DEF handle_read, Acting
<1>7. CASE handle_input
  BY <1>7 DEF handle_input, Acting
<1>8. CASE handle_resize
  BY <1>8 DEF handle_resize, Acting
<1>9. CASE handle_shutdown
  BY <1>9 DEF handle_shutdown, Acting
<1>10. CASE \E c \in Conns : connect(c)
  BY <1>10 DEF connect, Environment, hostVars
<1>11. CASE \E c \in Conns : \E frame \in Hellos \cup Frames : peer_sends(c, frame)
  BY <1>11 DEF peer_sends, Environment, hostVars
<1>12. CASE \E c \in Conns : \E how \in {"half", "closed"} : peer_closes(c, how)
  BY <1>12 DEF peer_closes, Environment, hostVars
<1>13. CASE \E c \in Conns : peer_takes(c)
  BY <1>13 DEF peer_takes, Environment, hostVars
<1>14. CASE \E who \in {"child", "other"} : program_writes(who)
  BY <1>14 DEF program_writes, Environment, hostVars
<1>15. CASE program_takes
  BY <1>15 DEF program_takes, Environment, hostVars
<1>16. CASE child_exits
  BY <1>16 DEF child_exits, Environment, hostVars
<1>17. CASE sigterm_arrives
  BY <1>17 DEF sigterm_arrives, Environment, hostVars
<1>18. CASE \E who \in {"child", "other"} : let_go(who)
  BY <1>18 DEF let_go, Environment, hostVars
<1>19. CASE \E d \in {"flush", "drain", "pause"} \cup Conns : deadline_passes(d)
  BY <1>19 DEF deadline_passes, Environment, hostVars
<1>20. CASE descriptors_change
  BY <1>20 DEF descriptors_change, Environment, hostVars
<1>21. CASE UNCHANGED vars
  BY <1>21 DEF vars, hostVars
<1>22. CASE drain_signal_pipe
  <2>1. Running("drain_signal_pipe") /\ todo' = Tail(todo)
    BY <1>22 DEF drain_signal_pipe, Return
  <2> QED
    BY <2>1, Returned
<1>23. CASE read_pty
  <2>1. Running("read_pty") /\ todo' = Tail(todo)
    BY <1>23 DEF read_pty, Return
  <2> QED
    BY <2>1, Returned
<1>24. CASE finish_drain
  <2>1. Running("finish_drain") /\ todo' = Tail(todo)
    BY <1>24 DEF finish_drain, Return
  <2> QED
    BY <2>1, Returned
<1>25. CASE write_input
  <2>1. Running("write_input") /\ todo' = Tail(todo)
    BY <1>25 DEF write_input, Return
  <2> QED
    BY <2>1, Returned
<1>26. CASE close_receive
  <2>1. Running("close_receive") /\ todo' = Tail(todo)
    BY <1>26 DEF close_receive, Return
  <2> QED
    BY <2>1, Returned
<1>27. CASE close_drop
  <2>1. Running("close_drop") /\ todo' = Tail(todo)
    BY <1>27 DEF close_drop, Return
  <2> QED
    BY <2>1, Returned
<1>28. CASE act_on_buffered
  <2>1. Running("act_on_buffered") /\ todo' = Tail(todo)
    BY <1>28 DEF act_on_buffered, Return
  <2> QED
    BY <2>1, Returned
<1>29. CASE expire_pending
  <2>1. Running("expire_pending") /\ todo' = Tail(todo)
    BY <1>29 DEF expire_pending, Return
  <2> QED
    BY <2>1, Returned
<1>30. CASE step_begin
  <2>1. todo' = <<Do("refill_outgoing"), Do("poll")>>
    BY <1>30 DEF step_begin
  <2> QED
    BY <2>1, AsleepOps
<1>31. CASE poll
  <2>1. Running("poll") /\ todo' = Agenda \o Tail(todo)
    BY <1>31 DEF poll, Call
  <2>2. Tail(todo) = <<>>
    BY <2>1, Returned
  <2> DEFINE t == Agenda
  <2>3. AgendaOK(t)
    BY AgendaIsOK
  <2> HIDE DEF t
  <2>4. t \o <<>> = t
    BY <2>3 DEF AgendaOK
  <2> QED
    BY <2>1, <2>2, <2>3, <2>4 DEF t
<1>32. CASE poll_interrupted
  <2> DEFINE s == <<Do("reap_child"), Do("finish_drain"), Do("expire_pending")>>
             t == Then(s, LastLook)
  <2>1. Running("poll") /\ todo' = (s \o LastLook) \o Tail(todo)
    BY <1>32 DEF poll_interrupted, Call
  <2>2. Tail(todo) = <<>>
    BY <2>1, Returned
  <2>3. AgendaOK(t)
    BY InterruptedAgendaIsOK
  <2>4. s \o LastLook = t
    BY DEF Then
  <2> HIDE DEF t, s
  <2>5. t \o <<>> = t
    BY <2>3 DEF AgendaOK
  <2> QED
    BY <2>1, <2>2, <2>3, <2>4, <2>5
<1>33. CASE reap_child
  <2> DEFINE x == Do("read_pty")
  <2>1. Running("reap_child") /\ (todo' = Cons(x, Tail(todo)) \/ todo' = Tail(todo))
    BY <1>33 DEF reap_child, Return, Call, Cons
  <2>2. x \in Entry /\ x.op = "read_pty"
    BY EntryType DEF Ops
  <2> HIDE DEF x
  <2>3. AgendaOK(Cons(x, Tail(todo))) /\ AgendaOK(Tail(todo))
    BY <2>1, <2>2, Returned, CalledOne
  <2> QED
    BY <2>1, <2>3
<1>34. CASE refill_outgoing
  <2>1. Running("refill_outgoing") /\ (todo' = todo \/ todo' = Tail(todo))
    BY <1>34 DEF refill_outgoing, Return
  <2> QED
    BY <2>1, Returned
<1>35. CASE write_client
  <2> DEFINE x1 == Do("close_client")
  <2>1. Running("write_client") /\ (todo' = todo \/ todo' = Tail(todo) \/ todo' = Cons(x1, Tail(todo)))
    BY <1>35 DEF write_client, Return, Call, Cons
  <2>2. x1 \in Entry /\ x1.op = "close_client"
    BY EntryType DEF Ops
  <2> HIDE DEF x1
  <2>3. AgendaOK(Cons(x1, Tail(todo)))
    BY <2>1, <2>2, CalledOne
  <2>4. AgendaOK(Tail(todo))
    BY <2>1, Returned
  <2> QED
    BY <2>1, <2>3, <2>4
<1>36. CASE read_client
  <2> DEFINE x1 == Do("close_client")
             x2 == Do("act_on_buffered")
  <2>1. Running("read_client") /\ (todo' = todo \/ todo' = Tail(todo) \/ todo' = Cons(x1, Tail(todo)) \/ todo' = Cons(x2, Tail(todo)))
    BY <1>36 DEF read_client, Return, Call, Cons
  <2>2. x1 \in Entry /\ x1.op = "close_client" /\ x2 \in Entry /\ x2.op = "act_on_buffered"
    BY EntryType DEF Ops
  <2> HIDE DEF x1, x2
  <2>3. AgendaOK(Cons(x1, Tail(todo)))
    BY <2>1, <2>2, CalledOne
  <2>4. AgendaOK(Cons(x2, Tail(todo)))
    BY <2>1, <2>2, CalledOne
  <2>5. AgendaOK(Tail(todo))
    BY <2>1, Returned
  <2> QED
    BY <2>1, <2>3, <2>4, <2>5
<1>37. CASE read_pending
  <2> DEFINE x1 == Do("close_client")
             x2 == Do("act_on_buffered")
  <2>1. Running("read_pending") /\ (todo' = todo \/ todo' = Tail(todo) \/ todo' = Cons(x1, Tail(todo)) \/ todo' = Cons(x2, Tail(todo)))
    BY <1>37 DEF read_pending, Return, Call, Cons
  <2>2. x1 \in Entry /\ x1.op = "close_client" /\ x2 \in Entry /\ x2.op = "act_on_buffered"
    BY EntryType DEF Ops
  <2> HIDE DEF x1, x2
  <2>3. AgendaOK(Cons(x1, Tail(todo)))
    BY <2>1, <2>2, CalledOne
  <2>4. AgendaOK(Cons(x2, Tail(todo)))
    BY <2>1, <2>2, CalledOne
  <2>5. AgendaOK(Tail(todo))
    BY <2>1, Returned
  <2> QED
    BY <2>1, <2>3, <2>4, <2>5
<1>38. CASE accept
  <2> DEFINE x == Accept(Head(todo).n - 1)
  <2>1. Running("accept") /\ (todo' = Tail(todo) \/ (Head(todo).n # 0 /\ todo' = Cons(x, Tail(todo))))
    BY <1>38 DEF accept, Return, Call, Cons
  <2>2. AgendaOK(Tail(todo)) /\ Head(todo) \in Entry
    BY <2>1, Returned
  <2>3. CASE Head(todo).n = 0
    BY <2>1, <2>2, <2>3
  <2>4. CASE Head(todo).n # 0
    <3>1. Head(todo).n - 1 \in Nat
      BY <2>2, <2>4, EntryType
    <3>2. x \in Entry /\ x.op = "accept"
      BY <3>1, EntryType
    <3> HIDE DEF x
    <3>3. AgendaOK(Cons(x, Tail(todo)))
      BY <2>1, <3>2, CalledOne
    <3> QED
      BY <2>1, <2>2, <3>3
  <2> QED
    BY <2>3, <2>4
<1>39. CASE close_client
  <2> DEFINE s == <<Do("act_on_buffered"), Do("close_receive"), Do("act_on_buffered"),
                    Do("close_drop")>>
             t == Then(s, Tail(todo))
  <2>1. Running("close_client") /\ (todo' = Tail(todo) \/ todo' = t)
    BY <1>39 DEF close_client, Return, Call, Then
  <2>2. AgendaOK(Tail(todo)) /\ todo # <<>> /\ todo[1].op = "close_client"
    BY <2>1, Returned
  <2>3. AgendaOK(t)
    BY <2>2, CallClose
  <2> QED
    BY <2>1, <2>2, <2>3
<1> QED
  BY <1>1, <1>2, <1>3, <1>4, <1>5, <1>6, <1>7, <1>8, <1>9, <1>10, <1>11, <1>12, <1>13, <1>14, <1>15, <1>16, <1>17, <1>18, <1>19, <1>20, <1>21, <1>22, <1>23, <1>24, <1>25, <1>26, <1>27, <1>28, <1>29, <1>30, <1>31, <1>32, <1>33, <1>34, <1>35, <1>36, <1>37, <1>38, <1>39 DEF Next, HostStep, EnvironmentStep

\* The handlers that serve connections.
Serving ==
    \/ write_input \/ write_client \/ read_client \/ close_client \/ close_receive \/ close_drop
    \/ read_pending \/ expire_pending \/ accept

\* None of them is the last of an iteration, and none skips the child or the drain.
LEMMA ServingStep ==
    ASSUME AgendaOK(todo), Serving
    PROVE  /\ Busy(todo) /\ Busy(todo')
           /\ \A op \in {"finish_drain", "reap_child"} : op \in OpsOf(todo) => op \in OpsOf(todo')
<1>1. CASE write_input
  <2>1. Running("write_input") /\ todo' = Tail(todo)
    BY <1>1 DEF write_input, Return
  <2>2. Busy(todo) /\ Busy(Tail(todo))
    BY <2>1, ReturnedBusy
  <2>3. \A x : x \in OpsOf(todo) <=> (x = "write_input" \/ x \in OpsOf(Tail(todo)))
    BY <2>1, ReturnedOps
  <2> QED
    BY <2>1, <2>2, <2>3
<1>2. CASE close_receive
  <2>1. Running("close_receive") /\ todo' = Tail(todo)
    BY <1>2 DEF close_receive, Return
  <2>2. Busy(todo) /\ Busy(Tail(todo))
    BY <2>1, ReturnedBusy
  <2>3. \A x : x \in OpsOf(todo) <=> (x = "close_receive" \/ x \in OpsOf(Tail(todo)))
    BY <2>1, ReturnedOps
  <2> QED
    BY <2>1, <2>2, <2>3
<1>3. CASE close_drop
  <2>1. Running("close_drop") /\ todo' = Tail(todo)
    BY <1>3 DEF close_drop, Return
  <2>2. Busy(todo) /\ Busy(Tail(todo))
    BY <2>1, ReturnedBusy
  <2>3. \A x : x \in OpsOf(todo) <=> (x = "close_drop" \/ x \in OpsOf(Tail(todo)))
    BY <2>1, ReturnedOps
  <2> QED
    BY <2>1, <2>2, <2>3
<1>4. CASE expire_pending
  <2>1. Running("expire_pending") /\ todo' = Tail(todo)
    BY <1>4 DEF expire_pending, Return
  <2>2. Busy(todo) /\ Busy(Tail(todo))
    BY <2>1, ReturnedBusy
  <2>3. \A x : x \in OpsOf(todo) <=> (x = "expire_pending" \/ x \in OpsOf(Tail(todo)))
    BY <2>1, ReturnedOps
  <2> QED
    BY <2>1, <2>2, <2>3
<1>5. CASE write_client
  <2> DEFINE x1 == Do("close_client")
  <2>1. Running("write_client") /\ (todo' = todo \/ todo' = Tail(todo) \/ todo' = Cons(x1, Tail(todo)))
    BY <1>5 DEF write_client, Return, Call, Cons
  <2>2. x1 \in Entry /\ x1.op = "close_client"
    BY EntryType DEF Ops
  <2> HIDE DEF x1
  <2>3. Busy(Cons(x1, Tail(todo)))
        /\ \A y : y \in OpsOf(Cons(x1, Tail(todo))) <=> (y = x1.op \/ y \in OpsOf(Tail(todo)))
    BY <2>1, <2>2, CalledOne
  <2>4. /\ Busy(Tail(todo)) /\ Busy(todo)
        /\ \A y : y \in OpsOf(todo) <=> (y = "write_client" \/ y \in OpsOf(Tail(todo)))
    <3>1. Busy(Tail(todo)) /\ Busy(todo)
      BY <2>1, ReturnedBusy
    <3>2. \A y : y \in OpsOf(todo) <=> (y = "write_client" \/ y \in OpsOf(Tail(todo)))
      BY <2>1, ReturnedOps
    <3> QED
      BY <3>1, <3>2
  <2> QED
    BY <2>1, <2>3, <2>4
<1>6. CASE read_client
  <2> DEFINE x1 == Do("close_client")
             x2 == Do("act_on_buffered")
  <2>1. Running("read_client") /\ (todo' = todo \/ todo' = Tail(todo) \/ todo' = Cons(x1, Tail(todo)) \/ todo' = Cons(x2, Tail(todo)))
    BY <1>6 DEF read_client, Return, Call, Cons
  <2>2. x1 \in Entry /\ x1.op = "close_client" /\ x2 \in Entry /\ x2.op = "act_on_buffered"
    BY EntryType DEF Ops
  <2> HIDE DEF x1, x2
  <2>3. Busy(Cons(x1, Tail(todo)))
        /\ \A y : y \in OpsOf(Cons(x1, Tail(todo))) <=> (y = x1.op \/ y \in OpsOf(Tail(todo)))
    BY <2>1, <2>2, CalledOne
  <2>4. Busy(Cons(x2, Tail(todo)))
        /\ \A y : y \in OpsOf(Cons(x2, Tail(todo))) <=> (y = x2.op \/ y \in OpsOf(Tail(todo)))
    BY <2>1, <2>2, CalledOne
  <2>5. /\ Busy(Tail(todo)) /\ Busy(todo)
        /\ \A y : y \in OpsOf(todo) <=> (y = "read_client" \/ y \in OpsOf(Tail(todo)))
    <3>1. Busy(Tail(todo)) /\ Busy(todo)
      BY <2>1, ReturnedBusy
    <3>2. \A y : y \in OpsOf(todo) <=> (y = "read_client" \/ y \in OpsOf(Tail(todo)))
      BY <2>1, ReturnedOps
    <3> QED
      BY <3>1, <3>2
  <2> QED
    BY <2>1, <2>3, <2>4, <2>5
<1>7. CASE read_pending
  <2> DEFINE x1 == Do("close_client")
             x2 == Do("act_on_buffered")
  <2>1. Running("read_pending") /\ (todo' = todo \/ todo' = Tail(todo) \/ todo' = Cons(x1, Tail(todo)) \/ todo' = Cons(x2, Tail(todo)))
    BY <1>7 DEF read_pending, Return, Call, Cons
  <2>2. x1 \in Entry /\ x1.op = "close_client" /\ x2 \in Entry /\ x2.op = "act_on_buffered"
    BY EntryType DEF Ops
  <2> HIDE DEF x1, x2
  <2>3. Busy(Cons(x1, Tail(todo)))
        /\ \A y : y \in OpsOf(Cons(x1, Tail(todo))) <=> (y = x1.op \/ y \in OpsOf(Tail(todo)))
    BY <2>1, <2>2, CalledOne
  <2>4. Busy(Cons(x2, Tail(todo)))
        /\ \A y : y \in OpsOf(Cons(x2, Tail(todo))) <=> (y = x2.op \/ y \in OpsOf(Tail(todo)))
    BY <2>1, <2>2, CalledOne
  <2>5. /\ Busy(Tail(todo)) /\ Busy(todo)
        /\ \A y : y \in OpsOf(todo) <=> (y = "read_pending" \/ y \in OpsOf(Tail(todo)))
    <3>1. Busy(Tail(todo)) /\ Busy(todo)
      BY <2>1, ReturnedBusy
    <3>2. \A y : y \in OpsOf(todo) <=> (y = "read_pending" \/ y \in OpsOf(Tail(todo)))
      BY <2>1, ReturnedOps
    <3> QED
      BY <3>1, <3>2
  <2> QED
    BY <2>1, <2>3, <2>4, <2>5
<1>8. CASE accept
  <2> DEFINE x == Accept(Head(todo).n - 1)
  <2>1. Running("accept") /\ (todo' = Tail(todo) \/ (Head(todo).n # 0 /\ todo' = Cons(x, Tail(todo))))
    BY <1>8 DEF accept, Return, Call, Cons
  <2>2. /\ Busy(todo) /\ Busy(Tail(todo)) /\ Head(todo) \in Entry
        /\ \A y : y \in OpsOf(todo) <=> (y = "accept" \/ y \in OpsOf(Tail(todo)))
    <3>1. /\ Busy(Tail(todo)) /\ Busy(todo) /\ todo # <<>> /\ todo[1].op = "accept"
          /\ Head(todo) \in Entry
      BY <2>1, ReturnedBusy
    <3>2. \A y : y \in OpsOf(todo) <=> (y = "accept" \/ y \in OpsOf(Tail(todo)))
      BY <2>1, ReturnedOps
    <3> QED
      BY <3>1, <3>2
  <2>3. CASE Head(todo).n = 0
    BY <2>1, <2>2, <2>3
  <2>4. CASE Head(todo).n # 0
    <3>1. Head(todo).n - 1 \in Nat
      BY <2>2, <2>4, EntryType
    <3>2. x \in Entry /\ x.op = "accept"
      BY <3>1, EntryType
    <3> HIDE DEF x
    <3>3. Busy(Cons(x, Tail(todo)))
          /\ \A y : y \in OpsOf(Cons(x, Tail(todo))) <=> (y = x.op \/ y \in OpsOf(Tail(todo)))
      BY <2>1, <3>2, CalledOne
    <3> QED
      BY <2>1, <2>2, <3>3
  <2> QED
    BY <2>3, <2>4
<1>9. CASE close_client
  <2> DEFINE s == <<Do("act_on_buffered"), Do("close_receive"), Do("act_on_buffered"),
                    Do("close_drop")>>
             t == Then(s, Tail(todo))
  <2>1. Running("close_client") /\ (todo' = Tail(todo) \/ todo' = t)
    BY <1>9 DEF close_client, Return, Call, Then
  <2>2. /\ Busy(todo) /\ Busy(Tail(todo)) /\ todo # <<>> /\ todo[1].op = "close_client"
        /\ \A y : y \in OpsOf(todo) <=> (y = "close_client" \/ y \in OpsOf(Tail(todo)))
    <3>1. /\ Busy(Tail(todo)) /\ Busy(todo) /\ todo # <<>> /\ todo[1].op = "close_client"
          /\ Head(todo) \in Entry
      BY <2>1, ReturnedBusy
    <3>2. \A y : y \in OpsOf(todo) <=> (y = "close_client" \/ y \in OpsOf(Tail(todo)))
      BY <2>1, ReturnedOps
    <3> QED
      BY <3>1, <3>2
  <2>3. /\ Busy(t)
        /\ \A op : op \in OpsOf(t) <=>
                (op \in {"act_on_buffered", "close_receive", "close_drop"} \/ op \in OpsOf(Tail(todo)))
    BY <2>2, CallClose
  <2> HIDE DEF t
  <2> QED
    BY <2>1, <2>2, <2>3
<1> QED
  BY <1>1, <1>2, <1>3, <1>4, <1>5, <1>6, <1>7, <1>8, <1>9 DEF Serving

-----------------------------------------------------------------------------
(* Nothing that could be done is left without what wakes the loop.         *)

LEMMA BusyOps ==
    ASSUME AgendaOK(todo), Busy(todo)
    PROVE  ~ Asleep(todo) /\ todo # <<Do("poll")>> /\ "poll" \notin OpsOf(todo)
BY BusyIsAwake DEF AgendaOK, Busy

\* While the last look is ahead, only the drain and the child matter.
LEMMA WokenWhileBusy ==
    ASSUME AgendaOK(todo'), Busy(todo'),
           "finish_drain" \in OpsOf(todo') \/ (draining' # None => pty_open' /\ output' # <<>>),
           child' = "zombie" => (sigPipe' \/ "reap_child" \in OpsOf(todo'))
    PROVE  Woken'
<1>1. todo' \in Seq(Entry)
  BY DEF AgendaOK
<1>2. ~ Asleep(todo') /\ todo' # <<Do("poll")>>
  BY <1>1, BusyIsAwake
<1>3. "poll" \notin OpsOf(todo')
  BY DEF Busy
<1> QED
  BY <1>2, <1>3 DEF Woken

LEMMA WokenServing ==
    ASSUME AgendaOK(todo'), Busy(todo'), Woken,
           \A op \in {"finish_drain", "reap_child"} : op \in OpsOf(todo) => op \in OpsOf(todo'),
           UNCHANGED <<draining, pty_open, output, child, sigPipe>>
    PROVE  Woken'
<1>1. "finish_drain" \in OpsOf(todo') \/ (draining' # None => pty_open' /\ output' # <<>>)
  BY DEF Woken
<1>2. child' = "zombie" => (sigPipe' \/ "reap_child" \in OpsOf(todo'))
  BY DEF Woken
<1> QED
  BY <1>1, <1>2, WokenWhileBusy

\* What Stops depends on.
LEMMA StopsSame ==
    ASSUME Stops, UNCHANGED <<client, sent, received, acted>>
    PROVE  Stops'
BY DEF Stops, OverHighWater, NoFrame, InputHeld, Buffered, NextFrame

\* More that is queued, or sent, changes nothing about that.
LEMMA StopsWithRecord ==
    ASSUME Stops, client # None, client' # None, UNCHANGED <<sent, received, acted>>,
           client'.conn = client.conn, client'.closing = client.closing,
           client'.gone = client.gone, client'.input_cost = client.input_cost,
           client.unsent \in Nat, client'.unsent \in Nat, client'.unsent >= client.unsent
    PROVE  Stops'
<1>1. OUTGOING_HIGH_WATER \in Nat
  BY HostConstants
<1>2. OverHighWater => OverHighWater'
  BY <1>1 DEF OverHighWater
<1>3. NoFrame => NoFrame'
  BY DEF NoFrame, Buffered
<1>4. InputHeld => InputHeld'
  BY DEF InputHeld, NoFrame, Buffered, NextFrame
<1> QED
  BY <1>2, <1>3, <1>4 DEF Stops

LEMMA StopsWithFrame ==
    ASSUME TypeOK, Connections, Stops, NEW c \in Conns, NEW frame,
           sent' = [sent EXCEPT ![c] = Append(@, frame)],
           UNCHANGED <<client, received, acted>>
    PROVE  Stops'
<1>1. CASE client = None
  BY <1>1 DEF Stops
<1>2. CASE client # None
  <2> DEFINE d == client.conn
  <2>1. d \in Conns
    BY <1>2, ClientType DEF TypeOK
  <2>2. /\ acted[d] \in Nat /\ received[d] \in Nat /\ sent[d] \in Seq(Hellos \cup Frames)
        /\ sent \in [Conns -> Seq(Hellos \cup Frames)]
    BY <2>1 DEF TypeOK
  <2>3. acted[d] <= received[d] /\ received[d] <= Len(sent[d])
    BY <2>1 DEF Connections, Counted
  <2>4. sent'[d] = IF d = c THEN Append(sent[d], frame) ELSE sent[d]
    BY <2>1, <2>2
  <2>5. ~ NoFrame => acted[d] + 1 \in 1 .. Len(sent[d])
    BY <2>2, <2>3 DEF NoFrame, Buffered
  <2>6. NoFrame' <=> NoFrame
    BY DEF NoFrame, Buffered
  <2>7. ~ NoFrame => NextFrame' = NextFrame
    <3> SUFFICES ASSUME ~ NoFrame PROVE sent'[d][acted[d] + 1] = sent[d][acted[d] + 1]
      BY DEF NextFrame
    <3> QED
      BY <2>2, <2>4, <2>5
  <2>8. InputHeld => InputHeld'
    BY <2>6, <2>7 DEF InputHeld
  <2>9. OverHighWater => OverHighWater'
    BY DEF OverHighWater
  <2> QED
    BY <1>2, <2>6, <2>8, <2>9 DEF Stops
<1> QED
  BY <1>1, <1>2

LEMMA WokenSame ==
    ASSUME Woken, UNCHANGED <<todo, client, journal, sent, received, acted, draining, pty_open,
                              output, child, sigPipe, sigterm>>
    PROVE  Woken'
<1>1. Asleep(todo') => Stops'
  BY StopsSame DEF Woken
<1>2. todo' = <<Do("poll")>> => ~ CanRefill'
  BY DEF Woken, CanRefill
<1> QED
  BY <1>1, <1>2 DEF Woken

LEMMA WokenStep ==
    ASSUME TypeOK, AgendaOK(todo), Woken, Exits, Connections, Served, [Next]_vars, AgendaOK(todo')
    PROVE  Woken'
<1> USE DEF Environment, hostVars, connVars, kernelVars
<1>1. CASE step_terminated
  <2>1. UNCHANGED <<todo, client, journal, sent, received, acted, draining, pty_open,
                    output, child, sigPipe, sigterm>>
    BY <1>1 DEF step_terminated
  <2> QED
    BY <2>1, WokenSame
<1>2. CASE \E c \in Conns : connect(c)
  <2>1. UNCHANGED <<todo, client, journal, sent, received, acted, draining, pty_open,
                    output, child, sigPipe, sigterm>>
    BY <1>2 DEF connect
  <2> QED
    BY <2>1, WokenSame
<1>3. CASE \E c \in Conns : \E how \in {"half", "closed"} : peer_closes(c, how)
  <2>1. UNCHANGED <<todo, client, journal, sent, received, acted, draining, pty_open,
                    output, child, sigPipe, sigterm>>
    BY <1>3 DEF peer_closes
  <2> QED
    BY <2>1, WokenSame
<1>4. CASE \E c \in Conns : peer_takes(c)
  <2>1. UNCHANGED <<todo, client, journal, sent, received, acted, draining, pty_open,
                    output, child, sigPipe, sigterm>>
    BY <1>4 DEF peer_takes
  <2> QED
    BY <2>1, WokenSame
<1>5. CASE program_takes
  <2>1. UNCHANGED <<todo, client, journal, sent, received, acted, draining, pty_open,
                    output, child, sigPipe, sigterm>>
    BY <1>5 DEF program_takes
  <2> QED
    BY <2>1, WokenSame
<1>6. CASE \E who \in {"child", "other"} : let_go(who)
  <2>1. UNCHANGED <<todo, client, journal, sent, received, acted, draining, pty_open,
                    output, child, sigPipe, sigterm>>
    BY <1>6 DEF let_go
  <2> QED
    BY <2>1, WokenSame
<1>7. CASE \E d \in {"flush", "drain", "pause"} \cup Conns : deadline_passes(d)
  <2>1. UNCHANGED <<todo, client, journal, sent, received, acted, draining, pty_open,
                    output, child, sigPipe, sigterm>>
    BY <1>7 DEF deadline_passes
  <2> QED
    BY <2>1, WokenSame
<1>8. CASE descriptors_change
  <2>1. UNCHANGED <<todo, client, journal, sent, received, acted, draining, pty_open,
                    output, child, sigPipe, sigterm>>
    BY <1>8 DEF descriptors_change
  <2> QED
    BY <2>1, WokenSame
<1>9. CASE UNCHANGED vars
  <2>1. UNCHANGED <<todo, client, journal, sent, received, acted, draining, pty_open,
                    output, child, sigPipe, sigterm>>
    BY <1>9 DEF vars
  <2> QED
    BY <2>1, WokenSame
<1>10. CASE step_ended
  <2>1. todo = <<>> /\ todo' = <<>> /\ (client' = None \/ client' = client)
        /\ UNCHANGED <<journal, sent, received, acted, draining, pty_open, output, child, sigPipe, sigterm>>
    BY <1>10 DEF step_ended, drop_client
  <2>2. Stops
    BY <2>1, AsleepOps DEF Woken
  <2>3. Stops'
    <3>1. CASE client' = None
      BY <3>1 DEF Stops
    <3>2. CASE client' = client
      BY <2>1, <2>2, <3>2, StopsSame
    <3> QED
      BY <2>1, <3>1, <3>2
  <2>4. <<>> # <<Do("poll")>>
    OBVIOUS
  <2> QED
    BY <2>1, <2>3, <2>4, AsleepOps DEF Woken
<1>11. CASE step_begin
  <2> DEFINE t == <<Do("refill_outgoing"), Do("poll")>>
  <2>1. todo = <<>> /\ todo' = t /\ (client' = None \/ client' = client) /\ ~ sigterm
        /\ UNCHANGED <<journal, sent, received, acted, draining, pty_open, output, child, sigPipe, sigterm>>
    BY <1>11 DEF step_begin
  <2>2. Stops
    BY <2>1, AsleepOps DEF Woken
  <2>3. Stops'
    <3>1. CASE client' = None
      BY <3>1 DEF Stops
    <3>2. CASE client' = client
      BY <2>1, <2>2, <3>2, StopsSame
    <3> QED
      BY <2>1, <3>1, <3>2
  <2>4. t # <<Do("poll")>>
    OBVIOUS
  <2>5. OpsOf(todo) = {} /\ OpsOf(t) = {"refill_outgoing", "poll"}
    BY <2>1, AsleepOps
  <2>6. /\ draining # None => pty_open /\ output # <<>>
        /\ child = "zombie" => sigPipe
    BY <2>5 DEF Woken
  <2> HIDE DEF t
  <2>7. /\ draining' # None => pty_open' /\ output' # <<>>
        /\ child' = "zombie" => sigPipe'
        /\ ~ sigterm'
    BY <2>1, <2>6
  <2>8. todo' # <<Do("poll")>>
    BY <2>1, <2>4
  <2> QED
    BY <2>3, <2>7, <2>8 DEF Woken
<1>12. CASE poll
  <2>1. Running("poll") /\ todo' = Agenda \o Tail(todo)
    BY <1>12 DEF poll, Call
  <2>2. Tail(todo) = <<>>
    BY <2>1, Returned
  <2> DEFINE t == Agenda
  <2>3. AgendaOK(t) /\ Busy(t) /\ "finish_drain" \in OpsOf(t) /\ "reap_child" \in OpsOf(t)
    BY AgendaIsOK DEF Connections
  <2> HIDE DEF t
  <2>4. t \o <<>> = t
    BY <2>3 DEF AgendaOK
  <2>5. todo' = t
    BY <2>1, <2>2, <2>4 DEF t
  <2> QED
    BY <2>3, <2>5, WokenWhileBusy
<1>13. CASE poll_interrupted
  <2> DEFINE s == <<Do("reap_child"), Do("finish_drain"), Do("expire_pending")>>
             t == Then(s, LastLook)
  <2>1. Running("poll") /\ todo' = (s \o LastLook) \o Tail(todo)
    BY <1>13 DEF poll_interrupted, Call
  <2>2. Tail(todo) = <<>>
    BY <2>1, Returned
  <2>3. AgendaOK(t) /\ Busy(t) /\ "finish_drain" \in OpsOf(t) /\ "reap_child" \in OpsOf(t)
    BY InterruptedAgendaIsOK
  <2>4. s \o LastLook = t
    BY DEF Then
  <2> HIDE DEF t, s
  <2>5. t \o <<>> = t
    BY <2>3 DEF AgendaOK
  <2>6. todo' = t
    BY <2>1, <2>2, <2>4, <2>5
  <2> QED
    BY <2>3, <2>6, WokenWhileBusy
<1>14. CASE drain_signal_pipe
  <2>1. Running("drain_signal_pipe") /\ todo' = Tail(todo)
        /\ UNCHANGED <<draining, pty_open, output, child>>
    BY <1>14 DEF drain_signal_pipe, Return
  <2>2. Busy(todo')
    BY <2>1, ReturnedBusy
  <2>3. \A x : x \in OpsOf(todo) <=> (x = "drain_signal_pipe" \/ x \in OpsOf(todo'))
    BY <2>1, ReturnedOps
  <2>4. "reap_child" \in OpsOf(todo') /\ "finish_drain" \in OpsOf(todo')
    BY <2>3 DEF AgendaOK, Drains
  <2> QED
    BY <2>2, <2>4, WokenWhileBusy
<1>15. CASE reap_child
  <2> DEFINE x == Do("read_pty")
  <2>1. Running("reap_child") /\ (todo' = Cons(x, Tail(todo)) \/ todo' = Tail(todo))
        /\ (child = "zombie" => child' = "reaped" \/ child_exit)
        /\ (child' = "zombie" => child = "zombie")
    BY <1>15 DEF reap_child, Return, Call, Cons
  <2>2. x \in Entry /\ x.op = "read_pty"
    BY EntryType DEF Ops
  <2> HIDE DEF x
  <2>3. /\ Busy(Cons(x, Tail(todo)))
        /\ \A y : y \in OpsOf(Cons(x, Tail(todo))) <=> (y = x.op \/ y \in OpsOf(Tail(todo)))
    BY <2>1, <2>2, CalledOne
  <2>4. Busy(Tail(todo))
    BY <2>1, ReturnedBusy
  <2>5. \A y : y \in OpsOf(todo) <=> (y = "reap_child" \/ y \in OpsOf(Tail(todo)))
    BY <2>1, ReturnedOps
  <2>6. "finish_drain" \in OpsOf(Tail(todo))
    BY <2>5 DEF AgendaOK, Drains
  <2>7. "finish_drain" \in OpsOf(todo') /\ Busy(todo')
    BY <2>1, <2>3, <2>4, <2>6
  <2>8. child' # "zombie"
    BY <2>1 DEF Exits
  <2> QED
    BY <2>7, <2>8, WokenWhileBusy
<1>16. CASE read_pty
  <2>1. Running("read_pty") /\ todo' = Tail(todo) /\ UNCHANGED <<child, sigPipe>>
    BY <1>16 DEF read_pty, Return
  <2>2. Busy(todo')
    BY <2>1, ReturnedBusy
  <2>3. \A x : x \in OpsOf(todo) <=> (x = "read_pty" \/ x \in OpsOf(todo'))
    BY <2>1, ReturnedOps
  <2>4. "finish_drain" \in OpsOf(todo')
    BY <2>3 DEF AgendaOK, Drains
  <2>5. child' = "zombie" => (sigPipe' \/ "reap_child" \in OpsOf(todo'))
    BY <2>1, <2>3 DEF Woken
  <2> QED
    BY <2>2, <2>4, <2>5, WokenWhileBusy
<1>17. CASE finish_drain
  <2>1. Running("finish_drain") /\ todo' = Tail(todo) /\ UNCHANGED <<pty_open, output, child, sigPipe>>
        /\ (draining' # None => pty_open /\ output # <<>>)
    BY <1>17 DEF finish_drain, Return, pty_has_more
  <2>2. Busy(todo')
    BY <2>1, ReturnedBusy
  <2>3. \A x : x \in OpsOf(todo) <=> (x = "finish_drain" \/ x \in OpsOf(todo'))
    BY <2>1, ReturnedOps
  <2>4. child' = "zombie" => (sigPipe' \/ "reap_child" \in OpsOf(todo'))
    BY <2>1, <2>3 DEF Woken
  <2>5. draining' # None => pty_open' /\ output' # <<>>
    BY <2>1
  <2> QED
    BY <2>2, <2>4, <2>5, WokenWhileBusy
<1>18. CASE Serving
  <2>1. UNCHANGED <<draining, pty_open, output, child, sigPipe>>
    BY <1>18 DEF Serving, write_input, write_client, read_client, close_client, close_receive,
           close_drop, read_pending, expire_pending, accept
  <2>2. Busy(todo') /\ \A op \in {"finish_drain", "reap_child"} : op \in OpsOf(todo) => op \in OpsOf(todo')
    BY <1>18, ServingStep
  <2> QED
    BY <2>1, <2>2, WokenServing
<1>19. CASE handle_malformed
  <2>1. Running("act_on_buffered") /\ todo' = todo
        /\ UNCHANGED <<draining, pty_open, output, child, sigPipe>>
    BY <1>19 DEF handle_malformed, Acting
  <2>2. Busy(todo')
    BY <2>1, Returned
  <2> QED
    BY <2>1, <2>2, WokenServing
<1>20. CASE handle_hello
  <2>1. Running("act_on_buffered") /\ todo' = todo
        /\ UNCHANGED <<draining, pty_open, output, child, sigPipe>>
    BY <1>20 DEF handle_hello, Acting
  <2>2. Busy(todo')
    BY <2>1, Returned
  <2> QED
    BY <2>1, <2>2, WokenServing
<1>21. CASE handle_info_snapshot
  <2>1. Running("act_on_buffered") /\ todo' = todo
        /\ UNCHANGED <<draining, pty_open, output, child, sigPipe>>
    BY <1>21 DEF handle_info_snapshot, Acting
  <2>2. Busy(todo')
    BY <2>1, Returned
  <2> QED
    BY <2>1, <2>2, WokenServing
<1>22. CASE handle_read
  <2>1. Running("act_on_buffered") /\ todo' = todo
        /\ UNCHANGED <<draining, pty_open, output, child, sigPipe>>
    BY <1>22 DEF handle_read, Acting
  <2>2. Busy(todo')
    BY <2>1, Returned
  <2> QED
    BY <2>1, <2>2, WokenServing
<1>23. CASE handle_input
  <2>1. Running("act_on_buffered") /\ todo' = todo
        /\ UNCHANGED <<draining, pty_open, output, child, sigPipe>>
    BY <1>23 DEF handle_input, Acting
  <2>2. Busy(todo')
    BY <2>1, Returned
  <2> QED
    BY <2>1, <2>2, WokenServing
<1>24. CASE handle_resize
  <2>1. Running("act_on_buffered") /\ todo' = todo
        /\ UNCHANGED <<draining, pty_open, output, child, sigPipe>>
    BY <1>24 DEF handle_resize, Acting
  <2>2. Busy(todo')
    BY <2>1, Returned
  <2> QED
    BY <2>1, <2>2, WokenServing
<1>25. CASE handle_shutdown
  <2>1. Running("act_on_buffered") /\ todo' = todo
        /\ UNCHANGED <<draining, pty_open, output, child, sigPipe>>
    BY <1>25 DEF handle_shutdown, Acting
  <2>2. Busy(todo')
    BY <2>1, Returned
  <2> QED
    BY <2>1, <2>2, WokenServing
<1>26. CASE act_on_buffered
  <2>1. Running("act_on_buffered") /\ Stops /\ todo' = Tail(todo)
        /\ UNCHANGED <<client, journal, sent, received, acted, draining, pty_open, output, child,
                        sigPipe, sigterm>>
    BY <1>26 DEF act_on_buffered, Return
  <2>2. Busy(todo)
    BY <2>1, Returned
  <2>3. \A x : x \in OpsOf(todo) <=> (x = "act_on_buffered" \/ x \in OpsOf(todo'))
    BY <2>1, ReturnedOps
  <2>4. "poll" \notin OpsOf(todo')
    BY <2>2, <2>3, BusyOps
  <2>5. todo' # <<Do("poll")>>
    <3>1. todo' \in Seq(Entry)
      BY DEF AgendaOK
    <3>2. \A i \in 1 .. Len(todo') : todo'[i].op # "poll"
      BY <2>4, <3>1, OpsOfAt
    <3>3. todo' = <<Do("poll")>> => 1 \in 1 .. Len(todo') /\ todo'[1].op = "poll"
      BY DEF Do
    <3> QED
      BY <3>2, <3>3
  <2>6. Stops'
    BY <2>1, StopsSame
  <2>7. "finish_drain" \notin OpsOf(todo') /\ draining' # None => pty_open' /\ output' # <<>>
    BY <2>1, <2>3 DEF Woken
  <2>8. child' = "zombie" => (sigPipe' \/ "reap_child" \in OpsOf(todo'))
    BY <2>1, <2>3 DEF Woken
  <2> QED
    BY <2>4, <2>5, <2>6, <2>7, <2>8 DEF Woken
<1>27. CASE refill_outgoing
  <2>1. /\ Running("refill_outgoing")
        /\ UNCHANGED <<journal, sent, received, acted, draining, pty_open, output, child,
                        sigPipe, sigterm>>
        /\ CanRefill => todo' = todo
        /\ ~ CanRefill => todo' = Tail(todo) /\ client' = client
    BY <1>27 DEF refill_outgoing, Return
  <2>2. CASE CanRefill
    <3>1. client # None /\ client.reading /\ client.unsent < OUTGOING_HIGH_WATER
      BY <2>2 DEF CanRefill
    <3>2. client \in Clients /\ client.unsent \in Nat
      BY <3>1, ClientType DEF TypeOK
    <3>3. client' = [client EXCEPT !.outgoing = Append(@, Out("Record", client.cursor + 1)),
                                   !.unsent = @ + FRAME, !.cursor = @ + 1]
      BY <1>27, <2>2 DEF refill_outgoing
    <3>4. /\ client'.conn = client.conn /\ client'.closing = client.closing
          /\ client'.gone = client.gone /\ client'.input_cost = client.input_cost
          /\ client'.unsent = client.unsent + FRAME
      BY <3>2, <3>3 DEF Clients
    <3>5. client'.unsent \in Nat /\ client'.unsent >= client.unsent
      BY <3>2, <3>4, HostConstants
    <3>6. CASE Busy(todo)
      BY <2>1, <2>2, <3>6, WokenServing
    <3>7. CASE Asleep(todo)
      <4>1. Stops
        BY <3>7 DEF Woken
      <4>2. client' # None
        <5>1. client' \in Clients
          <6> DEFINE x == Out("Record", client.cursor + 1)
          <6>1. client.outgoing \in Seq(Framed) /\ client.cursor + 1 \in Nat
                /\ client.unsent + FRAME \in Nat
            BY <3>2, <3>4, <3>5, ClientType
          <6>2. x \in Framed
            BY <6>1, OutType DEF Kinds
          <6> HIDE DEF x
          <6>3. Append(client.outgoing, x) \in Seq(Framed)
            BY <6>1, <6>2
          <6>4. client' = [client EXCEPT !.outgoing = Append(client.outgoing, x),
                                         !.unsent = client.unsent + FRAME,
                                         !.cursor = client.cursor + 1]
            BY <3>3 DEF x
          <6> QED
            BY <3>2, <6>1, <6>3, <6>4 DEF Clients, Framed
        <5> QED
          BY <5>1, NoneIsNothing
      <4>3. Stops'
        BY <2>1, <3>1, <3>2, <3>4, <3>5, <4>1, <4>2, StopsWithRecord
      <4>4. todo' = todo /\ todo # <<Do("poll")>>
        BY <2>1, <2>2 DEF Running, Do
      <4> QED
        BY <2>1, <4>3, <4>4 DEF Woken
    <3> QED
      BY <3>6, <3>7 DEF AgendaOK
  <2>3. CASE ~ CanRefill
    <3>1. \A x : x \in OpsOf(todo) <=> (x = "refill_outgoing" \/ x \in OpsOf(Tail(todo)))
      BY <2>1, ReturnedOps
    <3>2. \A x : x \in OpsOf(todo) <=> (x = "refill_outgoing" \/ x \in OpsOf(todo'))
      BY <2>1, <2>3, <3>1
    <3>3. CASE Busy(todo')
      BY <2>1, <2>3, <3>2, <3>3, WokenServing
    <3>4. CASE Asleep(todo) /\ ~ Busy(todo')
      <4>1. Stops'
        <5>1. Stops
          BY <3>4 DEF Woken
        <5> QED
          BY <2>1, <2>3, <5>1, StopsSame
      <4>2. ~ CanRefill'
        BY <2>1, <2>3 DEF CanRefill
      <4>3. /\ "finish_drain" \notin OpsOf(todo') /\ draining' # None => pty_open' /\ output' # <<>>
        BY <2>1, <3>2 DEF Woken
      <4>4. child' = "zombie" => (sigPipe' \/ "reap_child" \in OpsOf(todo'))
        BY <2>1, <3>2 DEF Woken
      <4>5. sigterm' /\ "poll" \in OpsOf(todo') => sigPipe'
        BY <2>1, <3>2 DEF Woken
      <4> QED
        BY <4>1, <4>2, <4>3, <4>4, <4>5 DEF Woken
    <3>5. Asleep(todo) \/ Busy(todo')
      <4> DEFINE r == Tail(todo)
      <4>1. r = Tail(todo)
        OBVIOUS
      <4> HIDE DEF r
      <4>2. Asleep(todo) \/ Busy(r)
        BY <2>1, <4>1, Returned
      <4> QED
        BY <2>1, <2>3, <4>2 DEF r
    <3> QED
      BY <3>3, <3>4, <3>5
  <2> QED
    BY <2>2, <2>3
<1>28. CASE \E c \in Conns : \E frame \in Hellos \cup Frames : peer_sends(c, frame)
  <2>1. PICK c \in Conns : \E frame \in Hellos \cup Frames : peer_sends(c, frame)
    BY <1>28
  <2>2. PICK frame \in Hellos \cup Frames : peer_sends(c, frame)
    BY <2>1
  <2>3. /\ UNCHANGED <<todo, client, journal, received, acted, draining, pty_open, output, child,
                        sigPipe, sigterm>>
        /\ sent' = [sent EXCEPT ![c] = Append(@, frame)]
    BY <2>2 DEF peer_sends
  <2>4. Asleep(todo') => Stops'
    <3>1. SUFFICES ASSUME Asleep(todo) PROVE Stops'
      BY <2>3
    <3>2. Stops
      BY <3>1 DEF Woken
    <3> QED
      BY <2>3, <3>2, StopsWithFrame
  <2>5. todo' = <<Do("poll")>> => ~ CanRefill'
    BY <2>3 DEF Woken, CanRefill
  <2> QED
    BY <2>3, <2>4, <2>5 DEF Woken
<1>29. CASE \E who \in {"child", "other"} : program_writes(who)
  <2>1. UNCHANGED <<todo, client, journal, sent, received, acted, draining, pty_open>>
    BY <1>29 DEF program_writes
  <2>2. (\E who : output' = Append(output, who)) /\ UNCHANGED <<child, sigPipe, sigterm>>
    BY <1>29 DEF program_writes
  <2>3. Asleep(todo') => Stops'
    BY <2>1, StopsSame DEF Woken
  <2>4. todo' = <<Do("poll")>> => ~ CanRefill'
    BY <2>1 DEF Woken, CanRefill
  <2> QED
    BY <2>1, <2>2, <2>3, <2>4 DEF Woken
<1>30. CASE child_exits
  <2>1. UNCHANGED <<todo, client, journal, sent, received, acted, draining, pty_open>>
    BY <1>30 DEF child_exits
  <2>2. sigPipe' = TRUE /\ UNCHANGED <<output, sigterm>>
    BY <1>30 DEF child_exits
  <2>3. Asleep(todo') => Stops'
    BY <2>1, StopsSame DEF Woken
  <2>4. todo' = <<Do("poll")>> => ~ CanRefill'
    BY <2>1 DEF Woken, CanRefill
  <2> QED
    BY <2>1, <2>2, <2>3, <2>4 DEF Woken
<1>31. CASE sigterm_arrives
  <2>1. UNCHANGED <<todo, client, journal, sent, received, acted, draining, pty_open>>
    BY <1>31 DEF sigterm_arrives
  <2>2. sigPipe' = TRUE /\ UNCHANGED <<output, child>>
    BY <1>31 DEF sigterm_arrives
  <2>3. Asleep(todo') => Stops'
    BY <2>1, StopsSame DEF Woken
  <2>4. todo' = <<Do("poll")>> => ~ CanRefill'
    BY <2>1 DEF Woken, CanRefill
  <2> QED
    BY <2>1, <2>2, <2>3, <2>4 DEF Woken
<1> QED
  BY <1>1, <1>2, <1>3, <1>4, <1>5, <1>6, <1>7, <1>8, <1>9, <1>10, <1>11, <1>12, <1>13, <1>14, <1>15, <1>16, <1>17, <1>18, <1>19, <1>20, <1>21, <1>22, <1>23, <1>24, <1>25, <1>26, <1>27, <1>28, <1>29, <1>30, <1>31 DEF Next, HostStep, EnvironmentStep, Serving

-----------------------------------------------------------------------------
(* The child, its exit, and the pty.                                       *)

LEMMA ExitsSame ==
    ASSUME Exits, UNCHANGED <<child_exit, child, slave, draining, pty_open, output, journal>>
    PROVE  Exits'
BY DEF Exits, ExitAfterOutput

\* An exit that is journaled stays after what the child wrote.
LEMMA JournalGrows ==
    ASSUME TypeOK, Exits, NEW more \in Seq({"child", "other", "resized"}),
           NEW j, j = Then(journal, more),
           NEW out \in Seq({"child", "other"}),
           \A x \in Range(more) \cup Range(out) : x \in Range(output) \cup {"resized", "other"}
    PROVE  \A i \in 1 .. Len(j) : j[i] = "exited" =>
               /\ i \in 1 .. Len(journal) /\ journal[i] = "exited"
               /\ "child" \notin Range(out)
               /\ \A k \in (i + 1) .. Len(j) : j[k] # "child"
<1> DEFINE RecordKinds == {"child", "other", "resized", "exited", "exited_early"}
<1>1. journal \in Seq(RecordKinds) /\ more \in Seq(RecordKinds)
  BY DEF TypeOK
<1> DEFINE n == Len(journal)
           m == Len(more)
<1>2. /\ n \in Nat /\ m \in Nat /\ Len(j) = n + m
      /\ \A i \in 1 .. n : j[i] = journal[i]
      /\ \A i \in 1 .. m : j[n + i] = more[i]
  <2> HIDE DEF RecordKinds
  <2>1. Len(Then(journal, more)) = Len(journal) + Len(more)
    BY <1>1, ThenAt
  <2>2. \A i \in 1 .. Len(journal) : Then(journal, more)[i] = journal[i]
    BY <1>1, ThenAt
  <2>3. \A i \in 1 .. Len(more) : Then(journal, more)[Len(journal) + i] = more[i]
    BY <1>1 DEF Then
  <2>4. Len(journal) \in Nat /\ Len(more) \in Nat
    BY <1>1
  <2> QED
    BY <2>1, <2>2, <2>3, <2>4
<1>3. \A i \in 1 .. m : more[i] \in Range(more) /\ more[i] # "exited"
  <2>1. \A i \in 1 .. m : more[i] \in {"child", "other", "resized"}
    OBVIOUS
  <2> QED
    BY <2>1 DEF Range
<1> HIDE DEF n, m
<1>4. \A i \in 1 .. (n + m) : i \in 1 .. n \/ (i - n \in 1 .. m /\ n + (i - n) = i)
  BY <1>2
<1> SUFFICES ASSUME NEW i \in 1 .. Len(j), j[i] = "exited"
             PROVE  /\ i \in 1 .. n /\ journal[i] = "exited"
                    /\ "child" \notin Range(out)
                    /\ \A k \in (i + 1) .. Len(j) : j[k] # "child"
  BY DEF n
<1>5. i \in 1 .. n /\ journal[i] = "exited"
  <2>1. i \in 1 .. n
    <3>1. SUFFICES ASSUME i \notin 1 .. n PROVE FALSE
      OBVIOUS
    <3>2. i - n \in 1 .. m /\ j[i] = more[i - n]
      BY <1>2, <1>4, <3>1
    <3> QED
      BY <1>3, <3>2
  <2> QED
    BY <1>2, <2>1
<1>6. "child" \notin Range(output) /\ \A k \in (i + 1) .. n : journal[k] # "child"
  BY <1>5 DEF Exits, ExitAfterOutput, n
<1>7. "child" \notin Range(out) /\ "child" \notin Range(more)
  BY <1>6
<1>8. ASSUME NEW k \in (i + 1) .. Len(j) PROVE j[k] # "child"
  <2>1. k \in 1 .. (n + m)
    BY <1>2, <1>5
  <2>2. CASE k \in 1 .. n
    <3>1. k \in (i + 1) .. n
      BY <1>2, <2>2
    <3> QED
      BY <1>2, <1>6, <2>2, <3>1
  <2>3. CASE k \notin 1 .. n
    <3>1. k - n \in 1 .. m /\ j[k] = more[k - n]
      BY <1>2, <1>4, <2>1, <2>3
    <3> QED
      BY <1>3, <1>7, <3>1
  <2> QED
    BY <2>2, <2>3
<1> QED
  BY <1>5, <1>7, <1>8

\* What a read takes is the front of what is there.
LEMMA FrontAndRest ==
    ASSUME NEW E, NEW s \in Seq(E), NEW n \in 0 .. Len(s)
    PROVE  /\ SubSeq(s, 1, n) \in Seq(E) /\ Len(SubSeq(s, 1, n)) = n
           /\ SubSeq(s, n + 1, Len(s)) \in Seq(E)
           /\ \A x \in Range(SubSeq(s, 1, n)) : x \in Range(s)
           /\ \A x \in Range(SubSeq(s, n + 1, Len(s))) : x \in Range(s)
           /\ n = Len(s) => SubSeq(s, n + 1, Len(s)) = <<>>
<1> DEFINE a == SubSeq(s, 1, n)
           b == SubSeq(s, n + 1, Len(s))
<1>1. a \in Seq(E) /\ Len(a) = n /\ \A i \in 1 .. n : a[i] = s[i]
  OBVIOUS
<1>2. b \in Seq(E) /\ Len(b) = Len(s) - n /\ \A i \in 1 .. (Len(s) - n) : b[i] = s[n + i]
  OBVIOUS
<1>3. DOMAIN s = 1 .. Len(s) /\ Len(s) \in Nat
  OBVIOUS
<1> HIDE DEF a, b
<1>4. \A x \in Range(a) : x \in Range(s)
  BY <1>1, <1>3 DEF Range
<1>5. \A x \in Range(b) : x \in Range(s)
  <2> TAKE x \in Range(b)
  <2>1. PICK i \in 1 .. (Len(s) - n) : b[i] = x
    BY <1>2 DEF Range
  <2>2. n + i \in DOMAIN s
    BY <1>3
  <2> QED
    BY <1>2, <2>1, <2>2 DEF Range
<1>6. n = Len(s) => b = <<>>
  BY <1>2
<1> QED
  BY <1>1, <1>2, <1>4, <1>5, <1>6 DEF a, b

LEMMA ExitsStep ==
    ASSUME TypeOK, Exits, [Next]_vars
    PROVE  Exits'
<1> USE DEF Environment, hostVars, connVars, kernelVars
<1>1. CASE step_terminated
  <2>1. UNCHANGED <<child_exit, child, slave, draining, pty_open, output, journal>>
    BY <1>1 DEF step_terminated
  <2> QED
    BY <2>1, ExitsSame
<1>2. CASE step_ended
  <2>1. UNCHANGED <<child_exit, child, slave, draining, pty_open, output, journal>>
    BY <1>2 DEF step_ended
  <2> QED
    BY <2>1, ExitsSame
<1>3. CASE step_begin
  <2>1. UNCHANGED <<child_exit, child, slave, draining, pty_open, output, journal>>
    BY <1>3 DEF step_begin
  <2> QED
    BY <2>1, ExitsSame
<1>4. CASE poll
  <2>1. UNCHANGED <<child_exit, child, slave, draining, pty_open, output, journal>>
    BY <1>4 DEF poll
  <2> QED
    BY <2>1, ExitsSame
<1>5. CASE poll_interrupted
  <2>1. UNCHANGED <<child_exit, child, slave, draining, pty_open, output, journal>>
    BY <1>5 DEF poll_interrupted
  <2> QED
    BY <2>1, ExitsSame
<1>6. CASE drain_signal_pipe
  <2>1. UNCHANGED <<child_exit, child, slave, draining, pty_open, output, journal>>
    BY <1>6 DEF drain_signal_pipe
  <2> QED
    BY <2>1, ExitsSame
<1>7. CASE write_input
  <2>1. UNCHANGED <<child_exit, child, slave, draining, pty_open, output, journal>>
    BY <1>7 DEF write_input
  <2> QED
    BY <2>1, ExitsSame
<1>8. CASE refill_outgoing
  <2>1. UNCHANGED <<child_exit, child, slave, draining, pty_open, output, journal>>
    BY <1>8 DEF refill_outgoing
  <2> QED
    BY <2>1, ExitsSame
<1>9. CASE write_client
  <2>1. UNCHANGED <<child_exit, child, slave, draining, pty_open, output, journal>>
    BY <1>9 DEF write_client
  <2> QED
    BY <2>1, ExitsSame
<1>10. CASE read_client
  <2>1. UNCHANGED <<child_exit, child, slave, draining, pty_open, output, journal>>
    BY <1>10 DEF read_client
  <2> QED
    BY <2>1, ExitsSame
<1>11. CASE close_client
  <2>1. UNCHANGED <<child_exit, child, slave, draining, pty_open, output, journal>>
    BY <1>11 DEF close_client
  <2> QED
    BY <2>1, ExitsSame
<1>12. CASE close_receive
  <2>1. UNCHANGED <<child_exit, child, slave, draining, pty_open, output, journal>>
    BY <1>12 DEF close_receive
  <2> QED
    BY <2>1, ExitsSame
<1>13. CASE close_drop
  <2>1. UNCHANGED <<child_exit, child, slave, draining, pty_open, output, journal>>
    BY <1>13 DEF close_drop
  <2> QED
    BY <2>1, ExitsSame
<1>14. CASE act_on_buffered
  <2>1. UNCHANGED <<child_exit, child, slave, draining, pty_open, output, journal>>
    BY <1>14 DEF act_on_buffered
  <2> QED
    BY <2>1, ExitsSame
<1>15. CASE handle_malformed
  <2>1. UNCHANGED <<child_exit, child, slave, draining, pty_open, output, journal>>
    BY <1>15 DEF handle_malformed, Acting
  <2> QED
    BY <2>1, ExitsSame
<1>16. CASE handle_hello
  <2>1. UNCHANGED <<child_exit, child, slave, draining, pty_open, output, journal>>
    BY <1>16 DEF handle_hello, Acting
  <2> QED
    BY <2>1, ExitsSame
<1>17. CASE handle_info_snapshot
  <2>1. UNCHANGED <<child_exit, child, slave, draining, pty_open, output, journal>>
    BY <1>17 DEF handle_info_snapshot, Acting
  <2> QED
    BY <2>1, ExitsSame
<1>18. CASE handle_read
  <2>1. UNCHANGED <<child_exit, child, slave, draining, pty_open, output, journal>>
    BY <1>18 DEF handle_read, Acting
  <2> QED
    BY <2>1, ExitsSame
<1>19. CASE handle_input
  <2>1. UNCHANGED <<child_exit, child, slave, draining, pty_open, output, journal>>
    BY <1>19 DEF handle_input, Acting
  <2> QED
    BY <2>1, ExitsSame
<1>20. CASE handle_shutdown
  <2>1. UNCHANGED <<child_exit, child, slave, draining, pty_open, output, journal>>
    BY <1>20 DEF handle_shutdown, Acting
  <2> QED
    BY <2>1, ExitsSame
<1>21. CASE read_pending
  <2>1. UNCHANGED <<child_exit, child, slave, draining, pty_open, output, journal>>
    BY <1>21 DEF read_pending
  <2> QED
    BY <2>1, ExitsSame
<1>22. CASE expire_pending
  <2>1. UNCHANGED <<child_exit, child, slave, draining, pty_open, output, journal>>
    BY <1>22 DEF expire_pending
  <2> QED
    BY <2>1, ExitsSame
<1>23. CASE accept
  <2>1. UNCHANGED <<child_exit, child, slave, draining, pty_open, output, journal>>
    BY <1>23 DEF accept
  <2> QED
    BY <2>1, ExitsSame
<1>24. CASE \E c \in Conns : connect(c)
  <2>1. UNCHANGED <<child_exit, child, slave, draining, pty_open, output, journal>>
    BY <1>24 DEF connect
  <2> QED
    BY <2>1, ExitsSame
<1>25. CASE \E c \in Conns : \E frame \in Hellos \cup Frames : peer_sends(c, frame)
  <2>1. UNCHANGED <<child_exit, child, slave, draining, pty_open, output, journal>>
    BY <1>25 DEF peer_sends
  <2> QED
    BY <2>1, ExitsSame
<1>26. CASE \E c \in Conns : \E how \in {"half", "closed"} : peer_closes(c, how)
  <2>1. UNCHANGED <<child_exit, child, slave, draining, pty_open, output, journal>>
    BY <1>26 DEF peer_closes
  <2> QED
    BY <2>1, ExitsSame
<1>27. CASE \E c \in Conns : peer_takes(c)
  <2>1. UNCHANGED <<child_exit, child, slave, draining, pty_open, output, journal>>
    BY <1>27 DEF peer_takes
  <2> QED
    BY <2>1, ExitsSame
<1>28. CASE program_takes
  <2>1. UNCHANGED <<child_exit, child, slave, draining, pty_open, output, journal>>
    BY <1>28 DEF program_takes
  <2> QED
    BY <2>1, ExitsSame
<1>29. CASE sigterm_arrives
  <2>1. UNCHANGED <<child_exit, child, slave, draining, pty_open, output, journal>>
    BY <1>29 DEF sigterm_arrives
  <2> QED
    BY <2>1, ExitsSame
<1>30. CASE \E d \in {"flush", "drain", "pause"} \cup Conns : deadline_passes(d)
  <2>1. UNCHANGED <<child_exit, child, slave, draining, pty_open, output, journal>>
    BY <1>30 DEF deadline_passes
  <2> QED
    BY <2>1, ExitsSame
<1>31. CASE descriptors_change
  <2>1. UNCHANGED <<child_exit, child, slave, draining, pty_open, output, journal>>
    BY <1>31 DEF descriptors_change
  <2> QED
    BY <2>1, ExitsSame
<1>32. CASE UNCHANGED vars
  <2>1. UNCHANGED <<child_exit, child, slave, draining, pty_open, output, journal>>
    BY <1>32 DEF vars
  <2> QED
    BY <2>1, ExitsSame
<1>33. CASE reap_child
  <2>1. UNCHANGED <<slave, pty_open, output, journal>>
    BY <1>33 DEF reap_child
  <2>2. CASE ~ child_exit /\ child = "zombie"
    <3>1. child' = "reaped" /\ child_exit' = TRUE
      BY <1>33, <2>2 DEF reap_child
    <3>2. \A i \in 1 .. Len(journal) : journal[i] # "exited"
      BY <2>2 DEF Exits
    <3> QED
      BY <2>1, <2>2, <3>1, <3>2 DEF Exits, ExitAfterOutput
  <2>3. CASE ~ (~ child_exit /\ child = "zombie")
    <3>1. UNCHANGED <<child_exit, child, draining>>
      BY <1>33, <2>3 DEF reap_child
    <3> QED
      BY <2>1, <3>1, ExitsSame
  <2> QED
    BY <2>2, <2>3
<1>34. CASE read_pty
  <2> DEFINE n == IF ~ pty_open THEN 0
                  ELSE IF Len(output) < READ_BUDGET THEN Len(output) ELSE READ_BUDGET
             endOfOutput == pty_open /\ n < READ_BUDGET /\ slave = {}
             more == SubSeq(output, 1, n)
             rest == SubSeq(output, n + 1, Len(output))
  <2>1. /\ journal' = journal \o more
        /\ output' = rest
        /\ draining' = IF draining = None THEN None ELSE draining + n
        /\ pty_open' = (pty_open /\ ~ endOfOutput)
        /\ UNCHANGED <<child_exit, child, slave>>
    BY <1>34 DEF read_pty
  <2>2. output \in Seq({"child", "other"}) /\ pty_open \in BOOLEAN /\ READ_BUDGET \in Nat
    BY HostConstants DEF TypeOK
  <2>3. n \in 0 .. Len(output) /\ (~ pty_open \/ n < READ_BUDGET => n = 0 \/ n = Len(output))
        /\ (pty_open /\ n < READ_BUDGET => n = Len(output))
    BY <2>2
  <2> HIDE DEF n
  <2> DEFINE E == {"child", "other"}
  <2>4. output \in Seq(E)
    BY <2>2
  <2> HIDE DEF E
  <2>5. /\ more \in Seq(E) /\ rest \in Seq(E)
        /\ \A x \in Range(more) : x \in Range(output)
        /\ \A x \in Range(rest) : x \in Range(output)
        /\ n = Len(output) => rest = <<>>
    BY <2>3, <2>4, FrontAndRest
  <2> DEFINE j == Then(journal, more)
  <2>6. journal' = j
    BY <2>1 DEF Then
  <2>7. more \in Seq({"child", "other", "resized"}) /\ rest \in Seq({"child", "other"})
    BY <2>5 DEF E
  <2> HIDE DEF more, rest, endOfOutput
  <2>8. \A i \in 1 .. Len(j) : j[i] = "exited" =>
               /\ i \in 1 .. Len(journal) /\ journal[i] = "exited"
               /\ "child" \notin Range(rest)
               /\ \A k \in (i + 1) .. Len(j) : j[k] # "child"
    BY <2>5, <2>7, JournalGrows
  <2> HIDE DEF j
  <2>9. (child_exit' <=> (child' = "reaped")) /\ (child' # "running" => "child" \notin slave')
    BY <2>1 DEF Exits
  <2>10. draining' # None => child_exit'
    BY <2>1 DEF Exits
  <2>11. ~ pty_open' => output' = <<>> /\ slave' = {}
    <3>1. CASE ~ pty_open
      <4>1. output = <<>> /\ slave = {} /\ n = Len(output)
        <5>1. output = <<>> /\ slave = {}
          BY <3>1 DEF Exits
        <5>2. n = 0
          BY <3>1 DEF n
        <5> QED
          BY <5>1, <5>2
      <4> QED
        BY <2>1, <2>5, <4>1
    <3>2. CASE endOfOutput
      <4>1. n = Len(output) /\ slave = {}
        BY <2>3, <3>2 DEF endOfOutput
      <4> QED
        BY <2>1, <2>5, <4>1
    <3> QED
      BY <2>1, <3>1, <3>2
  <2>12. \A i \in 1 .. Len(journal') : journal'[i] = "exited" => child_exit' /\ draining' = None
    BY <2>1, <2>6, <2>8 DEF Exits
  <2>13. ExitAfterOutput'
    BY <2>1, <2>6, <2>8 DEF ExitAfterOutput
  <2> QED
    BY <2>9, <2>10, <2>11, <2>12, <2>13 DEF Exits
<1>35. CASE finish_drain
  <2>1. UNCHANGED <<child_exit, child, slave, pty_open, output>>
    BY <1>35 DEF finish_drain
  <2> DEFINE done == draining # None /\ (~ pty_has_more \/ "drain" \in due \/ draining >= EXIT_DRAIN_BYTES)
             x == IF pty_has_more THEN "exited_early" ELSE "exited"
  <2>2. CASE done
    <3>1. journal' = Append(journal, x) /\ draining' = None
      BY <1>35, <2>2 DEF finish_drain
    <3>2. journal \in Seq({"child", "other", "resized", "exited", "exited_early"})
      BY DEF TypeOK
    <3>3. child_exit /\ child = "reaped" /\ \A i \in 1 .. Len(journal) : journal[i] # "exited"
      BY <2>2 DEF Exits
    <3>4. x = "exited" => output = <<>>
      BY DEF Exits, pty_has_more
    <3> HIDE DEF x, done
    <3>5. Len(journal') = Len(journal) + 1 /\ journal'[Len(journal) + 1] = x
          /\ \A i \in 1 .. Len(journal) : journal'[i] = journal[i]
      BY <3>1, <3>2
    <3>6. \A i \in 1 .. Len(journal') : journal'[i] = "exited" => i = Len(journal') /\ output = <<>>
      BY <3>2, <3>3, <3>4, <3>5
    <3>7. ExitAfterOutput'
      <4>1. \A k : k \notin (Len(journal') + 1) .. Len(journal')
        BY <3>2, <3>5
      <4>2. output = <<>> => Range(output) = {}
        BY DEF Range
      <4> QED
        BY <2>1, <3>6, <4>1, <4>2 DEF ExitAfterOutput
    <3>8. \A i \in 1 .. Len(journal') : journal'[i] = "exited" => child_exit' /\ draining' = None
      BY <2>1, <3>1, <3>3
    <3>9. /\ (child_exit' <=> (child' = "reaped")) /\ (child' # "running" => "child" \notin slave')
          /\ (draining' # None => child_exit')
          /\ (~ pty_open' => output' = <<>> /\ slave' = {})
      BY <2>1, <3>1 DEF Exits
    <3> QED
      BY <3>7, <3>8, <3>9 DEF Exits
  <2>3. CASE ~ done
    <3>1. UNCHANGED <<journal, draining>>
      BY <1>35, <2>3 DEF finish_drain
    <3> QED
      BY <2>1, <3>1, ExitsSame
  <2> QED
    BY <2>2, <2>3
<1>36. CASE handle_resize
  <2>1. journal' = Append(journal, "resized")
        /\ UNCHANGED <<child_exit, child, slave, draining, pty_open, output>>
    BY <1>36 DEF handle_resize, Acting
  <2>2. journal \in Seq({"child", "other", "resized", "exited", "exited_early"})
    BY DEF TypeOK
  <2>3. Len(journal') = Len(journal) + 1 /\ journal'[Len(journal) + 1] = "resized"
        /\ \A i \in 1 .. Len(journal) : journal'[i] = journal[i]
    BY <2>1, <2>2
  <2>4. \A i \in 1 .. Len(journal') : journal'[i] \in {"exited", "child"} =>
            i \in 1 .. Len(journal) /\ journal'[i] = journal[i]
    BY <2>2, <2>3
  <2>5. ExitAfterOutput'
    <3> SUFFICES ASSUME NEW i \in 1 .. Len(journal'), journal'[i] = "exited"
                 PROVE  /\ "child" \notin Range(output')
                        /\ \A k \in (i + 1) .. Len(journal') : journal'[k] # "child"
      BY DEF ExitAfterOutput
    <3>1. i \in 1 .. Len(journal) /\ journal[i] = "exited"
      BY <2>4
    <3>2. "child" \notin Range(output) /\ \A k \in (i + 1) .. Len(journal) : journal[k] # "child"
      BY <3>1 DEF Exits, ExitAfterOutput
    <3>3. ASSUME NEW k \in (i + 1) .. Len(journal'), journal'[k] = "child" PROVE FALSE
      <4>1. k \in 1 .. Len(journal')
        BY <2>2, <2>3
      <4>2. k \in 1 .. Len(journal) /\ journal[k] = "child"
        BY <2>4, <3>3, <4>1
      <4>3. k \in (i + 1) .. Len(journal)
        BY <2>2, <4>2
      <4> QED
        BY <3>2, <4>2, <4>3
    <3> QED
      BY <2>1, <3>2, <3>3
  <2>6. \A i \in 1 .. Len(journal') : journal'[i] = "exited" => child_exit' /\ draining' = None
    BY <2>1, <2>4 DEF Exits
  <2> QED
    BY <2>1, <2>5, <2>6 DEF Exits
<1>37. CASE \E who \in {"child", "other"} : program_writes(who)
  <2>1. PICK who \in {"child", "other"} : program_writes(who)
    BY <1>37
  <2>2. /\ who \in slave /\ output' = Append(output, who)
        /\ UNCHANGED <<child_exit, child, slave, draining, pty_open, journal>>
    BY <2>1 DEF program_writes
  <2>3. pty_open
    BY <2>2 DEF Exits
  <2>4. output \in Seq({"child", "other"})
    BY DEF TypeOK
  <2>5. ASSUME NEW i \in 1 .. Len(journal), journal[i] = "exited" PROVE "child" \notin Range(output')
    <3>1. who = "other"
      BY <2>2, <2>5 DEF Exits
    <3>2. "child" \notin Range(output)
      BY <2>5 DEF Exits, ExitAfterOutput
    <3> QED
      BY <2>2, <2>4, <3>1, <3>2 DEF Range
  <2>6. ExitAfterOutput'
    BY <2>2, <2>5 DEF Exits, ExitAfterOutput
  <2> QED
    BY <2>2, <2>3, <2>6 DEF Exits
<1>38. CASE child_exits
  <2>1. /\ child = "running" /\ child' = "zombie" /\ slave' = slave \ {"child"}
        /\ UNCHANGED <<child_exit, draining, pty_open, output, journal>>
    BY <1>38 DEF child_exits
  <2> QED
    BY <2>1 DEF Exits, ExitAfterOutput
<1>39. CASE \E who \in {"child", "other"} : let_go(who)
  <2>1. PICK who \in {"child", "other"} : let_go(who)
    BY <1>39
  <2>2. slave' = slave \ {who} /\ UNCHANGED <<child_exit, child, draining, pty_open, output, journal>>
    BY <2>1 DEF let_go
  <2> QED
    BY <2>2 DEF Exits, ExitAfterOutput
<1> QED
  BY <1>1, <1>2, <1>3, <1>4, <1>5, <1>6, <1>7, <1>8, <1>9, <1>10, <1>11, <1>12, <1>13, <1>14, <1>15, <1>16, <1>17, <1>18, <1>19, <1>20, <1>21, <1>22, <1>23, <1>24, <1>25, <1>26, <1>27, <1>28, <1>29, <1>30, <1>31, <1>32, <1>33, <1>34, <1>35, <1>36, <1>37, <1>38, <1>39 DEF Next, HostStep, EnvironmentStep

-----------------------------------------------------------------------------
(* What each handler does to the client.                                   *)

LEMMA ClientIsSome ==
    ASSUME NEW cl, ClientOK(cl)
    PROVE  cl # None /\ cl \in Clients /\ cl.conn \in Conns
BY NoneIsNothing, ClientType DEF ClientOK

\* A client is gone only between the handlers of a close.
LEMMA NotGone ==
    ASSUME AgendaOK(todo), Closing, client # None,
           todo = <<>> \/ \E op : Running(op) /\ op \notin {"act_on_buffered", "close_receive", "close_drop"}
    PROVE  ~ client.gone /\ "close_drop" \notin OpsOf(todo)
<1>1. "close_drop" \notin OpsOf(todo)
  <2>1. CASE todo = <<>>
    BY <2>1, AsleepOps
  <2>2. CASE todo # <<>>
    <3>1. PICK op : Running(op) /\ op \notin {"act_on_buffered", "close_receive", "close_drop"}
      BY <2>2
    <3> DEFINE r == Tail(todo)
    <3>2. /\ AgendaOK(r) /\ todo[1].op = op
          /\ \A i \in 1 .. Len(r) : Before(todo[1], r[i])
      BY <3>1, Returned
    <3>3. \A x : x \in OpsOf(todo) <=> (x = op \/ x \in OpsOf(r))
      BY <3>1, ReturnedOps
    <3> HIDE DEF r
    <3>4. r \in Seq(Entry)
      BY <3>2 DEF AgendaOK
    <3>5. "close_drop" \in OpsOf(r) => \E i \in 1 .. Len(r) : r[i].op = "close_drop"
      BY <3>4, OpsOfAt
    <3>6. "close_drop" \notin OpsOf(r)
      BY <3>1, <3>2, <3>5 DEF Before
    <3> QED
      BY <3>1, <3>3, <3>6
  <2> QED
    BY <2>1, <2>2
<1> QED
  BY <1>1 DEF Closing

\* Writing and discarding input.
LEMMA InputLeft ==
    ASSUME TypeOK, Served, read_pty \/ write_input
    PROVE  /\ client = None => client' = None
           /\ client # None => /\ ClientOK(client') /\ client' # None
                               /\ SameClient(client', client) /\ SameTotal(client', client)
           /\ ptyRoom' \in 0 .. PTY_ROOM
<1>1. ptyRoom \in 0 .. PTY_ROOM /\ ptyRoom \in Nat /\ PTY_ROOM \in Nat
  BY HostConstants DEF TypeOK
<1> DEFINE d == discard_input(client)
           at == FoldLeft(OfferInput,
                          [cl |-> client, ptyRoom |-> ptyRoom, full |-> FALSE, resolved |-> FALSE],
                          client.input)
           w == IF at.resolved THEN acknowledge(at.cl) ELSE at.cl
<1>2. client # None => ClientOK(client)
  BY DEF Served
<1>3. client = None => d = None
  BY DEF discard_input
<1>4. client # None => ClientOK(d) /\ SameClient(d, client) /\ SameTotal(d, client)
  BY <1>2, DiscardInput
<1>5. client # None => /\ ClientOK(w) /\ SameClient(w, client) /\ SameTotal(w, client)
                       /\ at.ptyRoom \in Nat /\ at.ptyRoom <= ptyRoom
  BY <1>1, <1>2, WriteInput
<1>6. SameClient(client, client) /\ SameTotal(client, client)
  BY DEF SameClient, SameTotal
<1>7. CASE read_pty
  <2>1. (client' = d \/ client' = client) /\ ptyRoom' = ptyRoom
    BY <1>7 DEF read_pty
  <2> HIDE DEF d, at, w
  <2>2. client # None => ClientOK(client') /\ SameClient(client', client) /\ SameTotal(client', client)
    <3>1. CASE client' = d
      BY <1>4, <3>1
    <3>2. CASE client' = client
      BY <1>2, <1>6, <3>2
    <3> QED
      BY <2>1, <3>1, <3>2
  <2>3. client # None => client' # None
    BY <2>2, ClientIsSome
  <2>4. client = None => client' = None
    BY <1>3, <2>1
  <2> QED
    BY <1>1, <2>1, <2>2, <2>3, <2>4
<1>8. CASE write_input
  <2>1. CASE client = None
    <3>1. client' = client /\ ptyRoom' = ptyRoom
      BY <1>8, <2>1 DEF write_input
    <3> QED
      BY <1>1, <2>1, <3>1
  <2>2. CASE client # None /\ (~ pty_open \/ slave = {})
    <3>1. client' = d /\ ptyRoom' = ptyRoom
      BY <1>8, <2>2 DEF write_input
    <3> HIDE DEF d, at, w
    <3>2. ClientOK(client') /\ SameClient(client', client) /\ SameTotal(client', client)
      BY <1>4, <2>2, <3>1
    <3>3. client' # None
      BY <3>2, ClientIsSome
    <3> QED
      BY <1>1, <2>2, <3>1, <3>2, <3>3
  <2>3. CASE client # None /\ ~ (~ pty_open \/ slave = {})
    <3>1. client' = w /\ ptyRoom' = at.ptyRoom
      BY <1>8, <2>3 DEF write_input
    <3> HIDE DEF d, w
    <3>2. ClientOK(client') /\ SameClient(client', client) /\ SameTotal(client', client)
      BY <1>5, <2>3, <3>1
    <3>3. client' # None
      BY <3>2, ClientIsSome
    <3> HIDE DEF at
    <3>4. ptyRoom' \in 0 .. PTY_ROOM
      BY <1>1, <1>5, <2>3, <3>1
    <3> QED
      BY <2>3, <3>2, <3>3, <3>4
  <2> QED
    BY <2>1, <2>2, <2>3
<1> QED
  BY <1>7, <1>8

\* Queueing a record.
LEMMA Refilled ==
    ASSUME AgendaOK(todo), Served, Closing, refill_outgoing, CanRefill
    PROVE  /\ client # None /\ ClientOK(client') /\ client' # None
           /\ client'.conn = client.conn /\ client'.reading = client.reading
           /\ client'.closing = client.closing /\ client'.gone = client.gone
           /\ client'.record = client.record /\ client'.input = client.input
           /\ client'.written = client.written /\ client'.discarded = client.discarded
           /\ client'.cursor = client.cursor + 1 /\ client.cursor < Len(journal)
<1>1. /\ client # None /\ client.reading /\ client.unsent < OUTGOING_HIGH_WATER
      /\ client.cursor < Len(journal)
  BY DEF CanRefill
<1>2. Running("refill_outgoing")
  BY DEF refill_outgoing
<1>3. ClientOK(client) /\ ~ client.gone
  BY <1>1, <1>2, NotGone DEF Served
<1>4. client' = [client EXCEPT !.outgoing = Append(@, Out("Record", client.cursor + 1)),
                               !.unsent = @ + FRAME, !.cursor = @ + 1]
  BY DEF refill_outgoing
<1> DEFINE r == client'
<1>5. r = [client EXCEPT !.outgoing = Append(@, Out("Record", client.cursor + 1)),
                         !.unsent = @ + FRAME, !.cursor = @ + 1]
  BY <1>4
<1> HIDE DEF r
<1>6. /\ ClientOK(r)
      /\ r.conn = client.conn /\ r.reading = client.reading
      /\ r.closing = client.closing /\ r.gone = client.gone
      /\ r.record = client.record /\ r.input = client.input
      /\ r.written = client.written /\ r.discarded = client.discarded
      /\ r.cursor = client.cursor + 1
  <2>1. ClientOK(client) /\ client.reading /\ ~ client.gone /\ client.unsent < OUTGOING_HIGH_WATER
    BY <1>1, <1>3
  <2>2. ClientOK(r)
    BY <1>5, <2>1, QueueRecord
  <2>3. /\ r.conn = client.conn /\ r.reading = client.reading
        /\ r.closing = client.closing /\ r.gone = client.gone
    BY <1>5, <2>1, QueueRecord
  <2>4. /\ r.record = client.record /\ r.input = client.input
        /\ r.written = client.written /\ r.discarded = client.discarded
        /\ r.cursor = client.cursor + 1
    BY <1>5, <2>1, QueueRecord
  <2> QED
    BY <2>2, <2>3, <2>4
<1>7. r # None
  BY <1>6, ClientIsSome
<1> QED
  BY <1>1, <1>6, <1>7 DEF r

\* The handlers of the client's frames.
Handling ==
    \/ handle_malformed \/ handle_hello \/ handle_info_snapshot \/ handle_read \/ handle_input
    \/ handle_resize \/ handle_shutdown

\* What they find, and what the frame is.
LEMMA FrameFound ==
    ASSUME TypeOK, Connections, Handling
    PROVE  /\ client # None /\ Running("act_on_buffered") /\ ~ client.closing
           /\ ~ client.gone => client.unsent <= OUTGOING_HIGH_WATER
           /\ client.conn \in Conns /\ acted[client.conn] \in Nat
           /\ acted[client.conn] >= 1 /\ acted[client.conn] < received[client.conn]
           /\ NextFrame \in Frames
<1> DEFINE c == client.conn
<1>1. Running("act_on_buffered") /\ ~ Stops
  BY DEF Handling, handle_malformed, handle_hello, handle_info_snapshot, handle_read, handle_input,
         handle_resize, handle_shutdown, Acting
<1>2. client # None /\ ~ client.closing /\ ~ OverHighWater /\ ~ NoFrame
  BY <1>1 DEF Stops
<1>3. client \in Clients /\ client.conn \in Conns /\ client.unsent \in Nat
  BY <1>2, ClientType DEF TypeOK
<1>4. OUTGOING_HIGH_WATER \in Nat
  BY HostConstants
<1>5. ~ client.gone => client.unsent <= OUTGOING_HIGH_WATER
  BY <1>2, <1>3, <1>4 DEF OverHighWater
<1>6. /\ acted[c] \in Nat /\ received[c] \in Nat /\ sent[c] \in Seq(Hellos \cup Frames)
      /\ acted[c] <= received[c] /\ received[c] <= Len(sent[c])
      /\ \A i \in 1 .. Len(sent[c]) : sent[c][i] \in IF i = 1 THEN Hellos ELSE Frames
  BY <1>3 DEF TypeOK, Connections, Counted
<1>7. acted[c] >= 1
  BY <1>2 DEF Connections, Met
<1>8. acted[c] < received[c]
  BY <1>2, <1>6 DEF NoFrame, Buffered
<1>9. acted[c] + 1 \in 1 .. Len(sent[c]) /\ acted[c] + 1 # 1
  BY <1>6, <1>7, <1>8
<1>10. NextFrame \in Frames
  <2>1. sent[c][acted[c] + 1] \in Frames
    BY <1>6, <1>9
  <2> QED
    BY <2>1 DEF NextFrame
<1> QED
  BY <1>1, <1>2, <1>3, <1>5, <1>6, <1>7, <1>8, <1>10

\* A frame that ends the connection.
LEMMA Ended ==
    ASSUME TypeOK, Connections, Served, Handling, NEW kind \in LastFrames,
           client' = end_connection(client, kind)
    PROVE  /\ ClientOK(client') /\ client' # None
           /\ client'.closing = TRUE /\ client'.reading = FALSE
           /\ client'.conn = client.conn /\ client'.gone = client.gone
           /\ client'.cursor = client.cursor
<1>1. client # None /\ ~ client.closing
  BY FrameFound
<1>2. ClientOK(client)
  BY <1>1 DEF Served
<1> DEFINE r == client'
<1>3. r = end_connection(client, kind)
  OBVIOUS
<1> HIDE DEF r
<1>4. ClientOK(r) /\ r.closing = TRUE /\ r.reading = FALSE
      /\ r.conn = client.conn /\ r.gone = client.gone /\ r.cursor = client.cursor
  BY <1>1, <1>2, <1>3, EndConnection
<1>5. r # None
  BY <1>4, ClientIsSome
<1> QED
  BY <1>4, <1>5 DEF r

\* One that is answered.
LEMMA Answered ==
    ASSUME TypeOK, Connections, Served, handle_info_snapshot
    PROVE  /\ ClientOK(client') /\ client' # None /\ SameClient(client', client)
           /\ client'.input = client.input
           /\ client'.written = client.written /\ client'.discarded = client.discarded
<1>1. client # None /\ ~ client.closing /\ (~ client.gone => client.unsent <= OUTGOING_HIGH_WATER)
  BY FrameFound DEF Handling
<1>2. ClientOK(client)
  BY <1>1 DEF Served
<1> DEFINE r == client'
<1>3. r = queue(client, Out("Reply", 0))
  BY DEF handle_info_snapshot
<1> HIDE DEF r
<1>4. ClientOK(r) /\ SameClient(r, client) /\ r.input = client.input
      /\ r.written = client.written /\ r.discarded = client.discarded
  BY <1>1, <1>2, <1>3, QueueReply
<1>5. r # None
  BY <1>4, ClientIsSome
<1> QED
  BY <1>4, <1>5 DEF r

\* The first Read.
LEMMA ReadTaken ==
    ASSUME TypeOK, Connections, Served, handle_read, ~ client.reading
    PROVE  /\ ClientOK(client') /\ client' # None /\ client'.reading = TRUE
           /\ client'.conn = client.conn /\ client'.closing = client.closing
           /\ client'.gone = client.gone /\ client'.cursor = client.cursor
           /\ client'.record = client.record /\ client'.input = client.input
           /\ client'.written = client.written /\ client'.discarded = client.discarded
<1>1. client # None /\ ~ client.closing
  BY FrameFound DEF Handling
<1>2. ClientOK(client)
  BY <1>1 DEF Served
<1> DEFINE r == client'
<1>3. r = [client EXCEPT !.reading = TRUE]
  BY DEF handle_read
<1> HIDE DEF r
<1>4. ClientOK(r) /\ r.reading = TRUE
      /\ r.conn = client.conn /\ r.closing = client.closing /\ r.gone = client.gone
      /\ r.cursor = client.cursor /\ r.record = client.record /\ r.input = client.input
      /\ r.written = client.written /\ r.discarded = client.discarded
  <2>1. ClientOK(r) /\ r.reading = TRUE
    BY <1>1, <1>2, <1>3, TakeRead
  <2>2. r.conn = client.conn /\ r.closing = client.closing /\ r.gone = client.gone
    BY <1>1, <1>2, <1>3, TakeRead
  <2>3. r.cursor = client.cursor /\ r.record = client.record /\ r.input = client.input
    BY <1>1, <1>2, <1>3, TakeRead
  <2>4. r.written = client.written /\ r.discarded = client.discarded
    BY <1>1, <1>2, <1>3, TakeRead
  <2> QED
    BY <2>1, <2>2, <2>3, <2>4
<1>5. r # None
  BY <1>4, ClientIsSome
<1> QED
  BY <1>4, <1>5 DEF r

\* An Input.
LEMMA InputTaken ==
    ASSUME TypeOK, Connections, Served, handle_input
    PROVE  /\ ClientOK(client') /\ client' # None /\ SameClient(client', client)
           /\ ~ client.gone => Len(client'.input) = Len(client.input) + 1
           /\ client'.written = client.written /\ client'.discarded = client.discarded
<1>1. client # None /\ ~ client.closing
  BY FrameFound DEF Handling
<1>2. ClientOK(client)
  BY <1>1 DEF Served
<1>3. CASE client.gone
  <2>1. client' = client
    BY <1>3 DEF handle_input
  <2> QED
    BY <1>1, <1>2, <1>3, <2>1 DEF SameClient
<1>4. CASE ~ client.gone
  <2> DEFINE r == client'
  <2>1. r = [client EXCEPT !.input = Append(@, 0), !.input_cost = @ + INPUT_LEN + INPUT_COST]
    BY <1>4 DEF handle_input
  <2>2. client.input_cost + INPUT_LEN + INPUT_COST <= MAX_PENDING_INPUT
    <3>1. ~ NoFrame /\ NextFrame = "Input" /\ ~ InputHeld
      BY <1>1 DEF handle_input, Acting, Stops
    <3>2. ~ (client.input_cost + INPUT_LEN + INPUT_COST > MAX_PENDING_INPUT)
      BY <1>4, <3>1 DEF InputHeld
    <3>3. client.input_cost \in Nat /\ INPUT_LEN \in Nat /\ INPUT_COST \in Nat /\ MAX_PENDING_INPUT \in Nat
      BY <1>2, ClientType, HostConstants DEF ClientOK
    <3> QED
      BY <3>2, <3>3
  <2> HIDE DEF r
  <2>3. ClientOK(r) /\ SameClient(r, client) /\ Len(r.input) = Len(client.input) + 1
        /\ r.written = client.written /\ r.discarded = client.discarded
    BY <1>1, <1>2, <1>4, <2>1, <2>2, TakeInput
  <2>4. r # None
    BY <2>3, ClientIsSome
  <2> QED
    BY <2>3, <2>4 DEF r
<1> QED
  BY <1>3, <1>4

\* The end of a connection.
LEMMA ClosedClient ==
    ASSUME TypeOK, Served, close_client, client # None
    PROVE  /\ ClientOK(client') /\ client' # None /\ client'.gone = TRUE
           /\ client'.conn = client.conn /\ client'.closing = client.closing
           /\ client'.reading = client.reading /\ client'.cursor = client.cursor
<1>1. ClientOK(client)
  BY DEF Served
<1> DEFINE r == client'
<1>2. r = [client EXCEPT !.gone = TRUE, !.input = <<>>, !.input_cost = 0,
                         !.outgoing = <<>>, !.unsent = 0]
  BY DEF close_client
<1> HIDE DEF r
<1>3. ClientOK(r) /\ r.gone = TRUE /\ r.conn = client.conn /\ r.closing = client.closing
      /\ r.reading = client.reading /\ r.cursor = client.cursor
  BY <1>1, <1>2, CloseClient
<1>4. r # None
  BY <1>3, ClientIsSome
<1> QED
  BY <1>3, <1>4 DEF r

\* Writing to the client.
LEMMA FrontWritten ==
    ASSUME TypeOK, Served, write_client, client # None, client.outgoing # <<>>,
           peer[client.conn] # "closed"
    PROVE  /\ ClientOK(client') /\ client' # None
           /\ client'.conn = client.conn /\ client'.reading = client.reading
           /\ client'.cursor = client.cursor /\ client'.closing = client.closing
           /\ client'.gone = client.gone /\ client'.input = client.input
           /\ client'.written = client.written /\ client'.discarded = client.discarded
           /\ delivered_end' \in Nat /\ delivered_end' >= delivered_end
           /\ room' \in [Conns -> 0 .. SOCKET_ROOM]
           /\ UNCHANGED <<status, due>>
           /\ todo' = todo \/ todo' = Tail(todo)
           /\ client'.record # client.record /\ ~ client.closing =>
                  /\ client'.record = client.record + 1 /\ client'.record <= client.cursor
                  /\ journal[client'.record] \in {"child", "other"} => delivered_end' >= client'.record
<1> DEFINE out == client.outgoing[1]
           n == Min({FRAME - out.written, room[client.conn]})
           whole == out.written + n = FRAME
           r == client'
<1>1. ClientOK(client) /\ client \in Clients /\ client.conn \in Conns
  BY ClientIsSome DEF Served
<1>2. out \in Framed /\ Head(client.outgoing) = out
  <2>1. client.outgoing \in Seq(Framed)
    BY <1>1, ClientType
  <2> QED
    BY <2>1
<1>3. out.written \in 0 .. (FRAME - 1) /\ out.value \in Nat /\ FRAME \in Nat
  BY <1>2, HostConstants DEF Framed
<1>4. room[client.conn] \in 0 .. SOCKET_ROOM /\ SOCKET_ROOM \in Nat /\ delivered_end \in Nat
      /\ room \in [Conns -> 0 .. SOCKET_ROOM]
  BY <1>1, HostConstants DEF TypeOK
<1>5. n \in Nat /\ n <= FRAME - out.written /\ n <= room[client.conn]
  <2> DEFINE a == FRAME - out.written
             b == room[client.conn]
  <2>1. a \in Nat /\ b \in Nat /\ a \in Int /\ b \in Int
    BY <1>3, <1>4
  <2> HIDE DEF a, b
  <2>2. Min({a, b}) \in {a, b} /\ Min({a, b}) <= a /\ Min({a, b}) <= b
    BY <2>1, MinOfTwo
  <2>3. Min({a, b}) \in Nat
    BY <2>1, <2>2
  <2> QED
    BY <2>2, <2>3 DEF a, b
<1>6. /\ client' = WriteFront(client, n)
      /\ room' = [room EXCEPT ![client.conn] = @ - n]
      /\ delivered_end' = IF whole /\ out.kind = "Record" /\ journal[out.value] \in {"child", "other"}
                          THEN Max({delivered_end, out.value}) ELSE delivered_end
      /\ todo' = todo \/ todo' = Tail(todo)
      /\ UNCHANGED <<status, due>>
  BY <1>2 DEF write_client, Return
<1>7. room' \in [Conns -> 0 .. SOCKET_ROOM]
  <2>1. room[client.conn] - n \in 0 .. SOCKET_ROOM
    BY <1>4, <1>5
  <2> HIDE DEF n
  <2> QED
    BY <1>1, <1>4, <1>6, <2>1
<1>8. delivered_end' \in Nat /\ delivered_end' >= delivered_end
      /\ (whole /\ out.kind = "Record" /\ journal[out.value] \in {"child", "other"}
              => delivered_end' >= out.value)
  <2> DEFINE m == Max({delivered_end, out.value})
  <2>1. m \in Nat /\ m >= delivered_end /\ m >= out.value
    BY <1>3, <1>4, MaxOfTwo
  <2>2. delivered_end' = IF whole /\ out.kind = "Record" /\ journal[out.value] \in {"child", "other"}
                          THEN m ELSE delivered_end
    BY <1>6
  <2> HIDE DEF m, whole
  <2> QED
    BY <1>4, <2>1, <2>2
<1>9. r = WriteFront(client, n)
  BY <1>6
<1> HIDE DEF r, n
<1>10. /\ ClientOK(r)
       /\ r.conn = client.conn /\ r.reading = client.reading /\ r.cursor = client.cursor
       /\ r.closing = client.closing /\ r.gone = client.gone /\ r.input = client.input
       /\ r.written = client.written /\ r.discarded = client.discarded
       /\ r.record = IF out.written + n = FRAME /\ out.kind = "Record" THEN out.value ELSE client.record
       /\ ~ client.closing /\ out.kind = "Record" =>
              out.value = client.record + 1 /\ out.value <= client.cursor
  BY <1>1, <1>5, <1>9, WriteFrontOK
<1>11. r # None
  BY <1>10, ClientIsSome
<1>12. r.record # client.record /\ ~ client.closing =>
          /\ r.record = client.record + 1 /\ r.record <= client.cursor
          /\ journal[r.record] \in {"child", "other"} => delivered_end' >= r.record
  <2>1. SUFFICES ASSUME r.record # client.record, ~ client.closing
                 PROVE  /\ r.record = client.record + 1 /\ r.record <= client.cursor
                        /\ journal[r.record] \in {"child", "other"} => delivered_end' >= r.record
    OBVIOUS
  <2>2. whole /\ out.kind = "Record" /\ r.record = out.value
    BY <1>10, <2>1
  <2> HIDE DEF whole, out
  <2> QED
    BY <1>8, <1>10, <2>1, <2>2
<1> QED
  BY <1>6, <1>7, <1>8, <1>10, <1>11, <1>12 DEF r

-----------------------------------------------------------------------------
(* Where every connection is.                                              *)

\* What is left on the agenda was put there for the same reason.
LEMMA PointsKept ==
    ASSUME NEW e, NEW over, NEW waiting, NEW cl, NEW ends, PointsAt(e, over, waiting, cl, ends),
           NEW r, r # None => cl # None /\ r.conn = cl.conn
    PROVE  PointsAt(e, over, waiting, r, ends)
BY DEF PointsAt

LEMMA PointsLeft ==
    ASSUME AgendaOK(todo), Pointed, NEW op, Running(op)
    PROVE  /\ DOMAIN Tail(todo) = 1 .. Len(Tail(todo)) /\ todo[1].op = op /\ Head(todo) = todo[1]
           /\ todo[1] \in Entry
           /\ PointsAt(todo[1], ended, pending, client, peer)
           /\ \A i \in 1 .. Len(Tail(todo)) : /\ PointsAt(Tail(todo)[i], ended, pending, client, peer)
                                              /\ Before(todo[1], Tail(todo)[i])
<1> DEFINE r == Tail(todo)
<1>1. /\ AgendaOK(r) /\ todo # <<>> /\ todo[1].op = op /\ Head(todo) = todo[1] /\ todo[1] \in Entry
  BY Returned
<1>2. \A i \in 1 .. Len(r) : r[i] = todo[i + 1] /\ Before(todo[1], r[i])
  BY Returned
<1>3. todo \in Seq(Entry) /\ r \in Seq(Entry)
  BY <1>1 DEF AgendaOK
<1>4. 1 \in DOMAIN todo /\ \A i \in 1 .. Len(r) : i + 1 \in DOMAIN todo
  BY <1>1, <1>3
<1>5. DOMAIN r = 1 .. Len(r)
  BY <1>3
<1> HIDE DEF r
<1>6. PointsAt(todo[1], ended, pending, client, peer)
  BY <1>4 DEF Pointed
<1>7. \A i \in 1 .. Len(r) : PointsAt(r[i], ended, pending, client, peer)
  BY <1>2, <1>4 DEF Pointed
<1> QED
  BY <1>1, <1>2, <1>5, <1>6, <1>7 DEF r

\* A handler is done, and nothing it leaves has less reason to run.
LEMMA PointedReturn ==
    ASSUME AgendaOK(todo), Pointed, NEW op, Running(op), UNCHANGED <<ended, pending, peer>>,
           client' # None => client # None /\ client'.conn = client.conn,
           todo' = todo \/ todo' = Tail(todo)
    PROVE  Pointed'
<1> DEFINE r == Tail(todo)
<1>1. DOMAIN r = 1 .. Len(r) /\ \A i \in 1 .. Len(r) : PointsAt(r[i], ended, pending, client, peer)
  BY PointsLeft
<1> HIDE DEF r
<1>2. \A i \in DOMAIN r : PointsAt(r[i], ended, pending, client', peer)
  BY <1>1, PointsKept
<1>3. \A i \in DOMAIN todo : PointsAt(todo[i], ended, pending, client', peer)
  BY PointsKept DEF Pointed
<1>4. todo' = todo \/ todo' = r
  BY DEF r
<1> QED
  BY <1>2, <1>3, <1>4 DEF Pointed

\* One called another.
LEMMA PointedCall ==
    ASSUME AgendaOK(todo), Pointed, NEW op, Running(op), UNCHANGED <<ended, pending, peer>>,
           client' # None => client # None /\ client'.conn = client.conn,
           NEW x \in Entry,
           \/ op = "reap_child" /\ x.op = "read_pty"
           \/ op \in {"write_client", "read_client", "read_pending"}
              /\ x.op \in {"close_client", "act_on_buffered"}
           \/ op = "accept" /\ x.op = "accept",
           x.op = "close_client" /\ client' # None => peer[client'.conn] # "open",
           todo' = Cons(x, Tail(todo))
    PROVE  Pointed'
<1> DEFINE t == Tail(todo)
           r == Cons(x, Tail(todo))
<1>1. \A i \in 1 .. Len(t) : PointsAt(t[i], ended, pending, client, peer)
  BY PointsLeft
<1>2. \A i \in 1 .. Len(r) : r[i] = x \/ (i - 1 \in 1 .. Len(Tail(todo)) /\ r[i] = Tail(todo)[i - 1])
  BY CalledOne
<1>3. AgendaOK(r)
  BY CalledOne
<1> HIDE DEF r
<1>4. \A i \in 1 .. Len(r) : r[i] = x \/ (i - 1 \in 1 .. Len(t) /\ r[i] = t[i - 1])
  BY <1>2
<1> HIDE DEF t
<1>5. \A i \in 1 .. Len(t) : PointsAt(t[i], ended, pending, client', peer)
  BY <1>1, PointsKept
<1>6. PointsAt(x, ended, pending, client', peer)
  BY DEF PointsAt
<1>7. DOMAIN r = 1 .. Len(r)
  BY <1>3 DEF AgendaOK
<1>8. \A i \in DOMAIN r : PointsAt(r[i], ended, pending, client', peer)
  BY <1>4, <1>5, <1>6, <1>7
<1>9. todo' = r
  BY DEF r
<1> QED
  BY <1>8, <1>9 DEF Pointed

\* The client is being closed.
LEMMA PointedClose ==
    ASSUME AgendaOK(todo), Pointed, Running("close_client"), UNCHANGED <<ended, pending, peer>>,
           client' # None => client # None /\ client'.conn = client.conn,
           todo' = Then(<<Do("act_on_buffered"), Do("close_receive"), Do("act_on_buffered"),
                          Do("close_drop")>>, Tail(todo))
    PROVE  Pointed'
<1> DEFINE t == Tail(todo)
           r == Then(<<Do("act_on_buffered"), Do("close_receive"), Do("act_on_buffered"),
                       Do("close_drop")>>, Tail(todo))
<1>1. /\ \A i \in 1 .. Len(t) : PointsAt(t[i], ended, pending, client, peer)
      /\ todo[1].op = "close_client"
  BY PointsLeft
<1>2. todo # <<>>
  BY Returned
<1>3. AgendaOK(r)
  BY <1>1, <1>2, CallClose
<1>4. \A i \in 1 .. Len(r) :
          r[i].op \in {"act_on_buffered", "close_receive", "close_drop"}
          \/ (\E j \in 1 .. Len(Tail(todo)) : r[i] = Tail(todo)[j])
  <2>1. todo[1].op = "close_client"
    BY <1>1
  <2>2. r = Then(<<Do("act_on_buffered"), Do("close_receive"), Do("act_on_buffered"),
                   Do("close_drop")>>, Tail(todo))
    OBVIOUS
  <2> HIDE DEF r, t
  <2> QED
    BY <1>2, <2>1, <2>2, CallClose
<1>5. todo' = r
  OBVIOUS
<1> HIDE DEF r
<1>6. DOMAIN r = 1 .. Len(r)
  BY <1>3 DEF AgendaOK
<1>7. \A i \in 1 .. Len(r) :
          r[i].op \in {"act_on_buffered", "close_receive", "close_drop"}
          \/ (\E j \in 1 .. Len(t) : r[i] = t[j])
  BY <1>4
<1> HIDE DEF t
<1>8. \A i \in 1 .. Len(t) : PointsAt(t[i], ended, pending, client', peer)
  BY <1>1, PointsKept
<1>9. \A e : e.op \in {"act_on_buffered", "close_receive", "close_drop"} =>
                 PointsAt(e, ended, pending, client', peer)
  BY DEF PointsAt
<1>10. \A i \in DOMAIN r : PointsAt(r[i], ended, pending, client', peer)
  BY <1>6, <1>7, <1>8, <1>9
<1> QED
  BY <1>5, <1>10 DEF Pointed

LEMMA ConnectionsSame ==
    ASSUME Connections, UNCHANGED <<pending, backlog, status, sent, received, acted>>,
           client' = None <=> client = None,
           client # None => client'.conn = client.conn,
           Pointed'
    PROVE  Connections'
<1>1. Counted'
  BY DEF Connections, Counted
<1>2. Met'
  BY DEF Connections, Met
<1>3. ConnectionsPlaced'
  BY DEF Connections, ConnectionsPlaced
<1>4. Injective(pending') /\ Injective(backlog')
  BY DEF Connections
<1> QED
  BY <1>1, <1>2, <1>3, <1>4 DEF Connections

\* The client's place is given up.
LEMMA ConnectionsDrop ==
    ASSUME TypeOK, Connections, client # None, client' = None,
           NEW fate \in {"gone", "flushed", "late"},
           status' = [status EXCEPT ![client.conn] = fate],
           UNCHANGED <<pending, backlog, sent, received, acted>>,
           Pointed'
    PROVE  Connections'
<1> DEFINE d == client.conn
<1>1. d \in Conns /\ status \in [Conns -> Statuses]
  BY ClientType DEF TypeOK
<1>2. \A c \in Conns : status'[c] = IF c = d THEN fate ELSE status[c]
  BY <1>1
<1>3. fate \notin {"none", "backlog", "pending", "client", "displaced"}
  OBVIOUS
<1>4. status[d] = "client"
  BY <1>1 DEF Connections, ConnectionsPlaced
<1>5. Counted'
  BY <1>2, <1>3 DEF Connections, Counted
<1>6. Met'
  BY DEF Met
<1> HIDE DEF d
<1>7. \A c \in Conns :
          /\ (status'[c] = "backlog") <=> (c \in Range(backlog))
          /\ (status'[c] = "pending") <=> (c \in Range(pending))
          /\ (status'[c] = "client") <=> FALSE
          /\ status'[c] = "displaced" =>
                 \E b \in Conns \ {c} : sent[b] # <<>> /\ sent[b][1] = "HelloTakeOver"
  <2> TAKE c \in Conns
  <2>1. /\ (status[c] = "backlog") <=> (c \in Range(backlog))
        /\ (status[c] = "pending") <=> (c \in Range(pending))
        /\ (status[c] = "client") <=> (d = c)
        /\ status[c] = "displaced" =>
               \E b \in Conns \ {c} : sent[b] # <<>> /\ sent[b][1] = "HelloTakeOver"
    BY DEF Connections, ConnectionsPlaced, d
  <2>2. CASE c = d
    BY <1>2, <1>3, <1>4, <2>1, <2>2
  <2>3. CASE c # d
    BY <1>2, <2>1, <2>3
  <2> QED
    BY <2>2, <2>3
<1>8. ConnectionsPlaced'
  BY <1>7 DEF Connections, ConnectionsPlaced
<1>9. Injective(pending') /\ Injective(backlog')
  BY DEF Connections
<1> QED
  BY <1>5, <1>6, <1>8, <1>9 DEF Connections

\* The client's next frame is taken.
LEMMA ConnectionsTake ==
    ASSUME TypeOK, Connections, Handling, TakeFrame,
           UNCHANGED <<sent, received>>,
           client' # None, client'.conn = client.conn,
           \A c \in Conns : status'[c] = status[c] \/ (status[c] = "pending" /\ status'[c] = "closed")
    PROVE  Counted' /\ Met'
<1> DEFINE d == client.conn
<1>1. /\ client # None /\ d \in Conns /\ acted[d] \in Nat
      /\ acted[d] >= 1 /\ acted[d] < received[d]
  BY FrameFound
<1>2. \A c \in Conns : acted'[c] = IF c = d THEN acted[c] + 1 ELSE acted[c]
  BY <1>1 DEF TakeFrame, TypeOK
<1>3. status[d] = "client"
  BY <1>1 DEF Connections, ConnectionsPlaced
<1>4. Met'
  BY <1>1, <1>2 DEF Met
<1>5. ASSUME NEW c \in Conns
      PROVE  /\ acted'[c] <= received[c]
             /\ status'[c] \in {"none", "backlog", "pending"} => acted'[c] = 0
  <2>1. acted[c] \in Nat /\ received[c] \in Nat /\ received[d] \in Nat
    BY <1>1 DEF TypeOK
  <2>2. acted[c] <= received[c] /\ (status[c] \in {"none", "backlog", "pending"} => acted[c] = 0)
    BY DEF Connections, Counted
  <2>3. CASE c = d
    <3>1. acted'[c] = acted[d] + 1 /\ status'[c] \notin {"none", "backlog", "pending"}
      BY <1>2, <1>3, <2>3
    <3> HIDE DEF d
    <3> QED
      BY <1>1, <2>1, <2>3, <3>1
  <2>4. CASE c # d
    BY <1>2, <2>2, <2>4
  <2> QED
    BY <2>3, <2>4
<1>6. Counted'
  BY <1>5 DEF Connections, Counted
<1> QED
  BY <1>4, <1>6

\* What a read of a socket finds.
LEMMA ReceivedIs ==
    ASSUME TypeOK, Connections, NEW c \in Conns, NEW limit \in Nat
    PROVE  /\ Received(c, limit) \in Nat
           /\ received[c] <= Received(c, limit) /\ Received(c, limit) <= Len(sent[c])
           /\ limit >= Buffered(c) + RECEIVE_LIMIT => Received(c, limit) = Len(sent[c])
           /\ received[c] - acted[c] \in Nat
<1>1. /\ acted[c] \in Nat /\ received[c] \in Nat /\ Len(sent[c]) \in Nat
      /\ acted[c] <= received[c] /\ received[c] <= Len(sent[c])
      /\ Len(sent[c]) <= received[c] + RECEIVE_LIMIT
      /\ RECEIVE_LIMIT \in Nat \ {0}
  BY HostConstants DEF TypeOK, Connections, Counted
<1> DEFINE a == Len(sent[c])
           b == acted[c] + limit
           m == Min({Len(sent[c]), acted[c] + limit})
<1>2. m \in {a, b} /\ m <= a /\ m <= b
  <2>1. a \in Int /\ b \in Int
    BY <1>1
  <2> QED
    BY <2>1, MinOfTwo
<1>3. Received(c, limit) = IF received[c] - acted[c] >= limit THEN received[c] ELSE m
  BY DEF Received, Buffered
<1> HIDE DEF m
<1> DEFINE g == Received(c, limit)
           x == received[c]
           y == acted[c]
<1>4. g = IF x - y >= limit THEN x ELSE m
  BY <1>3
<1>5. y \in Nat /\ x \in Nat /\ a \in Nat /\ b = y + limit /\ y <= x /\ x <= a
      /\ a <= x + RECEIVE_LIMIT /\ RECEIVE_LIMIT \in Nat \ {0}
  BY <1>1
<1>6. Buffered(c) = x - y
  BY DEF Buffered
<1> HIDE DEF g, x, y, a, b
<1>7. g \in Nat /\ x <= g /\ g <= a /\ x - y \in Nat
  BY <1>2, <1>4, <1>5
<1>8. limit >= (x - y) + RECEIVE_LIMIT => g = a
  BY <1>2, <1>4, <1>5
<1> QED
  BY <1>6, <1>7, <1>8 DEF g, x, y, a

LEMMA ConnectionsRead ==
    ASSUME TypeOK, Connections, client' = client, NEW d \in Conns, NEW limit \in Nat,
           received' = [received EXCEPT ![d] = Received(d, limit)],
           UNCHANGED <<pending, backlog, status, sent, acted>>,
           Pointed'
    PROVE  Connections'
<1> DEFINE g == Received(d, limit)
<1>5. g \in Nat /\ received[d] <= g /\ g <= Len(sent[d])
  BY ReceivedIs
<1> HIDE DEF g
<1>1. Counted'
  <2> SUFFICES ASSUME NEW c \in Conns
               PROVE  /\ acted[c] <= received'[c] /\ received'[c] <= Len(sent[c])
                      /\ Len(sent[c]) <= received'[c] + RECEIVE_LIMIT
    BY DEF Connections, Counted
  <2>1. /\ acted[c] \in Nat /\ received[c] \in Nat /\ Len(sent[c]) \in Nat
        /\ acted[c] <= received[c] /\ received[c] <= Len(sent[c])
        /\ Len(sent[c]) <= received[c] + RECEIVE_LIMIT
        /\ RECEIVE_LIMIT \in Nat
    BY HostConstants DEF TypeOK, Connections, Counted
  <2>2. received'[c] = IF c = d THEN g ELSE received[c]
    BY DEF TypeOK, g
  <2>3. received'[c] \in Nat /\ received[c] <= received'[c] /\ received'[c] <= Len(sent[c])
    BY <1>5, <2>1, <2>2
  <2> QED
    BY <2>1, <2>3
<1>2. Met'
  BY DEF Connections, Met
<1>3. ConnectionsPlaced'
  BY DEF Connections, ConnectionsPlaced
<1>4. Injective(pending') /\ Injective(backlog')
  BY DEF Connections
<1> QED
  BY <1>1, <1>2, <1>3, <1>4 DEF Connections

-----------------------------------------------------------------------------
(* The queues of connections.                                              *)

LEMMA InjectiveTail ==
    ASSUME NEW X, NEW s \in Seq(X), s # <<>>, Injective(s)
    PROVE  /\ Tail(s) \in Seq(X) /\ Injective(Tail(s)) /\ Head(s) \in X
           /\ Len(s) \in Nat /\ Len(s) >= 1 /\ Len(Tail(s)) = Len(s) - 1
           /\ \A x : x \in Range(Tail(s)) <=> x \in Range(s) /\ x # Head(s)
           /\ Head(s) \in Range(s)
<1> DEFINE t == Tail(s)
<1>1. /\ t \in Seq(X) /\ Len(s) \in Nat /\ Len(t) = Len(s) - 1 /\ Len(s) >= 1
      /\ DOMAIN s = 1 .. Len(s) /\ DOMAIN t = 1 .. Len(t)
      /\ Head(s) = s[1] /\ s[1] \in X
  OBVIOUS
<1>2. \A i \in 1 .. Len(t) : t[i] = s[i + 1]
  BY TailAt
<1> DEFINE n == Len(s)
<1>3. n \in Nat /\ n >= 1 /\ DOMAIN s = 1 .. n /\ DOMAIN t = 1 .. (n - 1)
      /\ \A i \in 1 .. (n - 1) : t[i] = s[i + 1]
  BY <1>1, <1>2
<1> HIDE DEF t, n
<1>4. Injective(t)
  <2> SUFFICES ASSUME NEW i \in 1 .. (n - 1), NEW j \in 1 .. (n - 1), t[i] = t[j] PROVE i = j
    BY <1>3 DEF Injective
  <2>1. i + 1 \in DOMAIN s /\ j + 1 \in DOMAIN s /\ s[i + 1] = s[j + 1]
    BY <1>3
  <2>2. i + 1 = j + 1
    BY <2>1 DEF Injective
  <2> QED
    BY <1>3, <2>2
<1>5. \A x : x \in Range(t) <=> x \in Range(s) /\ x # s[1]
  <2> TAKE x
  <2>1. ASSUME x \in Range(t) PROVE x \in Range(s) /\ x # s[1]
    <3>1. PICK i \in 1 .. (n - 1) : x = t[i]
      BY <1>3, <2>1 DEF Range
    <3>2. i + 1 \in DOMAIN s /\ 1 \in DOMAIN s /\ i + 1 # 1 /\ x = s[i + 1]
      BY <1>3, <3>1
    <3> QED
      BY <3>2 DEF Range, Injective
  <2>2. ASSUME x \in Range(s), x # s[1] PROVE x \in Range(t)
    <3>1. PICK i \in 1 .. n : x = s[i]
      BY <1>3, <2>2 DEF Range
    <3>2. i # 1
      BY <2>2, <3>1
    <3>3. i - 1 \in 1 .. (n - 1) /\ (i - 1) + 1 = i
      BY <1>3, <3>2
    <3>4. x = t[i - 1]
      BY <1>3, <3>1, <3>3
    <3> QED
      BY <1>3, <3>3, <3>4 DEF Range
  <2> QED
    BY <2>1, <2>2
<1>6. s[1] \in Range(s)
  BY <1>3 DEF Range
<1> QED
  BY <1>1, <1>4, <1>5, <1>6 DEF t

LEMMA InjectiveAppend ==
    ASSUME NEW X, NEW s \in Seq(X), NEW x \in X, Injective(s), x \notin Range(s)
    PROVE  /\ Append(s, x) \in Seq(X) /\ Injective(Append(s, x)) /\ Len(Append(s, x)) = Len(s) + 1
           /\ \A y : y \in Range(Append(s, x)) <=> y \in Range(s) \/ y = x
<1> DEFINE t == Append(s, x)
           n == Len(s)
<1>1. /\ t \in Seq(X) /\ n \in Nat /\ Len(t) = n + 1
      /\ DOMAIN s = 1 .. n /\ DOMAIN t = 1 .. (n + 1)
      /\ t[n + 1] = x
  OBVIOUS
<1>2. \A i \in 1 .. n : t[i] = s[i]
  OBVIOUS
<1> HIDE DEF t, n
<1>3. \A i \in 1 .. n : s[i] # x
  BY <1>1 DEF Range
<1>4. \A i \in 1 .. (n + 1) : i \in 1 .. n \/ i = n + 1
  BY <1>1
<1>5. Injective(t)
  <2> SUFFICES ASSUME NEW i \in 1 .. (n + 1), NEW j \in 1 .. (n + 1), t[i] = t[j] PROVE i = j
    BY <1>1 DEF Injective
  <2>1. CASE i \in 1 .. n /\ j \in 1 .. n
    BY <1>1, <1>2, <2>1 DEF Injective
  <2>2. CASE ~ (i \in 1 .. n /\ j \in 1 .. n)
    BY <1>1, <1>2, <1>3, <1>4, <2>2
  <2> QED
    BY <2>1, <2>2
<1>6. \A y : y \in Range(t) <=> y \in Range(s) \/ y = x
  <2> TAKE y
  <2>1. ASSUME y \in Range(t) PROVE y \in Range(s) \/ y = x
    <3>1. PICK i \in 1 .. (n + 1) : y = t[i]
      BY <1>1, <2>1 DEF Range
    <3> QED
      BY <1>1, <1>2, <1>4, <3>1 DEF Range
  <2>2. ASSUME y \in Range(s) \/ y = x PROVE y \in Range(t)
    <3>1. CASE y = x
      BY <1>1, <3>1 DEF Range
    <3>2. CASE y \in Range(s)
      <4>1. PICK i \in 1 .. n : y = s[i]
        BY <1>1, <3>2 DEF Range
      <4>2. i \in 1 .. (n + 1) /\ y = t[i]
        BY <1>1, <1>2, <4>1
      <4> QED
        BY <1>1, <4>2 DEF Range
    <3> QED
      BY <2>2, <3>1, <3>2
  <2> QED
    BY <2>1, <2>2
<1> QED
  BY <1>1, <1>5, <1>6 DEF t, n

LEMMA InjectiveKeep ==
    ASSUME NEW X, NEW s \in Seq(X), NEW S, Injective(s)
    PROVE  /\ Keep(s, S) \in Seq(X) /\ Injective(Keep(s, S)) /\ Len(Keep(s, S)) <= Len(s)
           /\ \A x : x \in Range(Keep(s, S)) <=> x \in Range(s) /\ x \in S
<1> DEFINE k == Keep(s, S)
<1>1. k \in Seq(X) /\ Len(k) <= Len(s)
  BY KeepType
<1>2. Range(k) = Range(s) \cap S
  BY KeepRange
<1>3. PICK e \in [1 .. Len(k) -> 1 .. Len(s)] :
          /\ \A i \in 1 .. Len(k) : k[i] = s[e[i]]
          /\ \A i, j \in 1 .. Len(k) : i < j => e[i] < e[j]
  BY KeepEmbeds
<1> HIDE DEF k
<1> DEFINE n == Len(k)
           m == Len(s)
<1>4. n \in Nat /\ m \in Nat /\ DOMAIN k = 1 .. n /\ DOMAIN s = 1 .. m
  BY <1>1
<1>5. Injective(k)
  <2> SUFFICES ASSUME NEW i \in 1 .. n, NEW j \in 1 .. n, k[i] = k[j] PROVE i = j
    BY <1>4 DEF Injective
  <2>1. e[i] \in 1 .. m /\ e[j] \in 1 .. m /\ s[e[i]] = s[e[j]]
    BY <1>3
  <2>2. e[i] = e[j]
    BY <1>4, <2>1 DEF Injective
  <2>3. ~ (i < j) /\ ~ (j < i)
    <3> HIDE DEF n, m
    <3>1. \A a, b \in 1 .. n : a < b => e[a] < e[b]
      BY <1>3 DEF n
    <3> QED
      BY <1>4, <2>1, <2>2, <3>1
  <2> QED
    BY <1>4, <2>3
<1> QED
  BY <1>1, <1>2, <1>5 DEF k

\* What a connection that waits is.
LEMMA WaitingIs ==
    ASSUME TypeOK, AgendaOK(todo), Connections, read_pending, ended = None
    PROVE  LET c == Head(todo).conn
           IN  /\ c \in Conns /\ c \in Range(pending) /\ status[c] = "pending" /\ acted[c] = 0
               /\ client # None => c # client.conn
               /\ Received(c, MAX_BEFORE_HELLO) \in Nat
               /\ received[c] <= Received(c, MAX_BEFORE_HELLO)
               /\ Received(c, MAX_BEFORE_HELLO) <= Len(sent[c])
<1> DEFINE c == Head(todo).conn
<1>1. Running("read_pending")
  BY DEF read_pending
<1>2. PointsAt(todo[1], ended, pending, client, peer) /\ todo[1].op = "read_pending" /\ Head(todo) = todo[1]
  BY <1>1, PointsLeft DEF Connections
<1>3. c \in Conns /\ c \in Range(pending)
  BY <1>2 DEF PointsAt
<1>4. status[c] = "pending"
  BY <1>3 DEF Connections, ConnectionsPlaced
<1>5. acted[c] = 0
  BY <1>3, <1>4 DEF Connections, Counted
<1>6. client # None => c # client.conn
  BY <1>3, <1>4 DEF Connections, ConnectionsPlaced
<1>7. MAX_BEFORE_HELLO \in Nat
  BY HostConstants
<1> HIDE DEF c
<1>8. /\ Received(c, MAX_BEFORE_HELLO) \in Nat
      /\ received[c] <= Received(c, MAX_BEFORE_HELLO)
      /\ Received(c, MAX_BEFORE_HELLO) <= Len(sent[c])
  BY <1>3, <1>7, ReceivedIs
<1> QED
  BY <1>3, <1>4, <1>5, <1>6, <1>8 DEF c

\* It no longer waits: it was turned away, or is the client.
LEMMA LeavesPending ==
    ASSUME TypeOK, AgendaOK(todo), Connections, read_pending, ended = None,
           pending' = Keep(pending, Conns \ {Head(todo).conn})
    PROVE  /\ Injective(pending') /\ Len(pending') <= MAX_PENDING_CONNECTIONS
           /\ \A d \in Conns : d \in Range(pending') <=> d \in Range(pending) /\ d # Head(todo).conn
           /\ \A i \in 1 .. Len(Tail(todo)) :
                  /\ Tail(todo)[i].op = "read_pending" =>
                         Tail(todo)[i].conn \in Conns /\ Tail(todo)[i].conn \in Range(pending')
                  /\ Tail(todo)[i].op # "close_client"
<1> DEFINE c == Head(todo).conn
           t == Tail(todo)
           S == Conns \ {c}
<1>1. Running("read_pending")
  BY DEF read_pending
<1>2. /\ todo[1].op = "read_pending" /\ Head(todo) = todo[1]
      /\ \A i \in 1 .. Len(t) : PointsAt(t[i], ended, pending, client, peer) /\ Before(todo[1], t[i])
  BY <1>1, PointsLeft DEF Connections
<1>3. pending \in Seq(Conns) /\ Injective(pending) /\ Len(pending) <= MAX_PENDING_CONNECTIONS
      /\ MAX_PENDING_CONNECTIONS \in Nat /\ Len(pending) \in Nat
  BY HostConstants DEF TypeOK, Connections, ConnectionsPlaced
<1>4. pending' = Keep(pending, S)
  OBVIOUS
<1> HIDE DEF S
<1>5. /\ Keep(pending, S) \in Seq(Conns) /\ Injective(Keep(pending, S))
      /\ Len(Keep(pending, S)) <= Len(pending)
  BY <1>3, InjectiveKeep
<1>6. \A x : x \in Range(Keep(pending, S)) <=> x \in Range(pending) /\ x \in S
  BY <1>3, InjectiveKeep
<1>7. Len(Keep(pending, S)) <= MAX_PENDING_CONNECTIONS
  <2>1. Len(Keep(pending, S)) \in Nat
    BY <1>5
  <2> QED
    BY <1>3, <1>5, <2>1
<1>8. \A d \in Conns : d \in Range(pending') <=> d \in Range(pending) /\ d # c
  BY <1>4, <1>6 DEF S
<1> HIDE DEF c, t
<1>9. \A i \in 1 .. Len(t) : t[i].op = "read_pending" =>
          t[i].conn \in Conns /\ t[i].conn \in Range(pending) /\ t[i].conn # c
  BY <1>2 DEF PointsAt, Before, c
<1>10. \A i \in 1 .. Len(t) : t[i].op # "close_client"
  BY <1>2 DEF Before
<1> QED
  BY <1>4, <1>5, <1>7, <1>8, <1>9, <1>10 DEF c, t

LEMMA RejectedPending ==
    ASSUME TypeOK, AgendaOK(todo), Connections, read_pending, ended = None,
           NEW fate \in {"rejected", "busy"},
           pending' = Keep(pending, Conns \ {Head(todo).conn}),
           status' = [status EXCEPT ![Head(todo).conn] = fate],
           received' = [received EXCEPT ![Head(todo).conn] = Received(Head(todo).conn, MAX_BEFORE_HELLO)],
           todo' = Tail(todo),
           UNCHANGED <<client, acted, ended, backlog, sent, peer>>
    PROVE  Connections'
<1> DEFINE c == Head(todo).conn
           t == Tail(todo)
           g == Received(c, MAX_BEFORE_HELLO)
<1>1. /\ c \in Conns /\ c \in Range(pending) /\ status[c] = "pending" /\ acted[c] = 0
      /\ client # None => c # client.conn
      /\ g \in Nat /\ received[c] <= g /\ g <= Len(sent[c])
  BY WaitingIs
<1>2. /\ Injective(pending') /\ Len(pending') <= MAX_PENDING_CONNECTIONS
      /\ \A d \in Conns : d \in Range(pending') <=> d \in Range(pending) /\ d # c
      /\ \A i \in 1 .. Len(t) : /\ t[i].op = "read_pending" => t[i].conn \in Conns /\ t[i].conn \in Range(pending')
                                /\ t[i].op # "close_client"
  BY LeavesPending
<1>3. DOMAIN t = 1 .. Len(t)
  <2>1. Running("read_pending")
    BY DEF read_pending
  <2> QED
    BY <2>1, PointsLeft DEF Connections
<1>4. status' = [status EXCEPT ![c] = fate] /\ received' = [received EXCEPT ![c] = g] /\ todo' = t
  OBVIOUS
<1> HIDE DEF c, t, g
<1>5. \A d \in Conns : /\ status'[d] = IF d = c THEN fate ELSE status[d]
                       /\ received'[d] = IF d = c THEN g ELSE received[d]
  BY <1>1, <1>4 DEF TypeOK
<1>6. fate \notin {"none", "backlog", "pending", "client", "displaced"}
  OBVIOUS
<1>7. Counted'
  <2> SUFFICES ASSUME NEW d \in Conns
               PROVE  /\ acted[d] <= received'[d] /\ received'[d] <= Len(sent[d])
                      /\ Len(sent[d]) <= received'[d] + RECEIVE_LIMIT
                      /\ status'[d] \in {"none", "backlog", "pending"} => acted[d] = 0
    BY DEF Connections, Counted
  <2>1. /\ acted[d] \in Nat /\ received[d] \in Nat /\ Len(sent[d]) \in Nat
        /\ acted[d] <= received[d] /\ received[d] <= Len(sent[d])
        /\ Len(sent[d]) <= received[d] + RECEIVE_LIMIT
        /\ status[d] \in {"none", "backlog", "pending"} => acted[d] = 0
        /\ RECEIVE_LIMIT \in Nat
    BY HostConstants DEF TypeOK, Connections, Counted
  <2>2. CASE d = c
    <3>1. received'[d] = g /\ acted[d] = 0 /\ g \in Nat /\ g <= Len(sent[d]) /\ received[d] <= g
      BY <1>1, <1>5, <2>2
    <3> QED
      BY <2>1, <3>1
  <2>3. CASE d # c
    <3>1. received'[d] = received[d] /\ status'[d] = status[d]
      BY <1>5, <2>3
    <3> QED
      BY <2>1, <3>1
  <2> QED
    BY <2>2, <2>3
<1>8. Met'
  BY DEF Connections, Met
<1>9. ConnectionsPlaced'
  <2>1. \A d \in Conns :
          /\ (status[d] = "backlog") <=> (d \in Range(backlog))
          /\ (status[d] = "pending") <=> (d \in Range(pending))
          /\ (status[d] = "client") <=> (client # None /\ client.conn = d)
          /\ status[d] = "displaced" =>
                 \E b \in Conns \ {d} : sent[b] # <<>> /\ sent[b][1] = "HelloTakeOver"
    BY DEF Connections, ConnectionsPlaced
  <2>2. \A d \in Conns :
          /\ (status'[d] = "backlog") <=> (d \in Range(backlog))
          /\ (status'[d] = "pending") <=> (d \in Range(pending'))
          /\ (status'[d] = "client") <=> (client # None /\ client.conn = d)
          /\ status'[d] = "displaced" =>
                 \E b \in Conns \ {d} : sent[b] # <<>> /\ sent[b][1] = "HelloTakeOver"
    <3> TAKE d \in Conns
    <3> DEFINE D == \E b \in Conns \ {d} : sent[b] # <<>> /\ sent[b][1] = "HelloTakeOver"
               new == status'[d]
               old == status[d]
               B == d \in Range(backlog)
               P == d \in Range(pending)
               Q == d \in Range(pending')
               C == client # None /\ client.conn = d
    <3>1. /\ (old = "backlog") <=> B
          /\ (old = "pending") <=> P
          /\ (old = "client") <=> C
          /\ old = "displaced" => D
      BY <2>1
    <3>2. new = (IF d = c THEN fate ELSE old) /\ (Q <=> (P /\ d # c)) /\ (d = c => old = "pending")
      BY <1>1, <1>2, <1>5
    <3> HIDE DEF D, new, old, B, P, Q, C
    <3>3. /\ (new = "backlog") <=> B
          /\ (new = "pending") <=> Q
          /\ (new = "client") <=> C
          /\ new = "displaced" => D
      BY <1>6, <3>1, <3>2
    <3> QED
      BY <3>3 DEF D, new, B, Q, C
  <2> QED
    BY <1>2, <2>2 DEF ConnectionsPlaced
<1>10. Injective(pending') /\ Injective(backlog')
  BY <1>2 DEF Connections
<1>11. Pointed'
  BY <1>2, <1>3, <1>4 DEF Pointed, PointsAt
<1> QED
  BY <1>7, <1>8, <1>9, <1>10, <1>11 DEF Connections

\* It becomes the client.
LEMMA AdmittedPending ==
    ASSUME TypeOK, AgendaOK(todo), Connections, read_pending, ended = None,
           pending' = Keep(pending, Conns \ {Head(todo).conn}),
           client' # None, client'.conn = Head(todo).conn,
           Received(Head(todo).conn, MAX_BEFORE_HELLO) # 0,
           client # None => sent[Head(todo).conn][1] = "HelloTakeOver",
           status' = [d \in Conns |-> IF d = Head(todo).conn THEN "client"
                                      ELSE IF status[d] = "client" THEN "displaced"
                                      ELSE status[d]],
           received' = [received EXCEPT ![Head(todo).conn] = Received(Head(todo).conn, MAX_BEFORE_HELLO)],
           acted' = [acted EXCEPT ![Head(todo).conn] = 1],
           NEW x \in Entry, x.op \in {"close_client", "act_on_buffered"},
           x.op = "close_client" => peer[Head(todo).conn] # "open",
           todo' = Cons(x, Tail(todo)),
           UNCHANGED <<ended, backlog, sent, peer>>
    PROVE  Connections'
<1> DEFINE c == Head(todo).conn
           t == Tail(todo)
           g == Received(c, MAX_BEFORE_HELLO)
           r == Cons(x, Tail(todo))
<1>1. /\ c \in Conns /\ c \in Range(pending) /\ status[c] = "pending" /\ acted[c] = 0
      /\ client # None => c # client.conn
      /\ g \in Nat /\ received[c] <= g /\ g <= Len(sent[c])
  BY WaitingIs
<1>2. /\ Injective(pending') /\ Len(pending') <= MAX_PENDING_CONNECTIONS
      /\ \A d \in Conns : d \in Range(pending') <=> d \in Range(pending) /\ d # c
      /\ \A i \in 1 .. Len(t) : /\ t[i].op = "read_pending" => t[i].conn \in Conns /\ t[i].conn \in Range(pending')
                                /\ t[i].op # "close_client"
  BY LeavesPending
<1>3. Running("read_pending")
  BY DEF read_pending
<1>4. /\ AgendaOK(r)
      /\ \A i \in 1 .. Len(r) : r[i] = x \/ (i - 1 \in 1 .. Len(Tail(todo)) /\ r[i] = Tail(todo)[i - 1])
  <2>1. AgendaOK(r)
    BY <1>3, CalledOne
  <2>2. \A i \in 1 .. Len(r) : r[i] = x \/ (i - 1 \in 1 .. Len(Tail(todo)) /\ r[i] = Tail(todo)[i - 1])
    BY <1>3, CalledOne
  <2> QED
    BY <2>1, <2>2
<1>5. /\ status' = [d \in Conns |-> IF d = c THEN "client" ELSE IF status[d] = "client" THEN "displaced"
                                    ELSE status[d]]
      /\ received' = [received EXCEPT ![c] = g] /\ acted' = [acted EXCEPT ![c] = 1] /\ todo' = r
      /\ client'.conn = c /\ g # 0 /\ (client # None => sent[c][1] = "HelloTakeOver")
      /\ x.op = "close_client" => peer[c] # "open"
  OBVIOUS
<1> HIDE DEF c, r, g
<1>6. \A i \in 1 .. Len(r) : r[i] = x \/ (i - 1 \in 1 .. Len(t) /\ r[i] = t[i - 1])
  BY <1>4
<1> HIDE DEF t
<1>7. \A d \in Conns : /\ status'[d] = IF d = c THEN "client" ELSE IF status[d] = "client" THEN "displaced"
                                       ELSE status[d]
                       /\ received'[d] = IF d = c THEN g ELSE received[d]
                       /\ acted'[d] = IF d = c THEN 1 ELSE acted[d]
  <2>1. received \in [Conns -> Nat] /\ acted \in [Conns -> Nat]
    BY DEF TypeOK
  <2>2. \A d \in Conns : status'[d] = IF d = c THEN "client" ELSE IF status[d] = "client" THEN "displaced"
                                      ELSE status[d]
    BY <1>5
  <2>3. \A d \in Conns : received'[d] = IF d = c THEN g ELSE received[d]
    BY <1>5, <2>1
  <2>4. \A d \in Conns : acted'[d] = IF d = c THEN 1 ELSE acted[d]
    BY <1>5, <2>1
  <2> QED
    BY <2>2, <2>3, <2>4
<1>8. Counted'
  <2> SUFFICES ASSUME NEW d \in Conns
               PROVE  /\ acted'[d] <= received'[d] /\ received'[d] <= Len(sent[d])
                      /\ Len(sent[d]) <= received'[d] + RECEIVE_LIMIT
                      /\ status'[d] \in {"none", "backlog", "pending"} => acted'[d] = 0
    BY DEF Connections, Counted
  <2>1. /\ acted[d] \in Nat /\ received[d] \in Nat /\ Len(sent[d]) \in Nat
        /\ acted[d] <= received[d] /\ received[d] <= Len(sent[d])
        /\ Len(sent[d]) <= received[d] + RECEIVE_LIMIT
        /\ status[d] \in {"none", "backlog", "pending"} => acted[d] = 0
        /\ RECEIVE_LIMIT \in Nat
    BY HostConstants DEF TypeOK, Connections, Counted
  <2>2. CASE d = c
    <3>1. /\ received'[d] = g /\ acted'[d] = 1 /\ g \in Nat /\ g # 0 /\ g <= Len(sent[d]) /\ received[d] <= g
          /\ status'[d] = "client"
      BY <1>1, <1>5, <1>7, <2>2
    <3> QED
      BY <2>1, <3>1
  <2>3. CASE d # c
    <3>1. received'[d] = received[d] /\ acted'[d] = acted[d]
          /\ (status'[d] = status[d] \/ status'[d] = "displaced")
      BY <1>7, <2>3
    <3> QED
      BY <2>1, <3>1
  <2> QED
    BY <2>2, <2>3
<1>9. Met'
  BY <1>1, <1>5, <1>7 DEF Met
<1>10. ConnectionsPlaced'
  <2>1. \A d \in Conns :
          /\ (status[d] = "backlog") <=> (d \in Range(backlog))
          /\ (status[d] = "pending") <=> (d \in Range(pending))
          /\ (status[d] = "client") <=> (client # None /\ client.conn = d)
          /\ status[d] = "displaced" =>
                 \E b \in Conns \ {d} : sent[b] # <<>> /\ sent[b][1] = "HelloTakeOver"
    BY DEF Connections, ConnectionsPlaced
  <2>2. sent[c] # <<>>
    <3>1. Len(sent[c]) \in Nat /\ Len(sent[c]) # 0
      BY <1>1, <1>5 DEF TypeOK
    <3> QED
      BY <3>1
  <2>3. \A d \in Conns :
          /\ (status'[d] = "backlog") <=> (d \in Range(backlog))
          /\ (status'[d] = "pending") <=> (d \in Range(pending'))
          /\ (status'[d] = "client") <=> (c = d)
          /\ status'[d] = "displaced" =>
                 \E b \in Conns \ {d} : sent[b] # <<>> /\ sent[b][1] = "HelloTakeOver"
    <3> TAKE d \in Conns
    <3>1. CASE d = c
      BY <1>1, <1>2, <1>7, <2>1, <3>1
    <3>2. CASE d # c /\ status[d] = "client"
      <4>1. client # None /\ c \in Conns \ {d} /\ sent[c][1] = "HelloTakeOver"
        BY <1>1, <1>5, <2>1, <3>2
      <4> QED
        BY <1>2, <1>7, <2>1, <2>2, <3>2, <4>1
    <3>3. CASE d # c /\ status[d] # "client"
      BY <1>2, <1>7, <2>1, <3>3
    <3> QED
      BY <3>1, <3>2, <3>3
  <2> QED
    BY <1>2, <1>5, <2>3 DEF ConnectionsPlaced
<1>11. Injective(pending') /\ Injective(backlog')
  BY <1>2 DEF Connections
<1>12. Pointed'
  <2>1. DOMAIN r = 1 .. Len(r)
    BY <1>4 DEF AgendaOK
  <2>2. PointsAt(x, ended', pending', client', peer')
    BY <1>5 DEF PointsAt
  <2>3. \A i \in 1 .. Len(t) : PointsAt(t[i], ended', pending', client', peer')
    BY <1>2 DEF PointsAt
  <2>4. \A i \in DOMAIN r : PointsAt(r[i], ended', pending', client', peer')
    BY <1>6, <2>1, <2>2, <2>3
  <2> QED
    BY <1>5, <2>4 DEF Pointed
<1> QED
  BY <1>8, <1>9, <1>10, <1>11, <1>12 DEF Connections

\* Those that waited too long.
LEMMA ConnectionsExpire ==
    ASSUME TypeOK, AgendaOK(todo), Connections, expire_pending
    PROVE  Connections'
<1> DEFINE t == Tail(todo)
           S == Conns \ due
<1>1. Running("expire_pending")
  BY DEF expire_pending
<1>2. /\ todo[1].op = "expire_pending" /\ DOMAIN t = 1 .. Len(t)
      /\ \A i \in 1 .. Len(t) : Before(todo[1], t[i])
  BY <1>1, PointsLeft DEF Connections
<1>3. /\ todo' = t /\ pending' = Keep(pending, S)
      /\ status' = [c \in Conns |-> IF c \in Range(pending) \cap due THEN "expired" ELSE status[c]]
      /\ UNCHANGED <<client, acted, received, sent, backlog>>
  BY DEF expire_pending, Return
<1> HIDE DEF t, S
<1>4. pending \in Seq(Conns) /\ Injective(pending) /\ Len(pending) <= MAX_PENDING_CONNECTIONS
      /\ MAX_PENDING_CONNECTIONS \in Nat /\ Len(pending) \in Nat
  BY HostConstants DEF TypeOK, Connections, ConnectionsPlaced
<1>5. /\ Keep(pending, S) \in Seq(Conns) /\ Injective(Keep(pending, S))
      /\ Len(Keep(pending, S)) <= Len(pending)
  BY <1>4, InjectiveKeep
<1>6. \A x : x \in Range(Keep(pending, S)) <=> x \in Range(pending) /\ x \in S
  BY <1>4, InjectiveKeep
<1>7. Len(pending') <= MAX_PENDING_CONNECTIONS
  <2>1. Len(Keep(pending, S)) \in Nat
    BY <1>5
  <2> QED
    BY <1>3, <1>4, <1>5, <2>1
<1>8. \A c \in Conns : status'[c] = IF c \in Range(pending) /\ c \in due THEN "expired" ELSE status[c]
  BY <1>3
<1>9. \A c \in Conns : c \in Range(pending') <=> c \in Range(pending) /\ c \notin due
  BY <1>3, <1>6 DEF S
<1>10. Counted'
  BY <1>3, <1>8 DEF Connections, Counted
<1>11. Met'
  BY <1>3 DEF Connections, Met
<1>12. ConnectionsPlaced'
  <2>1. \A c \in Conns :
          /\ (status[c] = "backlog") <=> (c \in Range(backlog))
          /\ (status[c] = "pending") <=> (c \in Range(pending))
          /\ (status[c] = "client") <=> (client # None /\ client.conn = c)
          /\ status[c] = "displaced" =>
                 \E b \in Conns \ {c} : sent[b] # <<>> /\ sent[b][1] = "HelloTakeOver"
    BY DEF Connections, ConnectionsPlaced
  <2>2. \A c \in Conns :
          /\ (status'[c] = "backlog") <=> (c \in Range(backlog))
          /\ (status'[c] = "pending") <=> (c \in Range(pending'))
          /\ (status'[c] = "client") <=> (client # None /\ client.conn = c)
          /\ status'[c] = "displaced" =>
                 \E b \in Conns \ {c} : sent[b] # <<>> /\ sent[b][1] = "HelloTakeOver"
    <3> TAKE c \in Conns
    <3> DEFINE D == \E b \in Conns \ {c} : sent[b] # <<>> /\ sent[b][1] = "HelloTakeOver"
               new == status'[c]
               old == status[c]
               B == c \in Range(backlog)
               P == c \in Range(pending)
               Q == c \in Range(pending')
               C == client # None /\ client.conn = c
    <3>1. /\ (old = "backlog") <=> B
          /\ (old = "pending") <=> P
          /\ (old = "client") <=> C
          /\ old = "displaced" => D
      BY <2>1
    <3>2. new = (IF P /\ c \in due THEN "expired" ELSE old) /\ (Q <=> (P /\ c \notin due))
      BY <1>8, <1>9
    <3> HIDE DEF D, new, old, B, P, Q, C
    <3>3. /\ (new = "backlog") <=> B
          /\ (new = "pending") <=> Q
          /\ (new = "client") <=> C
          /\ new = "displaced" => D
      BY <3>1, <3>2
    <3> QED
      BY <3>3 DEF D, new, B, Q, C
  <2> QED
    BY <1>3, <1>7, <2>2 DEF ConnectionsPlaced
<1>13. Injective(pending') /\ Injective(backlog')
  BY <1>3, <1>5 DEF Connections
<1>14. Pointed'
  <2>1. \A i \in DOMAIN t : PointsAt(t[i], ended', pending', client', peer')
    BY <1>2 DEF Before, PointsAt
  <2> QED
    BY <1>3, <2>1 DEF Pointed
<1> QED
  BY <1>10, <1>11, <1>12, <1>13, <1>14 DEF Connections

\* A connection accepted, in the place of the oldest when all are taken, or turned away.
LEMMA ConnectionsAccept ==
    ASSUME TypeOK, AgendaOK(todo), Connections, accept
    PROVE  Connections'
<1> DEFINE t == Tail(todo)
           k == Head(todo).n - 1
           x == Accept(k)
<1>1. Running("accept") /\ UNCHANGED <<client, sent, received, acted, ended, peer>>
  BY DEF accept
<1>2. /\ todo[1].op = "accept" /\ DOMAIN t = 1 .. Len(t) /\ todo[1] \in Entry /\ Head(todo) = todo[1]
      /\ \A i \in 1 .. Len(t) : Before(todo[1], t[i])
  BY <1>1, PointsLeft DEF Connections
<1>3. CASE UNCHANGED <<pending, status, backlog>> /\ todo' = t
  <2>1. Pointed'
    BY <1>1, <1>3, PointedReturn DEF Connections
  <2> QED
    BY <1>1, <1>3, <2>1, ConnectionsSame
<1>4. CASE ~ (UNCHANGED <<pending, status, backlog>> /\ todo' = t)
  <2> DEFINE c == Head(backlog)
             full == Len(pending) >= MAX_PENDING_CONNECTIONS
             evicted == IF full /\ c \notin Foreign THEN {Head(pending)} ELSE {}
             places == IF full THEN Tail(pending) ELSE pending
  <2>1. /\ backlog # <<>> /\ Head(todo).n # 0 /\ backlog' = Tail(backlog)
        /\ pending' = IF c \in Foreign THEN pending ELSE Append(places, c)
        /\ status' = [d \in Conns |-> IF d = c THEN IF c \in Foreign THEN "rejected" ELSE "pending"
                                      ELSE IF d \in evicted THEN "evicted"
                                      ELSE status[d]]
    BY <1>4 DEF accept, Return
  <2>2. todo' = Cons(x, t)
    BY <1>4 DEF accept, Return, Call, Cons
  <2>3. /\ pending \in Seq(Conns) /\ backlog \in Seq(Conns) /\ Injective(pending) /\ Injective(backlog)
        /\ Len(pending) <= MAX_PENDING_CONNECTIONS /\ Len(pending) \in Nat
        /\ MAX_PENDING_CONNECTIONS \in Nat \ {0}
    BY HostConstants DEF TypeOK, Connections, ConnectionsPlaced
  <2>4. /\ Injective(backlog') /\ c \in Conns /\ c \in Range(backlog)
        /\ \A d : d \in Range(backlog') <=> d \in Range(backlog) /\ d # c
    BY <2>1, <2>3, InjectiveTail
  <2>5. status[c] = "backlog" /\ acted[c] = 0 /\ c \notin Range(pending)
    <3>1. status[c] = "backlog"
      BY <2>4 DEF Connections, ConnectionsPlaced
    <3>2. c \notin Range(pending)
      BY <2>4, <3>1 DEF Connections, ConnectionsPlaced
    <3>3. acted[c] = 0
      BY <2>4, <3>1 DEF Connections, Counted
    <3> QED
      BY <3>1, <3>2, <3>3
  <2> HIDE DEF c
  <2>6. /\ places \in Seq(Conns) /\ Injective(places) /\ Len(places) \in Nat
        /\ Len(places) + 1 <= MAX_PENDING_CONNECTIONS
        /\ \A d : d \in Range(places) <=> d \in Range(pending) /\ ~ (full /\ d = Head(pending))
        /\ full => Head(pending) \in Range(pending)
    <3>1. CASE full
      <4>1. pending # <<>>
        BY <2>3, <3>1
      <4>2. /\ Tail(pending) \in Seq(Conns) /\ Injective(Tail(pending))
            /\ Len(Tail(pending)) = Len(pending) - 1 /\ Len(pending) >= 1
            /\ Head(pending) \in Range(pending)
        BY <2>3, <4>1, InjectiveTail
      <4>3. \A d : d \in Range(Tail(pending)) <=> d \in Range(pending) /\ d # Head(pending)
        BY <2>3, <4>1, InjectiveTail
      <4> QED
        BY <2>3, <3>1, <4>2, <4>3
    <3>2. CASE ~ full
      BY <2>3, <3>2
    <3> QED
      BY <3>1, <3>2
  <2>7. /\ Injective(pending') /\ Len(pending') <= MAX_PENDING_CONNECTIONS
        /\ \A d \in Conns : d \in Range(pending') <=>
               (d \in Range(pending) /\ d \notin evicted) \/ (d = c /\ c \notin Foreign)
    <3>1. CASE c \in Foreign
      BY <2>1, <2>3, <3>1
    <3>2. CASE c \notin Foreign
      <4>1. c \notin Range(places) /\ places \in Seq(Conns) /\ Injective(places)
        BY <2>5, <2>6
      <4> HIDE DEF places
      <4>2. /\ Injective(Append(places, c)) /\ Len(Append(places, c)) = Len(places) + 1
        BY <2>4, <4>1, InjectiveAppend
      <4>3. \A y : y \in Range(Append(places, c)) <=> y \in Range(places) \/ y = c
        BY <2>4, <4>1, InjectiveAppend
      <4>4. pending' = Append(places, c)
        BY <2>1, <3>2
      <4>5. \A d : d \in evicted <=> (full /\ d = Head(pending))
        BY <3>2
      <4> HIDE DEF evicted, full
      <4>6. \A d : d \in Range(pending') <=> (d \in Range(pending) /\ d \notin evicted) \/ d = c
        BY <2>6, <4>3, <4>4, <4>5
      <4>7. Len(pending') <= MAX_PENDING_CONNECTIONS /\ Injective(pending')
        BY <2>6, <4>2, <4>4
      <4> QED
        BY <3>2, <4>6, <4>7
    <3> QED
      BY <3>1, <3>2
  <2>8. \A d \in evicted : d \in Range(pending)
    BY <2>6
  <2>9. \A d \in Conns : status'[d] = IF d = c THEN IF c \in Foreign THEN "rejected" ELSE "pending"
                                      ELSE IF d \in evicted THEN "evicted"
                                      ELSE status[d]
    BY <2>1
  <2> HIDE DEF evicted, full, places
  <2>10. Counted'
    BY <1>1, <2>5, <2>9 DEF Connections, Counted
  <2>11. Met'
    BY <1>1 DEF Connections, Met
  <2>12. ConnectionsPlaced'
    <3>1. \A d \in Conns :
            /\ (status[d] = "backlog") <=> (d \in Range(backlog))
            /\ (status[d] = "pending") <=> (d \in Range(pending))
            /\ (status[d] = "client") <=> (client # None /\ client.conn = d)
            /\ status[d] = "displaced" =>
                   \E b \in Conns \ {d} : sent[b] # <<>> /\ sent[b][1] = "HelloTakeOver"
      BY DEF Connections, ConnectionsPlaced
    <3>2. \A d \in Conns :
            /\ (status'[d] = "backlog") <=> (d \in Range(backlog'))
            /\ (status'[d] = "pending") <=> (d \in Range(pending'))
            /\ (status'[d] = "client") <=> (client # None /\ client.conn = d)
            /\ status'[d] = "displaced" =>
                   \E b \in Conns \ {d} : sent[b] # <<>> /\ sent[b][1] = "HelloTakeOver"
      <4> TAKE d \in Conns
      <4> DEFINE D == \E b \in Conns \ {d} : sent[b] # <<>> /\ sent[b][1] = "HelloTakeOver"
                 new == status'[d]
                 old == status[d]
                 B == d \in Range(backlog)
                 B1 == d \in Range(backlog')
                 P == d \in Range(pending)
                 Q == d \in Range(pending')
                 C == client # None /\ client.conn = d
                 E == d \in evicted
                 F == c \in Foreign
      <4>1. /\ (old = "backlog") <=> B
            /\ (old = "pending") <=> P
            /\ (old = "client") <=> C
            /\ old = "displaced" => D
        BY <3>1
      <4>2. new = (IF d = c THEN IF F THEN "rejected" ELSE "pending"
                   ELSE IF E THEN "evicted" ELSE old)
        BY <2>9
      <4>3. (Q <=> ((P /\ ~ E) \/ (d = c /\ ~ F))) /\ (B1 <=> (B /\ d # c))
        BY <2>4, <2>7
      <4>4. (E => P) /\ (d = c => old = "backlog")
        BY <2>5, <2>8
      <4> HIDE DEF D, new, old, B, B1, P, Q, C, E, F
      <4>5. /\ (new = "backlog") <=> B1
            /\ (new = "pending") <=> Q
            /\ (new = "client") <=> C
            /\ new = "displaced" => D
        BY <4>1, <4>2, <4>3, <4>4
      <4> QED
        BY <4>5 DEF D, new, B1, Q, C
    <3> QED
      BY <1>1, <2>7, <3>2 DEF ConnectionsPlaced
  <2>13. Pointed'
    <3> DEFINE r == Cons(x, Tail(todo))
    <3>1. x \in Entry /\ x.op = "accept"
      <4>1. k \in Nat
        BY <1>2, <2>1, EntryType
      <4> HIDE DEF k
      <4> QED
        BY <4>1, EntryType
    <3> HIDE DEF x
    <3>2. AgendaOK(r)
      BY <1>1, <3>1, CalledOne
    <3>3. \A i \in 1 .. Len(r) : r[i] = x \/ (i - 1 \in 1 .. Len(Tail(todo)) /\ r[i] = Tail(todo)[i - 1])
      BY <1>1, <3>1, CalledOne
    <3>4. todo' = r
      BY <2>2
    <3> HIDE DEF r
    <3>5. \A i \in 1 .. Len(r) : r[i] = x \/ (i - 1 \in 1 .. Len(t) /\ r[i] = t[i - 1])
      BY <3>3
    <3> HIDE DEF t
    <3>6. DOMAIN r = 1 .. Len(r)
      BY <3>2 DEF AgendaOK
    <3>7. \A i \in 1 .. Len(t) : PointsAt(t[i], ended', pending', client', peer')
      BY <1>2 DEF Before, PointsAt
    <3>8. PointsAt(x, ended', pending', client', peer')
      BY <3>1 DEF PointsAt
    <3>9. \A i \in DOMAIN r : PointsAt(r[i], ended', pending', client', peer')
      BY <3>5, <3>6, <3>7, <3>8
    <3> QED
      BY <3>4, <3>9 DEF Pointed
  <2> QED
    BY <2>4, <2>7, <2>10, <2>11, <2>12, <2>13 DEF Connections
<1> QED
  BY <1>3, <1>4

\* A Shutdown closes those that wait.
LEMMA ConnectionsShutdown ==
    ASSUME TypeOK, Connections, Served, handle_shutdown
    PROVE  Connections'
<1>1. /\ TakeFrame /\ client' = end_connection(client, "Goodbye") /\ pending' = <<>>
      /\ ended' = "Shutdown"
      /\ status' = [c \in Conns |-> IF c \in Range(pending) THEN "closed" ELSE status[c]]
      /\ UNCHANGED <<todo, sent, received, backlog, peer>>
  BY DEF handle_shutdown, Acting
<1>2. Handling
  BY DEF Handling
<1>3. client # None
  BY <1>2, FrameFound
<1>4. client' # None /\ client'.conn = client.conn
  BY <1>1, <1>2, Ended DEF LastFrames
<1>5. \A c \in Conns :
          /\ (status[c] = "backlog") <=> (c \in Range(backlog))
          /\ (status[c] = "pending") <=> (c \in Range(pending))
          /\ (status[c] = "client") <=> (client # None /\ client.conn = c)
          /\ status[c] = "displaced" =>
                 \E b \in Conns \ {c} : sent[b] # <<>> /\ sent[b][1] = "HelloTakeOver"
  BY DEF Connections, ConnectionsPlaced
<1>6. \A c \in Conns : status'[c] = IF c \in Range(pending) THEN "closed" ELSE status[c]
  BY <1>1
<1>7. Counted' /\ Met'
  <2>1. \A c \in Conns : status'[c] = status[c] \/ (status[c] = "pending" /\ status'[c] = "closed")
    BY <1>5, <1>6
  <2> QED
    BY <1>1, <1>2, <1>4, <2>1, ConnectionsTake
<1>8. Range(<<>>) = {} /\ Len(<<>>) = 0 /\ Injective(<<>>) /\ MAX_PENDING_CONNECTIONS \in Nat
  BY HostConstants DEF Range, Injective
<1>9. ConnectionsPlaced'
  <2>1. \A c \in Conns :
          /\ (status'[c] = "backlog") <=> (c \in Range(backlog))
          /\ (status'[c] = "pending") <=> (c \in Range(pending'))
          /\ (status'[c] = "client") <=> (client # None /\ client.conn = c)
          /\ status'[c] = "displaced" =>
                 \E b \in Conns \ {c} : sent[b] # <<>> /\ sent[b][1] = "HelloTakeOver"
    <3> TAKE c \in Conns
    <3> DEFINE D == \E b \in Conns \ {c} : sent[b] # <<>> /\ sent[b][1] = "HelloTakeOver"
               new == status'[c]
               old == status[c]
               B == c \in Range(backlog)
               P == c \in Range(pending)
               Q == c \in Range(pending')
               C == client # None /\ client.conn = c
    <3>1. /\ (old = "backlog") <=> B
          /\ (old = "pending") <=> P
          /\ (old = "client") <=> C
          /\ old = "displaced" => D
      BY <1>5
    <3>2. new = (IF P THEN "closed" ELSE old) /\ ~ Q
      BY <1>1, <1>6, <1>8
    <3> HIDE DEF D, new, old, B, P, Q, C
    <3>3. /\ (new = "backlog") <=> B
          /\ (new = "pending") <=> Q
          /\ (new = "client") <=> C
          /\ new = "displaced" => D
      BY <3>1, <3>2
    <3> QED
      BY <3>3 DEF D, new, B, Q, C
  <2> QED
    BY <1>1, <1>3, <1>4, <1>8, <2>1 DEF ConnectionsPlaced
<1>10. Injective(pending') /\ Injective(backlog')
  BY <1>1, <1>8 DEF Connections
<1>11. Pointed'
  <2>1. ended' # None
    BY <1>1, NoneIsNothing
  <2>2. \A i \in DOMAIN todo : PointsAt(todo[i], ended', pending', client', peer')
    BY <1>1, <1>3, <1>4, <2>1 DEF Connections, Pointed, PointsAt
  <2> QED
    BY <1>1, <2>2 DEF Pointed
<1> QED
  BY <1>7, <1>9, <1>10, <1>11 DEF Connections

\* A connection is made.
LEMMA ConnectionsConnect ==
    ASSUME TypeOK, Connections, NEW c \in Conns, connect(c)
    PROVE  Connections'
<1>1. /\ status[c] = "none" /\ status' = [status EXCEPT ![c] = "backlog"] /\ backlog' = Append(backlog, c)
      /\ UNCHANGED <<todo, client, pending, ended, sent, received, acted, peer>>
  BY DEF connect, Environment, hostVars
<1>2. backlog \in Seq(Conns) /\ Injective(backlog) /\ c \notin Range(backlog)
  BY <1>1 DEF TypeOK, Connections, ConnectionsPlaced
<1>3. Injective(Append(backlog, c))
  BY <1>2, InjectiveAppend
<1>4. \A y : y \in Range(Append(backlog, c)) <=> y \in Range(backlog) \/ y = c
  BY <1>2, InjectiveAppend
<1>5. \A d \in Conns : status'[d] = IF d = c THEN "backlog" ELSE status[d]
  BY <1>1 DEF TypeOK
<1>6. Counted'
  <2>1. acted[c] = 0
    BY <1>1 DEF Connections, Counted
  <2> QED
    BY <1>1, <1>5, <2>1 DEF Connections, Counted
<1>7. Met'
  BY <1>1 DEF Connections, Met
<1>8. ConnectionsPlaced'
  <2>1. \A d \in Conns :
          /\ (status[d] = "backlog") <=> (d \in Range(backlog))
          /\ (status[d] = "pending") <=> (d \in Range(pending))
          /\ (status[d] = "client") <=> (client # None /\ client.conn = d)
          /\ status[d] = "displaced" =>
                 \E b \in Conns \ {d} : sent[b] # <<>> /\ sent[b][1] = "HelloTakeOver"
    BY DEF Connections, ConnectionsPlaced
  <2>2. \A d \in Conns :
          /\ (status'[d] = "backlog") <=> (d \in Range(backlog'))
          /\ (status'[d] = "pending") <=> (d \in Range(pending))
          /\ (status'[d] = "client") <=> (client # None /\ client.conn = d)
          /\ status'[d] = "displaced" =>
                 \E b \in Conns \ {d} : sent[b] # <<>> /\ sent[b][1] = "HelloTakeOver"
    <3> TAKE d \in Conns
    <3> DEFINE D == \E b \in Conns \ {d} : sent[b] # <<>> /\ sent[b][1] = "HelloTakeOver"
               new == status'[d]
               old == status[d]
               B == d \in Range(backlog)
               B1 == d \in Range(backlog')
               P == d \in Range(pending)
               C == client # None /\ client.conn = d
    <3>1. /\ (old = "backlog") <=> B
          /\ (old = "pending") <=> P
          /\ (old = "client") <=> C
          /\ old = "displaced" => D
      BY <2>1
    <3>2. new = (IF d = c THEN "backlog" ELSE old) /\ (d = c => old = "none")
      BY <1>1, <1>5
    <3>3. B1 <=> (B \/ d = c)
      BY <1>1, <1>4
    <3> HIDE DEF D, new, old, B, B1, P, C
    <3>4. /\ (new = "backlog") <=> B1
          /\ (new = "pending") <=> P
          /\ (new = "client") <=> C
          /\ new = "displaced" => D
      BY <3>1, <3>2, <3>3
    <3> QED
      BY <3>4 DEF D, new, B1, P, C
  <2> QED
    BY <1>1, <2>2 DEF Connections, ConnectionsPlaced
<1>9. Injective(pending') /\ Injective(backlog')
  BY <1>1, <1>3 DEF Connections
<1>10. Pointed'
  BY <1>1 DEF Connections, Pointed
<1> QED
  BY <1>6, <1>7, <1>8, <1>9, <1>10 DEF Connections

\* A peer sends a frame.
LEMMA ConnectionsSend ==
    ASSUME TypeOK, Connections, NEW c \in Conns, NEW frame, peer_sends(c, frame)
    PROVE  Connections'
<1>1. /\ sent' = [sent EXCEPT ![c] = Append(@, frame)]
      /\ frame \in IF sent[c] = <<>> THEN Hellos ELSE Frames
      /\ Len(sent[c]) - received[c] < RECEIVE_LIMIT
      /\ UNCHANGED <<status, backlog, todo, client, pending, ended, received, acted, peer>>
  BY DEF peer_sends, Environment, hostVars, InSocket
<1>2. /\ sent[c] \in Seq(Hellos \cup Frames) /\ received[c] \in Nat /\ Len(sent[c]) \in Nat
      /\ RECEIVE_LIMIT \in Nat
  BY HostConstants DEF TypeOK
<1>3. \A d \in Conns : sent'[d] = IF d = c THEN Append(sent[c], frame) ELSE sent[d]
  BY <1>1 DEF TypeOK
<1> DEFINE n == Len(sent[c])
           u == Append(sent[c], frame)
<1>4. /\ n \in Nat /\ Len(u) = n + 1 /\ u[n + 1] = frame /\ u # <<>>
      /\ \A i \in 1 .. n : u[i] = sent[c][i]
      /\ n = 0 <=> sent[c] = <<>>
  BY <1>1, <1>2
<1>5. /\ received[c] <= n /\ \A i \in 1 .. n : sent[c][i] \in IF i = 1 THEN Hellos ELSE Frames
  BY DEF Connections, Counted
<1>6. received[c] <= n + 1 /\ n + 1 <= received[c] + RECEIVE_LIMIT
  BY <1>1, <1>2, <1>5
<1>7. n - received[c] < RECEIVE_LIMIT
  BY <1>1
<1> HIDE DEF n, u
<1>8. \A i \in 1 .. (n + 1) : u[i] \in IF i = 1 THEN Hellos ELSE Frames
  <2> TAKE i \in 1 .. (n + 1)
  <2>1. CASE i \in 1 .. n
    BY <1>4, <1>5, <2>1
  <2>2. CASE i = n + 1
    BY <1>1, <1>4, <2>2
  <2> QED
    BY <1>4, <2>1, <2>2
<1>9. Counted'
  <2> SUFFICES ASSUME NEW d \in Conns
               PROVE  /\ received[d] <= Len(sent'[d]) /\ Len(sent'[d]) <= received[d] + RECEIVE_LIMIT
                      /\ \A i \in 1 .. Len(sent'[d]) : sent'[d][i] \in IF i = 1 THEN Hellos ELSE Frames
    BY <1>1 DEF Connections, Counted
  <2>1. CASE d = c
    <3>1. sent'[d] = u /\ received[d] = received[c]
      BY <1>3, <2>1 DEF u
    <3> QED
      BY <1>4, <1>6, <1>8, <3>1
  <2>2. CASE d # c
    BY <1>3, <2>2 DEF Connections, Counted
  <2> QED
    BY <2>1, <2>2
<1>10. Met'
  BY <1>1 DEF Connections, Met
<1>11. ConnectionsPlaced'
  <2>1. \A d \in Conns : sent[d] # <<>> => sent'[d] # <<>> /\ sent'[d][1] = sent[d][1]
    <3> TAKE d \in Conns
    <3>1. CASE d = c /\ sent[c] # <<>>
      <4>1. 1 \in 1 .. n
        BY <1>4, <3>1
      <4>2. sent'[d] = u
        BY <1>3, <3>1 DEF u
      <4> QED
        BY <1>4, <3>1, <4>1, <4>2
    <3>2. CASE d # c
      BY <1>3, <3>2
    <3> QED
      BY <3>1, <3>2
  <2>2. \A d \in Conns : status[d] = "displaced" =>
            \E b \in Conns \ {d} : sent'[b] # <<>> /\ sent'[b][1] = "HelloTakeOver"
    BY <2>1 DEF Connections, ConnectionsPlaced
  <2> QED
    BY <1>1, <2>2 DEF Connections, ConnectionsPlaced
<1>12. Injective(pending') /\ Injective(backlog')
  BY <1>1 DEF Connections
<1>13. Pointed'
  BY <1>1 DEF Connections, Pointed
<1> QED
  BY <1>9, <1>10, <1>11, <1>12, <1>13 DEF Connections

\* What poll reported is what the agenda is made of.
LEMMA PointedPoll ==
    ASSUME TypeOK, AgendaOK(todo), Connections, poll \/ poll_interrupted
    PROVE  Pointed'
<1>1. UNCHANGED <<client, pending, ended, peer>> /\ Running("poll")
  BY DEF poll, poll_interrupted, connVars
<1>2. Tail(todo) = <<>>
  BY <1>1, Returned
<1>3. CASE poll
  <2> DEFINE t == Agenda
  <2>1. todo' = t \o Tail(todo)
    BY <1>3 DEF poll, Call
  <2>2. AgendaOK(t)
    BY AgendaIsOK DEF Connections
  <2>3. \A i \in 1 .. Len(t) : t[i] \in Called(Ops)
    BY AgendaIsOK DEF Connections
  <2> HIDE DEF t
  <2>4. t \o <<>> = t /\ DOMAIN t = 1 .. Len(t)
    BY <2>2 DEF AgendaOK
  <2>5. todo' = t
    BY <1>2, <2>1, <2>4
  <2>6. pending \in Seq(Conns)
    BY DEF TypeOK
  <2>7. Range(pending) \subseteq Conns
    BY <2>6 DEF Range
  <2>8. ClientHup /\ client # None => peer[client.conn] # "open"
    BY DEF ClientHup
  <2>9. \A e \in Called(Ops) : PointsAt(e, ended, pending, client, peer)
    BY <2>7, <2>8 DEF Called, PointsAt
  <2> QED
    BY <1>1, <2>3, <2>4, <2>5, <2>9 DEF Pointed
<1>4. CASE poll_interrupted
  <2> DEFINE s == <<Do("reap_child"), Do("finish_drain"), Do("expire_pending")>>
             t == Then(s, LastLook)
  <2>1. todo' = (s \o LastLook) \o Tail(todo)
    BY <1>4 DEF poll_interrupted, Call
  <2>2. AgendaOK(t)
    BY InterruptedAgendaIsOK
  <2>3. \A i \in 1 .. Len(t) : t[i].op \notin {"read_pending", "close_client"}
    BY InterruptedAgendaIsOK
  <2>4. s \o LastLook = t
    BY DEF Then
  <2> HIDE DEF t, s
  <2>5. t \o <<>> = t /\ DOMAIN t = 1 .. Len(t)
    BY <2>2 DEF AgendaOK
  <2>6. todo' = t
    BY <1>2, <2>1, <2>4, <2>5
  <2>7. \A i \in 1 .. Len(t) : PointsAt(t[i], ended', pending', client', peer')
    BY <2>3 DEF PointsAt
  <2> QED
    BY <2>5, <2>6, <2>7 DEF Pointed
<1> QED
  BY <1>3, <1>4

\* Where the connections are, whatever happens.
LEMMA ConnectionsStep ==
    ASSUME TypeOK, AgendaOK(todo), Connections, Closing, Served, [Next]_vars
    PROVE  Connections'
<1> USE DEF Environment, hostVars, connVars, kernelVars
<1>1. CASE step_terminated
  <2>1. UNCHANGED <<todo, client, pending, backlog, status, sent, received, acted, ended, peer>>
    BY <1>1 DEF step_terminated
  <2>2. Pointed'
    BY <2>1 DEF Connections, Pointed
  <2> QED
    BY <2>1, <2>2, ConnectionsSame
<1>2. CASE \E c \in Conns : peer_takes(c)
  <2>1. UNCHANGED <<todo, client, pending, backlog, status, sent, received, acted, ended, peer>>
    BY <1>2 DEF peer_takes
  <2>2. Pointed'
    BY <2>1 DEF Connections, Pointed
  <2> QED
    BY <2>1, <2>2, ConnectionsSame
<1>3. CASE \E who \in {"child", "other"} : program_writes(who)
  <2>1. UNCHANGED <<todo, client, pending, backlog, status, sent, received, acted, ended, peer>>
    BY <1>3 DEF program_writes
  <2>2. Pointed'
    BY <2>1 DEF Connections, Pointed
  <2> QED
    BY <2>1, <2>2, ConnectionsSame
<1>4. CASE program_takes
  <2>1. UNCHANGED <<todo, client, pending, backlog, status, sent, received, acted, ended, peer>>
    BY <1>4 DEF program_takes
  <2>2. Pointed'
    BY <2>1 DEF Connections, Pointed
  <2> QED
    BY <2>1, <2>2, ConnectionsSame
<1>5. CASE child_exits
  <2>1. UNCHANGED <<todo, client, pending, backlog, status, sent, received, acted, ended, peer>>
    BY <1>5 DEF child_exits
  <2>2. Pointed'
    BY <2>1 DEF Connections, Pointed
  <2> QED
    BY <2>1, <2>2, ConnectionsSame
<1>6. CASE sigterm_arrives
  <2>1. UNCHANGED <<todo, client, pending, backlog, status, sent, received, acted, ended, peer>>
    BY <1>6 DEF sigterm_arrives
  <2>2. Pointed'
    BY <2>1 DEF Connections, Pointed
  <2> QED
    BY <2>1, <2>2, ConnectionsSame
<1>7. CASE \E who \in {"child", "other"} : let_go(who)
  <2>1. UNCHANGED <<todo, client, pending, backlog, status, sent, received, acted, ended, peer>>
    BY <1>7 DEF let_go
  <2>2. Pointed'
    BY <2>1 DEF Connections, Pointed
  <2> QED
    BY <2>1, <2>2, ConnectionsSame
<1>8. CASE \E d \in {"flush", "drain", "pause"} \cup Conns : deadline_passes(d)
  <2>1. UNCHANGED <<todo, client, pending, backlog, status, sent, received, acted, ended, peer>>
    BY <1>8 DEF deadline_passes
  <2>2. Pointed'
    BY <2>1 DEF Connections, Pointed
  <2> QED
    BY <2>1, <2>2, ConnectionsSame
<1>9. CASE descriptors_change
  <2>1. UNCHANGED <<todo, client, pending, backlog, status, sent, received, acted, ended, peer>>
    BY <1>9 DEF descriptors_change
  <2>2. Pointed'
    BY <2>1 DEF Connections, Pointed
  <2> QED
    BY <2>1, <2>2, ConnectionsSame
<1>10. CASE UNCHANGED vars
  <2>1. UNCHANGED <<todo, client, pending, backlog, status, sent, received, acted, ended, peer>>
    BY <1>10 DEF vars
  <2>2. Pointed'
    BY <2>1 DEF Connections, Pointed
  <2> QED
    BY <2>1, <2>2, ConnectionsSame
<1>11. CASE drain_signal_pipe
  <2>1. /\ Running("drain_signal_pipe") /\ todo' = Tail(todo)
        /\ UNCHANGED <<client, pending, backlog, status, sent, received, acted, ended, peer>>
    BY <1>11 DEF drain_signal_pipe, Return
  <2>2. Pointed'
    BY <2>1, PointedReturn DEF Connections
  <2> QED
    BY <2>1, <2>2, ConnectionsSame
<1>12. CASE finish_drain
  <2>1. /\ Running("finish_drain") /\ todo' = Tail(todo)
        /\ UNCHANGED <<client, pending, backlog, status, sent, received, acted, ended, peer>>
    BY <1>12 DEF finish_drain, Return
  <2>2. Pointed'
    BY <2>1, PointedReturn DEF Connections
  <2> QED
    BY <2>1, <2>2, ConnectionsSame
<1>13. CASE act_on_buffered
  <2>1. /\ Running("act_on_buffered") /\ todo' = Tail(todo)
        /\ UNCHANGED <<client, pending, backlog, status, sent, received, acted, ended, peer>>
    BY <1>13 DEF act_on_buffered, Return
  <2>2. Pointed'
    BY <2>1, PointedReturn DEF Connections
  <2> QED
    BY <2>1, <2>2, ConnectionsSame
<1>14. CASE reap_child
  <2> DEFINE x == Do("read_pty")
  <2>1. /\ Running("reap_child") /\ (todo' = Cons(x, Tail(todo)) \/ todo' = Tail(todo))
        /\ UNCHANGED <<client, pending, backlog, status, sent, received, acted, ended, peer>>
    BY <1>14 DEF reap_child, Return, Call, Cons
  <2>2. x \in Entry /\ x.op = "read_pty"
    BY EntryType DEF Ops
  <2> HIDE DEF x
  <2>3. Pointed'
    <3>1. CASE todo' = Tail(todo)
      BY <2>1, <3>1, PointedReturn DEF Connections
    <3>2. CASE todo' = Cons(x, Tail(todo))
      BY <2>1, <2>2, <3>2, PointedCall DEF Connections
    <3> QED
      BY <2>1, <3>1, <3>2
  <2> QED
    BY <2>1, <2>3, ConnectionsSame
<1>15. CASE read_pty
  <2>1. /\ Running("read_pty") /\ todo' = Tail(todo)
        /\ UNCHANGED <<pending, backlog, status, sent, received, acted, ended, peer>>
    BY <1>15 DEF read_pty, Return
  <2>2. /\ client = None => client' = None
        /\ client # None => client' # None /\ client'.conn = client.conn
    BY <1>15, InputLeft DEF SameClient
  <2>3. Pointed'
    BY <2>1, <2>2, PointedReturn DEF Connections
  <2> QED
    BY <2>1, <2>2, <2>3, ConnectionsSame
<1>16. CASE write_input
  <2>1. /\ Running("write_input") /\ todo' = Tail(todo)
        /\ UNCHANGED <<pending, backlog, status, sent, received, acted, ended, peer>>
    BY <1>16 DEF write_input, Return
  <2>2. /\ client = None => client' = None
        /\ client # None => client' # None /\ client'.conn = client.conn
    BY <1>16, InputLeft DEF SameClient
  <2>3. Pointed'
    BY <2>1, <2>2, PointedReturn DEF Connections
  <2> QED
    BY <2>1, <2>2, <2>3, ConnectionsSame
<1>17. CASE refill_outgoing
  <2>1. /\ Running("refill_outgoing") /\ (todo' = todo \/ todo' = Tail(todo))
        /\ UNCHANGED <<pending, backlog, status, sent, received, acted, ended, peer>>
    BY <1>17 DEF refill_outgoing, Return
  <2>2. /\ client = None => client' = None
        /\ client # None => client' # None /\ client'.conn = client.conn
    <3>1. CASE CanRefill
      BY <1>17, <3>1, Refilled
    <3>2. CASE ~ CanRefill
      BY <1>17, <3>2 DEF refill_outgoing
    <3> QED
      BY <3>1, <3>2
  <2>3. Pointed'
    BY <2>1, <2>2, PointedReturn DEF Connections
  <2> QED
    BY <2>1, <2>2, <2>3, ConnectionsSame
<1>18. CASE handle_malformed
  <2>1. /\ Handling /\ client' = end_connection(client, "Error")
        /\ UNCHANGED <<todo, pending, backlog, status, sent, received, acted, ended, peer>>
    BY <1>18 DEF handle_malformed, Acting, Handling, refuse_client
  <2>2. client # None /\ client' # None /\ client'.conn = client.conn
    BY <2>1, Ended, FrameFound DEF LastFrames
  <2>3. Pointed'
    BY <2>1, <2>2, FrameFound, PointedReturn DEF Connections
  <2> QED
    BY <2>1, <2>2, <2>3, ConnectionsSame
<1>19. CASE handle_hello
  <2>1. /\ Handling /\ TakeFrame
        /\ UNCHANGED <<todo, pending, backlog, status, sent, received, ended, peer>>
    BY <1>19 DEF handle_hello, Acting, Handling
  <2>2. client # None /\ client' # None /\ client'.conn = client.conn
    <3>1. client' = end_connection(client, "Error")
      BY <1>19 DEF handle_hello, refuse_client
    <3> QED
      BY <2>1, <3>1, Ended, FrameFound DEF LastFrames
  <2>3. Pointed'
    BY <2>1, <2>2, FrameFound, PointedReturn DEF Connections
  <2>4. Counted' /\ Met'
    BY <2>1, <2>2, ConnectionsTake
  <2>5. ConnectionsPlaced'
    BY <2>1, <2>2 DEF Connections, ConnectionsPlaced
  <2>6. Injective(pending') /\ Injective(backlog')
    BY <2>1 DEF Connections
  <2> QED
    BY <2>3, <2>4, <2>5, <2>6 DEF Connections
<1>20. CASE handle_info_snapshot
  <2>1. /\ Handling /\ TakeFrame
        /\ UNCHANGED <<todo, pending, backlog, status, sent, received, ended, peer>>
    BY <1>20 DEF handle_info_snapshot, Acting, Handling
  <2>2. client # None /\ client' # None /\ client'.conn = client.conn
    BY <1>20, <2>1, Answered, FrameFound DEF SameClient
  <2>3. Pointed'
    BY <2>1, <2>2, FrameFound, PointedReturn DEF Connections
  <2>4. Counted' /\ Met'
    BY <2>1, <2>2, ConnectionsTake
  <2>5. ConnectionsPlaced'
    BY <2>1, <2>2 DEF Connections, ConnectionsPlaced
  <2>6. Injective(pending') /\ Injective(backlog')
    BY <2>1 DEF Connections
  <2> QED
    BY <2>3, <2>4, <2>5, <2>6 DEF Connections
<1>21. CASE handle_read
  <2>1. /\ Handling /\ TakeFrame
        /\ UNCHANGED <<todo, pending, backlog, status, sent, received, ended, peer>>
    BY <1>21 DEF handle_read, Acting, Handling
  <2>2. client # None /\ client' # None /\ client'.conn = client.conn
    <3>1. CASE client.reading
      <4>1. client' = end_connection(client, "Error")
        BY <1>21, <3>1 DEF handle_read, refuse_client
      <4> QED
        BY <2>1, <4>1, Ended, FrameFound DEF LastFrames
    <3>2. CASE ~ client.reading
      BY <1>21, <2>1, <3>2, ReadTaken, FrameFound
    <3> QED
      BY <3>1, <3>2
  <2>3. Pointed'
    BY <2>1, <2>2, FrameFound, PointedReturn DEF Connections
  <2>4. Counted' /\ Met'
    BY <2>1, <2>2, ConnectionsTake
  <2>5. ConnectionsPlaced'
    BY <2>1, <2>2 DEF Connections, ConnectionsPlaced
  <2>6. Injective(pending') /\ Injective(backlog')
    BY <2>1 DEF Connections
  <2> QED
    BY <2>3, <2>4, <2>5, <2>6 DEF Connections
<1>22. CASE handle_input
  <2>1. /\ Handling /\ TakeFrame
        /\ UNCHANGED <<todo, pending, backlog, status, sent, received, ended, peer>>
    BY <1>22 DEF handle_input, Acting, Handling
  <2>2. client # None /\ client' # None /\ client'.conn = client.conn
    BY <1>22, <2>1, InputTaken, FrameFound DEF SameClient
  <2>3. Pointed'
    BY <2>1, <2>2, FrameFound, PointedReturn DEF Connections
  <2>4. Counted' /\ Met'
    BY <2>1, <2>2, ConnectionsTake
  <2>5. ConnectionsPlaced'
    BY <2>1, <2>2 DEF Connections, ConnectionsPlaced
  <2>6. Injective(pending') /\ Injective(backlog')
    BY <2>1 DEF Connections
  <2> QED
    BY <2>3, <2>4, <2>5, <2>6 DEF Connections
<1>23. CASE handle_resize
  <2>1. /\ Handling /\ TakeFrame
        /\ UNCHANGED <<todo, pending, backlog, status, sent, received, ended, peer>>
    BY <1>23 DEF handle_resize, Acting, Handling
  <2>2. client # None /\ client' # None /\ client'.conn = client.conn
    <3>1. client' = client
      BY <1>23 DEF handle_resize
    <3> QED
      BY <2>1, <3>1, FrameFound
  <2>3. Pointed'
    BY <2>1, <2>2, FrameFound, PointedReturn DEF Connections
  <2>4. Counted' /\ Met'
    BY <2>1, <2>2, ConnectionsTake
  <2>5. ConnectionsPlaced'
    BY <2>1, <2>2 DEF Connections, ConnectionsPlaced
  <2>6. Injective(pending') /\ Injective(backlog')
    BY <2>1 DEF Connections
  <2> QED
    BY <2>3, <2>4, <2>5, <2>6 DEF Connections
<1>24. CASE handle_shutdown
  BY <1>24, ConnectionsShutdown
<1>25. CASE step_ended
  <2>1. todo' = todo /\ UNCHANGED <<pending, backlog, sent, received, acted, ended, peer>>
    BY <1>25 DEF step_ended
  <2>2. CASE FlushOver
    <3>1. client # None /\ client' = None /\ status' = [status EXCEPT ![client.conn] = "late"]
      BY <1>25, <2>2 DEF step_ended, drop_client, FlushOver
    <3>2. Pointed'
      BY <2>1, <3>1 DEF Connections, Pointed, PointsAt
    <3> QED
      BY <2>1, <3>1, <3>2, ConnectionsDrop
  <2>3. CASE ~ FlushOver
    <3>1. UNCHANGED <<client, status>>
      BY <1>25, <2>3 DEF step_ended
    <3>2. Pointed'
      BY <2>1, <3>1 DEF Connections, Pointed
    <3> QED
      BY <2>1, <3>1, <3>2, ConnectionsSame
  <2> QED
    BY <2>2, <2>3
<1>26. CASE step_begin
  <2> DEFINE a == Do("refill_outgoing")
             b == Do("poll")
  <2>1. todo' = <<a, b>> /\ UNCHANGED <<pending, backlog, sent, received, acted, ended, peer>>
    BY <1>26 DEF step_begin
  <2>2. Pointed'
    <3>1. a \in Entry /\ b \in Entry /\ a.op = "refill_outgoing" /\ b.op = "poll"
      BY EntryType DEF Ops
    <3>2. \A e \in {a, b} : PointsAt(e, ended', pending', client', peer')
      BY <3>1 DEF PointsAt
    <3> HIDE DEF a, b
    <3>3. \A i \in DOMAIN <<a, b>> : <<a, b>>[i] \in {a, b}
      OBVIOUS
    <3> QED
      BY <2>1, <3>2, <3>3 DEF Pointed
  <2>3. CASE FlushOver
    <3>1. client # None /\ client' = None /\ status' = [status EXCEPT ![client.conn] = "late"]
      BY <1>26, <2>3 DEF step_begin, FlushOver
    <3> QED
      BY <2>1, <2>2, <3>1, ConnectionsDrop
  <2>4. CASE ~ FlushOver
    <3>1. UNCHANGED <<client, status>>
      BY <1>26, <2>4 DEF step_begin
    <3> QED
      BY <2>1, <2>2, <3>1, ConnectionsSame
  <2> QED
    BY <2>3, <2>4
<1>27. CASE poll \/ poll_interrupted
  <2>1. UNCHANGED <<client, pending, backlog, status, sent, received, acted, ended, peer>>
    BY <1>27 DEF poll, poll_interrupted
  <2>2. Pointed'
    BY <1>27, PointedPoll
  <2> QED
    BY <2>1, <2>2, ConnectionsSame
<1>28. CASE write_client
  <2> DEFINE x == Do("close_client")
  <2>1. /\ Running("write_client")
        /\ UNCHANGED <<pending, backlog, sent, received, acted, ended, peer>>
    BY <1>28 DEF write_client
  <2>2. x \in Entry /\ x.op = "close_client"
    BY EntryType DEF Ops
  <2>3. CASE client = None
    <3>1. todo' = Tail(todo) /\ UNCHANGED <<client, status>>
      BY <1>28, <2>3 DEF write_client, Return
    <3>2. Pointed'
      BY <2>1, <3>1, PointedReturn DEF Connections
    <3> QED
      BY <2>1, <3>1, <3>2, ConnectionsSame
  <2>4. CASE client # None /\ client.outgoing = <<>> /\ client.closing
    <3>1. todo' = Tail(todo) /\ client' = None /\ status' = [status EXCEPT ![client.conn] = "flushed"]
      BY <1>28, <2>4 DEF write_client, Return, drop_client
    <3>2. Pointed'
      BY <2>1, <3>1, PointedReturn DEF Connections
    <3> QED
      BY <2>1, <2>4, <3>1, <3>2, ConnectionsDrop
  <2>5. CASE client # None /\ client.outgoing = <<>> /\ ~ client.closing
    <3>1. todo' = Tail(todo) /\ UNCHANGED <<client, status>>
      BY <1>28, <2>5 DEF write_client, Return
    <3>2. Pointed'
      BY <2>1, <3>1, PointedReturn DEF Connections
    <3> QED
      BY <2>1, <3>1, <3>2, ConnectionsSame
  <2>6. CASE client # None /\ client.outgoing # <<>> /\ peer[client.conn] = "closed"
    <3>1. todo' = Cons(x, Tail(todo)) /\ UNCHANGED <<client, status>>
      BY <1>28, <2>6 DEF write_client, Call, Cons
    <3> HIDE DEF x
    <3>2. client' # None => peer[client'.conn] # "open"
      BY <2>6, <3>1
    <3>3. Pointed'
      BY <2>1, <2>2, <3>1, <3>2, PointedCall DEF Connections
    <3> QED
      BY <2>1, <3>1, <3>3, ConnectionsSame
  <2>7. CASE client # None /\ client.outgoing # <<>> /\ peer[client.conn] # "closed"
    <3>1. client' # None /\ client'.conn = client.conn /\ (todo' = todo \/ todo' = Tail(todo))
          /\ UNCHANGED status
      BY <1>28, <2>7, FrontWritten
    <3>2. Pointed'
      BY <2>1, <2>7, <3>1, PointedReturn DEF Connections
    <3> QED
      BY <2>1, <2>7, <3>1, <3>2, ConnectionsSame
  <2> QED
    BY <2>3, <2>4, <2>5, <2>6, <2>7
<1>29. CASE read_client
  <2>1. /\ Running("read_client")
        /\ UNCHANGED <<client, pending, backlog, status, sent, acted, ended, peer>>
    BY <1>29 DEF read_client
  <2>2. CASE client = None
    <3>1. todo' = Tail(todo) /\ UNCHANGED received
      BY <1>29, <2>2 DEF read_client, Return
    <3>2. Pointed'
      BY <2>1, <3>1, PointedReturn DEF Connections
    <3> QED
      BY <2>1, <3>1, <3>2, ConnectionsSame
  <2>3. CASE client # None
    <3> DEFINE x == IF Outcome(client.conn, RECEIVE_LIMIT) = "Ended" THEN Do("close_client")
                                                                    ELSE Do("act_on_buffered")
               d == client.conn
    <3>1. /\ received' = [received EXCEPT ![d] = Received(d, RECEIVE_LIMIT)]
          /\ todo' = Cons(x, Tail(todo))
      BY <1>29, <2>3 DEF read_client, Call, Cons
    <3>2. x \in Entry /\ x.op \in {"close_client", "act_on_buffered"}
      BY EntryType DEF Ops
    <3>3. x.op = "close_client" => peer[d] # "open"
      <4>1. Outcome(d, RECEIVE_LIMIT) = "Ended" => peer[d] # "open"
        BY DEF Outcome
      <4>2. Do("act_on_buffered").op = "act_on_buffered"
        BY DEF Do
      <4> QED
        BY <4>1, <4>2
    <3>4. d \in Conns /\ RECEIVE_LIMIT \in Nat
      BY <2>3, ClientType, HostConstants DEF TypeOK
    <3> HIDE DEF x
    <3>5. Pointed'
      BY <2>1, <3>1, <3>2, <3>3, PointedCall DEF Connections
    <3> HIDE DEF d
    <3> QED
      BY <2>1, <3>1, <3>4, <3>5, ConnectionsRead
  <2> QED
    BY <2>2, <2>3
<1>30. CASE close_receive
  <2>1. /\ Running("close_receive") /\ todo' = Tail(todo)
        /\ UNCHANGED <<client, pending, backlog, status, sent, acted, ended, peer>>
    BY <1>30 DEF close_receive, Return
  <2>2. Pointed'
    BY <2>1, PointedReturn DEF Connections
  <2>3. client # None
    <3>1. todo[1].op = "close_receive" /\ todo # <<>> /\ todo \in Seq(Entry)
      BY <2>1, ReturnedBusy DEF AgendaOK
    <3>2. 1 \in DOMAIN todo
      BY <3>1
    <3>3. "close_drop" \in OpsOf(todo)
      BY <3>1, <3>2 DEF AgendaOK
    <3> QED
      BY <3>3 DEF Closing
  <2>4. CASE client.closing
    <3>1. UNCHANGED received
      BY <1>30, <2>4 DEF close_receive
    <3> QED
      BY <2>1, <2>2, <3>1, ConnectionsSame
  <2>5. CASE ~ client.closing
    <3> DEFINE d == client.conn
               limit == Buffered(d) + RECEIVE_LIMIT
    <3>1. received' = [received EXCEPT ![d] = Received(d, limit)]
      BY <1>30, <2>5 DEF close_receive
    <3>2. d \in Conns /\ RECEIVE_LIMIT \in Nat
      BY <2>3, ClientType, HostConstants DEF TypeOK
    <3> HIDE DEF d
    <3>3. limit \in Nat
      <4>1. received[d] - acted[d] \in Nat
        BY <3>2, ReceivedIs
      <4> QED
        BY <3>2, <4>1 DEF Buffered
    <3> HIDE DEF limit
    <3> QED
      BY <2>1, <2>2, <3>1, <3>2, <3>3, ConnectionsRead
  <2> QED
    BY <2>4, <2>5
<1>31. CASE close_client
  <2>1. /\ Running("close_client")
        /\ UNCHANGED <<pending, backlog, status, sent, received, acted, ended, peer>>
    BY <1>31 DEF close_client
  <2>2. CASE client = None
    <3>1. todo' = Tail(todo) /\ client' = client
      BY <1>31, <2>2 DEF close_client, Return
    <3>2. Pointed'
      BY <2>1, <3>1, PointedReturn DEF Connections
    <3> QED
      BY <2>1, <3>1, <3>2, ConnectionsSame
  <2>3. CASE client # None
    <3>1. todo' = Then(<<Do("act_on_buffered"), Do("close_receive"), Do("act_on_buffered"),
                         Do("close_drop")>>, Tail(todo))
      BY <1>31, <2>3 DEF close_client, Call, Then
    <3>2. client' # None /\ client'.conn = client.conn
      BY <1>31, <2>3, ClosedClient
    <3>3. Pointed'
      BY <2>1, <2>3, <3>1, <3>2, PointedClose DEF Connections
    <3> QED
      BY <2>1, <2>3, <3>2, <3>3, ConnectionsSame
  <2> QED
    BY <2>2, <2>3
<1>32. CASE close_drop
  <2>1. /\ Running("close_drop") /\ todo' = Tail(todo) /\ client' = None
        /\ UNCHANGED <<pending, backlog, sent, received, acted, ended, peer>>
    BY <1>32 DEF close_drop, Return, drop_client
  <2>2. Pointed'
    BY <2>1, PointedReturn DEF Connections
  <2>3. client # None
    <3>1. "close_drop" \in OpsOf(todo)
      BY <2>1, ReturnedOps
    <3> QED
      BY <3>1 DEF Closing
  <2>4. status' = [status EXCEPT ![client.conn] = "gone"]
    BY <1>32, <2>3 DEF close_drop, drop_client
  <2> QED
    BY <2>1, <2>2, <2>3, <2>4, ConnectionsDrop
<1>33. CASE read_pending
  <2> DEFINE c == Head(todo).conn
             got == Received(c, MAX_BEFORE_HELLO)
             outcome == Outcome(c, MAX_BEFORE_HELLO)
             first == sent[c][1]
  <2>1. Running("read_pending") /\ UNCHANGED <<ended, backlog, sent, peer>>
    BY <1>33 DEF read_pending
  <2>2. CASE ended # None
    <3>1. todo' = Tail(todo) /\ UNCHANGED <<client, pending, status, received, acted>>
      BY <1>33, <2>2 DEF read_pending, Return
    <3>2. Pointed'
      BY <2>1, <3>1, PointedReturn DEF Connections
    <3> QED
      BY <2>1, <3>1, <3>2, ConnectionsSame
  <2>3. CASE ended = None /\ got = 0 /\ outcome # "Ended"
    <3>1. received' = [received EXCEPT ![c] = got] /\ todo' = Tail(todo)
          /\ UNCHANGED <<client, pending, status, acted>>
      BY <1>33, <2>3 DEF read_pending, Return
    <3>2. Pointed'
      BY <2>1, <3>1, PointedReturn DEF Connections
    <3>3. MAX_BEFORE_HELLO \in Nat
      BY HostConstants
    <3>4. c \in Conns
      BY <1>33, <2>3, WaitingIs
    <3> HIDE DEF c
    <3> QED
      BY <2>1, <3>1, <3>2, <3>3, <3>4, ConnectionsRead
  <2>4. CASE ended = None /\ got = 0 /\ outcome = "Ended"
    <3>1. /\ pending' = Keep(pending, Conns \ {c}) /\ status' = [status EXCEPT ![c] = "rejected"]
          /\ received' = [received EXCEPT ![c] = got] /\ todo' = Tail(todo)
          /\ UNCHANGED <<client, acted>>
      BY <1>33, <2>4 DEF read_pending, Waiting, Return
    <3> QED
      BY <1>33, <2>1, <2>4, <3>1, RejectedPending
  <2>7. CASE ended = None /\ got # 0 /\ first \in {"NotHello", "HelloZero"}
    <3>1. /\ pending' = Keep(pending, Conns \ {c}) /\ status' = [status EXCEPT ![c] = "rejected"]
          /\ received' = [received EXCEPT ![c] = got] /\ todo' = Tail(todo)
          /\ UNCHANGED <<client, acted>>
      BY <1>33, <2>7 DEF read_pending, Waiting, Return
    <3> QED
      BY <1>33, <2>1, <2>7, <3>1, RejectedPending
  <2>5. CASE ended = None /\ got # 0 /\ first \notin {"NotHello", "HelloZero"}
             /\ client # None /\ first # "HelloTakeOver"
    <3>1. /\ pending' = Keep(pending, Conns \ {c}) /\ status' = [status EXCEPT ![c] = "busy"]
          /\ received' = [received EXCEPT ![c] = got] /\ todo' = Tail(todo)
          /\ UNCHANGED <<client, acted>>
      BY <1>33, <2>5 DEF read_pending, Waiting, Return
    <3> QED
      BY <1>33, <2>1, <2>5, <3>1, RejectedPending
  <2>6. CASE ended = None /\ got # 0 /\ first \notin {"NotHello", "HelloZero"}
             /\ (client # None => first = "HelloTakeOver")
    <3> DEFINE x == IF outcome = "Ended" THEN Do("close_client") ELSE Do("act_on_buffered")
    <3>1. /\ pending' = Keep(pending, Conns \ {c}) /\ client' = NewClient(c)
          /\ status' = [d \in Conns |-> IF d = c THEN "client"
                                        ELSE IF status[d] = "client" THEN "displaced"
                                        ELSE status[d]]
          /\ received' = [received EXCEPT ![c] = got] /\ acted' = [acted EXCEPT ![c] = 1]
      BY <1>33, <2>6 DEF read_pending, Waiting
    <3>2. todo' = Cons(x, Tail(todo))
      BY <1>33, <2>6 DEF read_pending, Call, Cons
    <3>3. x \in Entry /\ x.op \in {"close_client", "act_on_buffered"}
      BY EntryType DEF Ops
    <3>4. x.op = "close_client" => peer[c] # "open"
      <4>1. outcome = "Ended" => peer[c] # "open"
        BY DEF Outcome
      <4>2. Do("act_on_buffered").op = "act_on_buffered"
        BY DEF Do
      <4> QED
        BY <4>1, <4>2
    <3>5. client' # None /\ client'.conn = c
      <4>1. c \in Conns
        BY <1>33, <2>6, WaitingIs
      <4>2. ClientOK(NewClient(c)) /\ NewClient(c).conn = c
        BY <4>1, ClientIsNew
      <4> QED
        BY <3>1, <4>2, ClientIsSome
    <3> HIDE DEF x
    <3> QED
      BY <1>33, <2>1, <2>6, <3>1, <3>2, <3>3, <3>4, <3>5, AdmittedPending
  <2> HIDE DEF c, got, outcome, first
  <2> QED
    BY <2>2, <2>3, <2>4, <2>5, <2>6, <2>7
<1>34. CASE expire_pending
  BY <1>34, ConnectionsExpire
<1>35. CASE accept
  BY <1>35, ConnectionsAccept
<1>36. CASE \E c \in Conns : connect(c)
  BY <1>36, ConnectionsConnect
<1>37. CASE \E c \in Conns : \E frame \in Hellos \cup Frames : peer_sends(c, frame)
  BY <1>37, ConnectionsSend
<1>38. CASE \E c \in Conns : \E how \in {"half", "closed"} : peer_closes(c, how)
  <2>1. PICK c \in Conns : \E how \in {"half", "closed"} : peer_closes(c, how)
    BY <1>38
  <2>2. PICK how \in {"half", "closed"} : peer' = [peer EXCEPT ![c] = how]
    BY <2>1 DEF peer_closes
  <2>3. UNCHANGED <<todo, client, pending, backlog, status, sent, received, acted, ended>>
    BY <2>1 DEF peer_closes
  <2>4. \A d \in Conns : peer[d] # "open" => peer'[d] # "open"
    BY <2>2 DEF TypeOK
  <2>5. client # None => client.conn \in Conns
    BY ClientType DEF TypeOK
  <2>6. Pointed'
    <3>1. \A i \in DOMAIN todo : PointsAt(todo[i], ended, pending, client, peer')
      BY <2>4, <2>5 DEF Connections, Pointed, PointsAt
    <3> QED
      BY <2>3, <3>1 DEF Pointed
  <2> QED
    BY <2>3, <2>6, ConnectionsSame
<1> QED
  BY <1>1, <1>2, <1>3, <1>4, <1>5, <1>6, <1>7, <1>8, <1>9, <1>10, <1>11, <1>12, <1>13, <1>14, <1>15, <1>16, <1>17, <1>18, <1>19, <1>20, <1>21, <1>22, <1>23, <1>24, <1>25, <1>26, <1>27, <1>28, <1>29, <1>30, <1>31, <1>32, <1>33, <1>34, <1>35, <1>36, <1>37, <1>38 DEF Next, HostStep, EnvironmentStep

-----------------------------------------------------------------------------
(* How far a close has come.                                               *)

\* What Refused, CloseActsOnEverything and the end of the host say of one
\* connection: s is what it sent, n how much of it was acted on.
RefusedAt(s, n) ==
    \/ n < Len(s) /\ s[n + 1] = "Malformed"
    \/ \E j \in 2 .. n : s[j] \in {"Hello", "Malformed", "Shutdown"}
    \/ \E j, k \in 2 .. n : j # k /\ s[j] = "Read" /\ s[k] = "Read"

HasRead(s, n) == \E j \in 2 .. n : s[j] = "Read"

ShutdownEnds(s, n, over) == \A j \in 2 .. n : s[j] = "Shutdown" => over = "Shutdown"

Complete(s, n, over) ==
    \A i \in 2 .. Len(s) :
        /\ \A j \in 2 .. (i - 1) : s[j] \notin {"Hello", "Malformed", "Shutdown"}
        /\ Cardinality({j \in 2 .. (i - 1) : s[j] = "Read"}) <= 1
        => /\ s[i] # "Malformed" => n >= i
           /\ s[i] = "Shutdown" => over = "Shutdown"

\* Closing, said with them.
LEMMA ClosingIs ==
    Closing <=>
        /\ (client # None /\ client.gone) <=> "close_drop" \in OpsOf(todo)
        /\ client # None =>
               /\ client.closing => RefusedAt(sent[client.conn], acted[client.conn])
               /\ client.reading => HasRead(sent[client.conn], acted[client.conn])
               /\ client.gone => peer[client.conn] # "open"
               /\ client.gone /\ "close_receive" \notin OpsOf(todo) =>
                      client.closing \/ received[client.conn] = Len(sent[client.conn])
               /\ Running("close_drop") =>
                      client.closing \/ acted[client.conn] = Len(sent[client.conn])
        /\ \A c \in Conns : ShutdownEnds(sent[c], acted[c], ended)
        /\ \A c \in Conns : status[c] = "gone" => Complete(sent[c], acted[c], ended)
BY DEF Closing, Refused, RefusedAt, HasRead, ShutdownEnds, Complete, CloseActsOnEverything, Effective

LEMMA TwoOfThem ==
    ASSUME NEW n \in Nat, NEW S \in SUBSET (2 .. n), NEW j \in S, NEW k \in S, j # k
    PROVE  ~ (Cardinality(S) <= 1)
<1>1. IsFiniteSet(2 .. n)
  BY FS_Interval
<1>2. IsFiniteSet(S)
  BY <1>1, FS_Subset
<1>3. IsFiniteSet({j, k}) /\ Cardinality({j, k}) = 2
  <2>1. IsFiniteSet({j}) /\ Cardinality({j}) = 1
    BY FS_Singleton
  <2>2. k \notin {j} /\ {j} \cup {k} = {j, k}
    OBVIOUS
  <2>3. /\ IsFiniteSet({j} \cup {k})
        /\ Cardinality({j} \cup {k}) = IF k \in {j} THEN Cardinality({j}) ELSE Cardinality({j}) + 1
    BY <2>1, FS_AddElement
  <2>4. Cardinality({j} \cup {k}) = 2
    BY <2>1, <2>2, <2>3
  <2> QED
    BY <2>2, <2>3, <2>4
<1>4. Cardinality({j, k}) <= Cardinality(S)
  <2>1. {j, k} \subseteq S
    OBVIOUS
  <2> QED
    BY <1>2, <2>1, FS_Subset
<1>5. Cardinality(S) \in Nat
  BY <1>2, FS_CardinalityType
<1> QED
  BY <1>3, <1>4, <1>5

\* A connection that sent something after which it takes nothing more, or all
\* of whose frames were acted on, is complete.
LEMMA RefusedIsComplete ==
    ASSUME NEW X, NEW s \in Seq(X), NEW n \in Nat, n >= 1, n <= Len(s), NEW over,
           ShutdownEnds(s, n, over), RefusedAt(s, n) \/ n = Len(s)
    PROVE  Complete(s, n, over)
<1>1. Len(s) \in Nat
  OBVIOUS
<1> SUFFICES ASSUME NEW i \in 2 .. Len(s),
                    \A j \in 2 .. (i - 1) : s[j] \notin {"Hello", "Malformed", "Shutdown"},
                    Cardinality({j \in 2 .. (i - 1) : s[j] = "Read"}) <= 1
             PROVE  /\ s[i] # "Malformed" => n >= i
                    /\ s[i] = "Shutdown" => over = "Shutdown"
  BY DEF Complete
<1>2. CASE i <= n
  <2>1. i \in 2 .. n
    BY <1>1, <1>2
  <2> QED
    BY <1>1, <1>2, <2>1 DEF ShutdownEnds
<1>3. CASE ~ (i <= n)
  <2>1. RefusedAt(s, n) /\ i > n
    BY <1>1, <1>3
  <2>2. CASE n < Len(s) /\ s[n + 1] = "Malformed"
    <3>1. CASE i = n + 1
      BY <2>2, <3>1
    <3>2. CASE i # n + 1
      <4>1. n + 1 \in 2 .. (i - 1)
        BY <1>1, <2>1, <3>2
      <4> QED
        BY <2>2, <4>1
    <3> QED
      BY <3>1, <3>2
  <2>3. CASE \E j \in 2 .. n : s[j] \in {"Hello", "Malformed", "Shutdown"}
    <3>1. PICK j \in 2 .. n : s[j] \in {"Hello", "Malformed", "Shutdown"}
      BY <2>3
    <3>2. j \in 2 .. (i - 1)
      BY <1>1, <2>1
    <3> QED
      BY <3>1, <3>2
  <2>4. CASE \E j, k \in 2 .. n : j # k /\ s[j] = "Read" /\ s[k] = "Read"
    <3>1. PICK j \in 2 .. n, k \in 2 .. n : j # k /\ s[j] = "Read" /\ s[k] = "Read"
      BY <2>4
    <3> DEFINE m == i - 1
               S == {l \in 2 .. (i - 1) : s[l] = "Read"}
    <3>2. m \in Nat /\ S \in SUBSET (2 .. m)
      BY <1>1
    <3>3. j \in S /\ k \in S
      BY <1>1, <2>1, <3>1
    <3>4. Cardinality(S) <= 1
      OBVIOUS
    <3> HIDE DEF m, S
    <3> QED
      BY <3>1, <3>2, <3>3, <3>4, TwoOfThem
  <2> QED
    BY <2>1, <2>2, <2>3, <2>4 DEF RefusedAt
<1> QED
  BY <1>2, <1>3

\* What a peer sends later does not change what was refused.
LEMMA RefusedGrows ==
    ASSUME NEW X, NEW s \in Seq(X), NEW x \in X, NEW n \in Nat, n <= Len(s), NEW over
    PROVE  /\ RefusedAt(s, n) => RefusedAt(Append(s, x), n)
           /\ HasRead(s, n) => HasRead(Append(s, x), n)
           /\ ShutdownEnds(s, n, over) => ShutdownEnds(Append(s, x), n, over)
<1> DEFINE t == Append(s, x)
           l == Len(s)
<1>1. l \in Nat /\ Len(t) = l + 1 /\ \A i \in 1 .. l : t[i] = s[i]
  OBVIOUS
<1> HIDE DEF t
<1>2. \A j \in 2 .. n : t[j] = s[j]
  BY <1>1
<1>3. n < l => n < Len(t) /\ t[n + 1] = s[n + 1]
  BY <1>1
<1>4. RefusedAt(s, n) => RefusedAt(t, n)
  BY <1>2, <1>3 DEF RefusedAt
<1>5. HasRead(s, n) => HasRead(t, n)
  BY <1>2 DEF HasRead
<1>6. ShutdownEnds(s, n, over) => ShutdownEnds(t, n, over)
  BY <1>2 DEF ShutdownEnds
<1> QED
  BY <1>4, <1>5, <1>6 DEF t

\* The next frame is taken.
LEMMA RefusedTakes ==
    ASSUME NEW s, NEW n \in Nat, n >= 1, NEW over
    PROVE  /\ HasRead(s, n) => HasRead(s, n + 1)
           /\ s[n + 1] = "Read" => HasRead(s, n + 1)
           /\ HasRead(s, n) /\ s[n + 1] = "Read" => RefusedAt(s, n + 1)
           /\ s[n + 1] \in {"Hello", "Malformed", "Shutdown"} => RefusedAt(s, n + 1)
           /\ ShutdownEnds(s, n, over) /\ s[n + 1] # "Shutdown" => ShutdownEnds(s, n + 1, over)
           /\ ShutdownEnds(s, n, "Shutdown")
<1>1. n + 1 \in 2 .. (n + 1)
  OBVIOUS
<1>2. \A j \in 2 .. n : j \in 2 .. (n + 1) /\ j # n + 1
  OBVIOUS
<1>3. \A j \in 2 .. (n + 1) : j \in 2 .. n \/ j = n + 1
  OBVIOUS
<1>4. HasRead(s, n) => HasRead(s, n + 1)
  BY <1>2 DEF HasRead
<1>5. s[n + 1] = "Read" => HasRead(s, n + 1)
  BY <1>1 DEF HasRead
<1>6. HasRead(s, n) /\ s[n + 1] = "Read" => RefusedAt(s, n + 1)
  BY <1>1, <1>2 DEF HasRead, RefusedAt
<1>7. s[n + 1] \in {"Hello", "Malformed", "Shutdown"} => RefusedAt(s, n + 1)
  BY <1>1 DEF RefusedAt
<1>8. ShutdownEnds(s, n, over) /\ s[n + 1] # "Shutdown" => ShutdownEnds(s, n + 1, over)
  BY <1>3 DEF ShutdownEnds
<1>9. ShutdownEnds(s, n, "Shutdown")
  BY DEF ShutdownEnds
<1> QED
  BY <1>4, <1>5, <1>6, <1>7, <1>8, <1>9

LEMMA NotRunning ==
    ASSUME NEW t \in Seq(Entry), NEW op, op \notin OpsOf(t)
    PROVE  ~ (t # <<>> /\ Head(t).op = op)
<1> SUFFICES ASSUME t # <<>> PROVE Head(t).op \in OpsOf(t)
  OBVIOUS
<1>1. 1 \in 1 .. Len(t) /\ Head(t) = t[1]
  OBVIOUS
<1> QED
  BY <1>1, OpsOfAt

\* Nothing is being closed.
LEMMA ClosingCalm ==
    ASSUME AgendaOK(todo'), Closing, UNCHANGED <<sent, acted, ended>>, "close_drop" \notin OpsOf(todo'),
           client' # None =>
               /\ client # None /\ ~ client'.gone
               /\ client'.conn = client.conn /\ client'.closing = client.closing
               /\ client'.reading = client.reading,
           \A c \in Conns : status'[c] = "gone" => status[c] = "gone"
    PROVE  Closing'
<1>1. /\ client # None =>
               /\ client.closing => RefusedAt(sent[client.conn], acted[client.conn])
               /\ client.reading => HasRead(sent[client.conn], acted[client.conn])
      /\ \A c \in Conns : ShutdownEnds(sent[c], acted[c], ended)
      /\ \A c \in Conns : status[c] = "gone" => Complete(sent[c], acted[c], ended)
  BY ClosingIs
<1> DEFINE r == todo'
<1>2. r \in Seq(Entry) /\ "close_drop" \notin OpsOf(r)
  BY DEF AgendaOK
<1> HIDE DEF r
<1>3. ~ (r # <<>> /\ Head(r).op = "close_drop")
  BY <1>2, NotRunning
<1>4. ~ Running("close_drop")'
  BY <1>3 DEF Running, r
<1>5. client' # None =>
               /\ client'.closing => RefusedAt(sent'[client'.conn], acted'[client'.conn])
               /\ client'.reading => HasRead(sent'[client'.conn], acted'[client'.conn])
  BY <1>1
<1>6. /\ \A c \in Conns : ShutdownEnds(sent'[c], acted'[c], ended')
      /\ \A c \in Conns : status'[c] = "gone" => Complete(sent'[c], acted'[c], ended')
  BY <1>1
<1> QED
  BY <1>4, <1>5, <1>6 DEF Closing, Refused, RefusedAt, HasRead, ShutdownEnds, Complete,
                          CloseActsOnEverything, Effective

LEMMA ClosingSame ==
    ASSUME Closing, UNCHANGED <<todo, client, sent, acted, received, ended>>,
           client # None /\ peer[client.conn] # "open" => peer'[client.conn] # "open",
           \A c \in Conns : status'[c] = "gone" => status[c] = "gone"
    PROVE  Closing'
<1>1. CloseActsOnEverything'
  BY DEF Closing, CloseActsOnEverything, Effective
<1> QED
  BY <1>1 DEF Closing, Refused, Running

\* No close has begun.
LEMMA NoClose ==
    ASSUME AgendaOK(todo), Closing,
           todo = <<>> \/ \E op : Running(op) /\ op \notin {"act_on_buffered", "close_receive", "close_drop"}
    PROVE  /\ "close_drop" \notin OpsOf(todo) /\ (client # None => ~ client.gone)
           /\ todo # <<>> => "close_drop" \notin OpsOf(Tail(todo))
<1>1. "close_drop" \notin OpsOf(todo)
  <2>1. CASE client # None
    BY <2>1, NotGone
  <2>2. CASE client = None
    BY <2>2 DEF Closing
  <2> QED
    BY <2>1, <2>2
<1>2. client # None => ~ client.gone
  BY <1>1 DEF Closing
<1>3. todo # <<>> => "close_drop" \notin OpsOf(Tail(todo))
  <2>1. SUFFICES ASSUME todo # <<>> PROVE "close_drop" \notin OpsOf(Tail(todo))
    OBVIOUS
  <2>2. PICK op : Running(op)
    BY <2>1
  <2>3. \A x : x \in OpsOf(todo) <=> (x = op \/ x \in OpsOf(Tail(todo)))
    BY <2>2, ReturnedOps
  <2> QED
    BY <1>1, <2>3
<1> QED
  BY <1>1, <1>2, <1>3

LEMMA NoCloseServing ==
    ASSUME AgendaOK(todo), Closing, NEW op, Running(op),
           op \notin {"act_on_buffered", "close_receive", "close_drop"},
           \/ todo' = todo
           \/ todo' = Tail(todo)
           \/ \E x \in Entry :
                  /\ \/ op = "reap_child" /\ x.op = "read_pty"
                     \/ op \in {"write_client", "read_client", "read_pending"}
                        /\ x.op \in {"close_client", "act_on_buffered"}
                     \/ op = "accept" /\ x.op = "accept"
                  /\ todo' = Cons(x, Tail(todo))
    PROVE  "close_drop" \notin OpsOf(todo') /\ (client # None => ~ client.gone)
<1>1. /\ "close_drop" \notin OpsOf(todo) /\ (client # None => ~ client.gone)
      /\ "close_drop" \notin OpsOf(Tail(todo))
  <2>1. todo # <<>>
    BY DEF Running
  <2> QED
    BY <2>1, NoClose
<1>2. ASSUME NEW x \in Entry,
             \/ op = "reap_child" /\ x.op = "read_pty"
             \/ op \in {"write_client", "read_client", "read_pending"}
                /\ x.op \in {"close_client", "act_on_buffered"}
             \/ op = "accept" /\ x.op = "accept"
      PROVE  "close_drop" \notin OpsOf(Cons(x, Tail(todo)))
  <2>1. \A y : y \in OpsOf(Cons(x, Tail(todo))) <=> (y = x.op \/ y \in OpsOf(Tail(todo)))
    BY <1>2, CalledOne
  <2> QED
    BY <1>1, <1>2, <2>1
<1>3. CASE todo' = todo
  BY <1>1, <1>3
<1>4. CASE todo' = Tail(todo)
  BY <1>1, <1>4
<1>5. CASE todo' # todo /\ todo' # Tail(todo)
  <2>1. PICK x \in Entry :
            /\ \/ op = "reap_child" /\ x.op = "read_pty"
               \/ op \in {"write_client", "read_client", "read_pending"}
                  /\ x.op \in {"close_client", "act_on_buffered"}
               \/ op = "accept" /\ x.op = "accept"
            /\ todo' = Cons(x, Tail(todo))
    BY <1>5
  <2> QED
    BY <1>1, <1>2, <2>1
<1> QED
  BY <1>3, <1>4, <1>5

\* The client is being closed.
LEMMA ClosingClose ==
    ASSUME TypeOK, AgendaOK(todo), Connections, Closing, Served, close_client, client # None
    PROVE  Closing'
<1> DEFINE t == Tail(todo)
           r == Then(<<Do("act_on_buffered"), Do("close_receive"), Do("act_on_buffered"),
                       Do("close_drop")>>, Tail(todo))
           c == client.conn
<1>1. /\ Running("close_client") /\ UNCHANGED <<status, sent, received, acted, ended, peer>>
      /\ todo' = r
  BY DEF close_client, connVars, Call, Then
<1>2. /\ client' # None /\ client'.gone = TRUE /\ client'.conn = c
      /\ client'.closing = client.closing /\ client'.reading = client.reading
  BY ClosedClient
<1>3. peer[c] # "open"
  <2>1. todo[1].op = "close_client" /\ PointsAt(todo[1], ended, pending, client, peer)
    BY <1>1, PointsLeft DEF Connections
  <2> QED
    BY <2>1 DEF PointsAt
<1>4. todo # <<>> /\ todo[1].op = "close_client"
  BY <1>1, ReturnedBusy
<1>5. /\ AgendaOK(r) /\ r # <<>> /\ r[1].op = "act_on_buffered"
      /\ \A op : op \in OpsOf(r) <=>
              (op \in {"act_on_buffered", "close_receive", "close_drop"} \/ op \in OpsOf(Tail(todo)))
  BY <1>4, CallClose
<1> HIDE DEF r
<1>6. "close_drop" \in OpsOf(todo') /\ "close_receive" \in OpsOf(todo')
  BY <1>1, <1>5
<1>7. ~ Running("close_drop")'
  <2>1. Head(r) = r[1]
    BY <1>5 DEF AgendaOK
  <2> QED
    BY <1>1, <1>5, <2>1 DEF Running
<1>8. /\ client.closing => RefusedAt(sent[c], acted[c])
      /\ client.reading => HasRead(sent[c], acted[c])
      /\ \A d \in Conns : ShutdownEnds(sent[d], acted[d], ended)
      /\ \A d \in Conns : status[d] = "gone" => Complete(sent[d], acted[d], ended)
  BY ClosingIs
<1>9. /\ client'.closing => RefusedAt(sent'[client'.conn], acted'[client'.conn])
      /\ client'.reading => HasRead(sent'[client'.conn], acted'[client'.conn])
      /\ \A d \in Conns : ShutdownEnds(sent'[d], acted'[d], ended')
      /\ \A d \in Conns : status'[d] = "gone" => Complete(sent'[d], acted'[d], ended')
      /\ peer'[client'.conn] # "open"
  BY <1>1, <1>2, <1>3, <1>8
<1>10. /\ client' # None => client'.gone
       /\ client'.closing => RefusedAt(sent'[client'.conn], acted'[client'.conn])
       /\ client'.reading => HasRead(sent'[client'.conn], acted'[client'.conn])
       /\ peer'[client'.conn] # "open"
       /\ "close_receive" \in OpsOf(todo') /\ "close_drop" \in OpsOf(todo')
       /\ client' # None /\ ~ Running("close_drop")'
  BY <1>2, <1>6, <1>7, <1>9
<1>11. /\ (client' # None /\ client'.gone) <=> "close_drop" \in OpsOf(todo')
       /\ client' # None =>
             /\ client'.closing => RefusedAt(sent'[client'.conn], acted'[client'.conn])
             /\ client'.reading => HasRead(sent'[client'.conn], acted'[client'.conn])
             /\ client'.gone => peer'[client'.conn] # "open"
             /\ client'.gone /\ "close_receive" \notin OpsOf(todo') =>
                    client'.closing \/ received'[client'.conn] = Len(sent'[client'.conn])
             /\ Running("close_drop")' => client'.closing \/ acted'[client'.conn] = Len(sent'[client'.conn])
  BY <1>10
<1> QED
  BY <1>9, <1>11 DEF Closing, Refused, RefusedAt, HasRead, ShutdownEnds, Complete,
                     CloseActsOnEverything, Effective

\* What is left in the socket is read.
LEMMA ClosingReceive ==
    ASSUME TypeOK, AgendaOK(todo), Connections, Closing, close_receive
    PROVE  Closing'
<1> DEFINE t == Tail(todo)
           c == client.conn
           limit == Buffered(c) + RECEIVE_LIMIT
<1>1. /\ Running("close_receive") /\ todo' = t /\ UNCHANGED <<client, status, sent, acted, ended, peer>>
      /\ received' = IF client.closing THEN received ELSE [received EXCEPT ![c] = Received(c, limit)]
  BY DEF close_receive, Return
<1>2. /\ todo # <<>> /\ todo[1].op = "close_receive" /\ todo \in Seq(Entry) /\ AgendaOK(t)
  BY <1>1, Returned DEF AgendaOK
<1>3. 2 \in DOMAIN todo /\ todo[2].op = "act_on_buffered" /\ "close_drop" \in OpsOf(todo)
  <2>1. 1 \in DOMAIN todo /\ 1 + 1 = 2
    BY <1>2
  <2>2. 1 + 1 \in DOMAIN todo /\ todo[1 + 1].op = "act_on_buffered" /\ "close_drop" \in OpsOf(todo)
    BY <1>2, <2>1 DEF AgendaOK
  <2> QED
    BY <2>1, <2>2
<1>4. client # None /\ client.gone /\ client \in Clients /\ c \in Conns
  <2>1. client # None /\ client.gone
    BY <1>3 DEF Closing
  <2> QED
    BY <2>1, ClientType DEF TypeOK
<1>5. \A x : x \in OpsOf(todo) <=> (x = "close_receive" \/ x \in OpsOf(Tail(todo)))
  BY <1>1, ReturnedOps
<1>6. "close_drop" \in OpsOf(todo')
  BY <1>1, <1>3, <1>5
<1>7. ~ Running("close_drop")'
  <2>1. Head(t) = todo[2]
    BY <1>2, <1>3
  <2> QED
    BY <1>1, <1>3, <2>1 DEF Running
<1>8. client.closing \/ received'[c] = Len(sent[c])
  <2>1. SUFFICES ASSUME ~ client.closing PROVE received'[c] = Len(sent[c])
    OBVIOUS
  <2>2. received' = [received EXCEPT ![c] = Received(c, limit)]
    BY <1>1, <2>1
  <2>3. RECEIVE_LIMIT \in Nat /\ received \in [Conns -> Nat]
    BY HostConstants DEF TypeOK
  <2> HIDE DEF c
  <2>4. limit \in Nat /\ limit >= Buffered(c) + RECEIVE_LIMIT
    <3>1. received[c] - acted[c] \in Nat
      BY <1>4, <2>3, ReceivedIs
    <3> QED
      BY <2>3, <3>1 DEF Buffered
  <2> HIDE DEF limit
  <2>5. Received(c, limit) = Len(sent[c])
    BY <1>4, <2>4, ReceivedIs
  <2> QED
    BY <1>4, <2>2, <2>3, <2>5
<1>9. /\ client.closing => RefusedAt(sent[c], acted[c])
      /\ client.reading => HasRead(sent[c], acted[c])
      /\ \A d \in Conns : ShutdownEnds(sent[d], acted[d], ended)
      /\ \A d \in Conns : status[d] = "gone" => Complete(sent[d], acted[d], ended)
      /\ peer[c] # "open"
  BY <1>4, ClosingIs
<1>10. /\ client'.closing => RefusedAt(sent'[client'.conn], acted'[client'.conn])
       /\ client'.reading => HasRead(sent'[client'.conn], acted'[client'.conn])
       /\ \A d \in Conns : ShutdownEnds(sent'[d], acted'[d], ended')
       /\ \A d \in Conns : status'[d] = "gone" => Complete(sent'[d], acted'[d], ended')
       /\ peer'[client'.conn] # "open"
       /\ client'.closing \/ received'[client'.conn] = Len(sent'[client'.conn])
       /\ client' # None /\ client'.gone
  BY <1>1, <1>4, <1>8, <1>9
<1> HIDE DEF t, c, limit
<1>11. /\ client'.closing => Refused(client.conn)'
       /\ client'.reading => \E j \in 2 .. acted'[client'.conn] : sent'[client'.conn][j] = "Read"
  BY <1>10 DEF Refused, RefusedAt, HasRead
<1>12. \A d \in Conns : \A j \in 2 .. acted'[d] : sent'[d][j] = "Shutdown" => ended' = "Shutdown"
  <2>1. \A d \in Conns : ShutdownEnds(sent'[d], acted'[d], ended')
    BY <1>10
  <2> QED
    BY <2>1 DEF ShutdownEnds
<1>13. CloseActsOnEverything'
  <2>1. \A d \in Conns : status'[d] = "gone" => Complete(sent'[d], acted'[d], ended')
    BY <1>10
  <2> QED
    BY <2>1 DEF Complete, CloseActsOnEverything, Effective
<1>14. /\ peer'[client'.conn] # "open"
       /\ client'.closing \/ received'[client'.conn] = Len(sent'[client'.conn])
       /\ client' # None /\ client'.gone
  BY <1>10
<1> QED
  BY <1>6, <1>7, <1>11, <1>12, <1>13, <1>14 DEF Closing

\* Nothing that is buffered can be acted on.
LEMMA ClosingActed ==
    ASSUME TypeOK, AgendaOK(todo), Connections, Closing, act_on_buffered
    PROVE  Closing'
<1> DEFINE t == Tail(todo)
           c == client.conn
<1>1. /\ Running("act_on_buffered") /\ Stops /\ todo' = t
      /\ UNCHANGED <<client, status, sent, received, acted, ended, peer>>
  BY DEF act_on_buffered, Return, connVars
<1>2. AgendaOK(t) /\ todo # <<>> /\ todo[1].op = "act_on_buffered" /\ t \in Seq(Entry)
      /\ todo \in Seq(Entry)
  BY <1>1, Returned DEF AgendaOK
<1>3. \A x : x \in OpsOf(todo) <=> (x = "act_on_buffered" \/ x \in OpsOf(Tail(todo)))
  BY <1>1, ReturnedOps
<1>4. /\ "close_drop" \in OpsOf(t) <=> "close_drop" \in OpsOf(todo)
      /\ "close_receive" \in OpsOf(t) <=> "close_receive" \in OpsOf(todo)
  BY <1>3
<1> HIDE DEF t
<1>5. Running("close_drop")' => client # None /\ client.gone /\ "close_receive" \notin OpsOf(todo)
  <2>1. SUFFICES ASSUME t # <<>>, Head(t).op = "close_drop"
                 PROVE  client # None /\ client.gone /\ "close_receive" \notin OpsOf(todo)
    BY <1>1 DEF Running
  <2>2. "close_drop" \in OpsOf(t)
    BY <1>2, <2>1, NotRunning
  <2>3. client # None /\ client.gone
    BY <1>4, <2>2 DEF Closing
  <2>4. "close_receive" \notin OpsOf(t)
    <3>1. SUFFICES ASSUME "close_receive" \in OpsOf(t) PROVE FALSE
      OBVIOUS
    <3>2. PICK i \in 1 .. Len(t) : t[i].op = "close_receive"
      BY <1>2, <3>1, OpsOfAt
    <3>3. Head(t) = t[1] /\ 1 \in DOMAIN t /\ i \in DOMAIN t /\ Len(t) \in Nat
      BY <1>2, <2>1, <3>2
    <3>4. i # 1
      BY <2>1, <3>2, <3>3
    <3>5. 1 < i
      BY <3>2, <3>3, <3>4
    <3>6. Before(t[1], t[i])
      BY <1>2, <3>3, <3>5 DEF AgendaOK, Ordered
    <3> QED
      BY <2>1, <3>2, <3>3, <3>6 DEF Before
  <2> QED
    BY <1>4, <2>3, <2>4
<1>6. Running("close_drop")' => client.closing \/ acted[c] = Len(sent[c])
  <2>1. SUFFICES ASSUME client # None, client.gone, "close_receive" \notin OpsOf(todo), ~ client.closing
                 PROVE  acted[c] = Len(sent[c])
    BY <1>5
  <2>2. received[c] = Len(sent[c])
    BY <2>1 DEF Closing
  <2>3. NoFrame
    BY <1>1, <2>1 DEF Stops, OverHighWater, InputHeld
  <2>4. c \in Conns
    BY <2>1, ClientType DEF TypeOK
  <2>5. acted[c] \in Nat /\ received[c] \in Nat
    BY <2>4 DEF TypeOK
  <2> QED
    BY <2>2, <2>3, <2>5 DEF NoFrame, Buffered
<1>7. /\ (client # None /\ client.gone) <=> "close_drop" \in OpsOf(todo)
      /\ client # None =>
             /\ client.closing => RefusedAt(sent[c], acted[c])
             /\ client.reading => HasRead(sent[c], acted[c])
             /\ client.gone => peer[c] # "open"
             /\ client.gone /\ "close_receive" \notin OpsOf(todo) =>
                    client.closing \/ received[c] = Len(sent[c])
      /\ \A d \in Conns : ShutdownEnds(sent[d], acted[d], ended)
      /\ \A d \in Conns : status[d] = "gone" => Complete(sent[d], acted[d], ended)
  BY ClosingIs
<1>8. /\ (client' # None /\ client'.gone) <=> "close_drop" \in OpsOf(todo')
      /\ client' # None =>
             /\ client'.closing => RefusedAt(sent'[client'.conn], acted'[client'.conn])
             /\ client'.reading => HasRead(sent'[client'.conn], acted'[client'.conn])
             /\ client'.gone => peer'[client'.conn] # "open"
             /\ client'.gone /\ "close_receive" \notin OpsOf(todo') =>
                    client'.closing \/ received'[client'.conn] = Len(sent'[client'.conn])
             /\ Running("close_drop")' => client'.closing \/ acted'[client'.conn] = Len(sent'[client'.conn])
  BY <1>1, <1>4, <1>6, <1>7
<1>9. /\ \A d \in Conns : ShutdownEnds(sent'[d], acted'[d], ended')
      /\ \A d \in Conns : status'[d] = "gone" => Complete(sent'[d], acted'[d], ended')
  BY <1>1, <1>7
<1> QED
  BY <1>8, <1>9 DEF Closing, Refused, RefusedAt, HasRead, ShutdownEnds, Complete,
                    CloseActsOnEverything, Effective

\* The place is given up, and everything sent was acted on.
LEMMA ClosingDrop ==
    ASSUME TypeOK, AgendaOK(todo), Connections, Closing, close_drop
    PROVE  Closing'
<1> DEFINE t == Tail(todo)
           c == client.conn
           s == sent[c]
           n == acted[c]
<1>1. /\ Running("close_drop") /\ todo' = t /\ client' = None
      /\ UNCHANGED <<sent, received, acted, ended, peer>>
  BY DEF close_drop, Return, drop_client
<1>2. client # None
  <2>1. "close_drop" \in OpsOf(todo)
    BY <1>1, ReturnedOps
  <2> QED
    BY <2>1 DEF Closing
<1>3. c \in Conns
  BY <1>2, ClientType DEF TypeOK
<1>4. status' = [status EXCEPT ![c] = "gone"]
  BY <1>2 DEF close_drop, drop_client
<1>5. "close_drop" \notin OpsOf(t)
  <2>1. /\ AgendaOK(t) /\ todo[1].op = "close_drop" /\ \A i \in 1 .. Len(t) : Before(todo[1], t[i])
    BY <1>1, Returned
  <2>2. t \in Seq(Entry)
    BY <2>1 DEF AgendaOK
  <2> HIDE DEF t
  <2>3. "close_drop" \in OpsOf(t) => \E i \in 1 .. Len(t) : t[i].op = "close_drop"
    BY <2>2, OpsOfAt
  <2> QED
    BY <2>1, <2>3 DEF Before
<1>6. /\ client.closing => RefusedAt(s, n)
      /\ client.closing \/ n = Len(s)
      /\ ShutdownEnds(s, n, ended)
      /\ \A d \in Conns : ShutdownEnds(sent[d], acted[d], ended)
      /\ \A d \in Conns : status[d] = "gone" => Complete(sent[d], acted[d], ended)
  BY <1>1, <1>2, <1>3, ClosingIs
<1>7. s \in Seq(Hellos \cup Frames) /\ n \in Nat /\ n >= 1 /\ n <= Len(s)
  <2>1. acted[c] \in Nat /\ received[c] \in Nat /\ Len(sent[c]) \in Nat
        /\ acted[c] <= received[c] /\ received[c] <= Len(sent[c])
    BY <1>3 DEF TypeOK, Connections, Counted
  <2>2. acted[c] >= 1
    BY <1>2 DEF Connections, Met
  <2>3. sent[c] \in Seq(Hellos \cup Frames)
    BY <1>3 DEF TypeOK
  <2>4. acted[c] <= Len(sent[c])
    BY <2>1
  <2> QED
    BY <2>1, <2>2, <2>3, <2>4
<1> HIDE DEF s, n
<1>8. Complete(s, n, ended)
  BY <1>6, <1>7, RefusedIsComplete
<1>9. \A d \in Conns : status'[d] = "gone" => Complete(sent[d], acted[d], ended)
  <2> SUFFICES ASSUME NEW d \in Conns, status'[d] = "gone" PROVE Complete(sent[d], acted[d], ended)
    OBVIOUS
  <2>1. CASE d = c
    BY <1>8, <2>1 DEF s, n
  <2>2. CASE d # c
    <3>1. status[d] = "gone"
      BY <1>3, <1>4, <2>2 DEF TypeOK
    <3> QED
      BY <1>6, <3>1
  <2> QED
    BY <2>1, <2>2
<1>10. /\ \A d \in Conns : ShutdownEnds(sent'[d], acted'[d], ended')
       /\ \A d \in Conns : status'[d] = "gone" => Complete(sent'[d], acted'[d], ended')
  BY <1>1, <1>6, <1>9
<1>11. client' = None /\ "close_drop" \notin OpsOf(todo')
  BY <1>1, <1>5
<1> QED
  BY <1>10, <1>11 DEF Closing, Refused, RefusedAt, HasRead, ShutdownEnds, Complete,
                      CloseActsOnEverything, Effective

\* A handler that closes nothing.
LEMMA ClosingServing ==
    ASSUME AgendaOK(todo), AgendaOK(todo'), Closing, NEW op, Running(op),
           op \notin {"act_on_buffered", "close_receive", "close_drop"},
           \/ todo' = todo
           \/ todo' = Tail(todo)
           \/ \E x \in Entry :
                  /\ \/ op = "reap_child" /\ x.op = "read_pty"
                     \/ op \in {"write_client", "read_client", "read_pending"}
                        /\ x.op \in {"close_client", "act_on_buffered"}
                     \/ op = "accept" /\ x.op = "accept"
                  /\ todo' = Cons(x, Tail(todo)),
           UNCHANGED <<sent, acted, ended>>,
           client' # None =>
               /\ client # None /\ client'.gone = client.gone
               /\ client'.conn = client.conn /\ client'.closing = client.closing
               /\ client'.reading = client.reading,
           \A c \in Conns : status'[c] = "gone" => status[c] = "gone"
    PROVE  Closing'
<1>1. "close_drop" \notin OpsOf(todo') /\ (client # None => ~ client.gone)
  BY NoCloseServing
<1>2. client' # None =>
          /\ client # None /\ ~ client'.gone
          /\ client'.conn = client.conn /\ client'.closing = client.closing
          /\ client'.reading = client.reading
  BY <1>1
<1> QED
  BY <1>1, <1>2, ClosingCalm

\* A frame is taken, and what it ends is ended.
LEMMA ClosingTakes ==
    ASSUME TypeOK, Connections, Closing, Handling, TakeFrame,
           UNCHANGED <<todo, sent, received, peer>>,
           ended' = ended \/ ended' = "Shutdown",
           NextFrame = "Shutdown" => ended' = "Shutdown",
           client' # None, client'.conn = client.conn, client'.gone = client.gone,
           client'.closing => \/ NextFrame \in {"Hello", "Malformed", "Shutdown"}
                              \/ NextFrame = "Read" /\ client.reading,
           client'.reading => client.reading \/ NextFrame = "Read",
           \A c \in Conns : status'[c] = "gone" => status[c] = "gone"
    PROVE  Closing'
<1> DEFINE c == client.conn
           s == sent[c]
           n == acted[c]
<1>1. /\ client # None /\ Running("act_on_buffered") /\ ~ client.closing /\ c \in Conns /\ n \in Nat /\ n >= 1
  BY FrameFound
<1>2. /\ client.reading => HasRead(s, n)
      /\ client.gone => peer[c] # "open"
      /\ client.gone /\ "close_receive" \notin OpsOf(todo) => received[c] = Len(s)
      /\ client.gone <=> "close_drop" \in OpsOf(todo)
      /\ \A d \in Conns : ShutdownEnds(sent[d], acted[d], ended)
      /\ \A d \in Conns : status[d] = "gone" => Complete(sent[d], acted[d], ended)
  BY <1>1, ClosingIs
<1>3. ~ Running("close_drop")'
  BY <1>1 DEF Running
<1>4. acted'[c] = n + 1 /\ \A d \in Conns : d # c => acted'[d] = acted[d]
  BY <1>1 DEF TakeFrame, TypeOK
<1>5. status[c] # "gone"
  BY <1>1 DEF Connections, ConnectionsPlaced
<1>6. NextFrame = s[n + 1]
  BY DEF NextFrame
<1> HIDE DEF s, n
<1>7. /\ HasRead(s, n) => HasRead(s, n + 1)
      /\ s[n + 1] = "Read" => HasRead(s, n + 1)
      /\ HasRead(s, n) /\ s[n + 1] = "Read" => RefusedAt(s, n + 1)
      /\ s[n + 1] \in {"Hello", "Malformed", "Shutdown"} => RefusedAt(s, n + 1)
  BY <1>1, RefusedTakes
<1>8. client'.closing => RefusedAt(s, n + 1)
  BY <1>2, <1>6, <1>7
<1>9. client'.reading => HasRead(s, n + 1)
  BY <1>2, <1>6, <1>7
<1>10. ShutdownEnds(s, n + 1, ended')
  <2>1. CASE ended' = "Shutdown"
    BY <2>1 DEF ShutdownEnds
  <2>2. CASE ended' = ended /\ s[n + 1] # "Shutdown"
    <3>1. ShutdownEnds(s, n, ended)
      BY <1>1, <1>2 DEF s, n
    <3>2. ShutdownEnds(s, n + 1, ended)
      BY <1>1, <2>2, <3>1, RefusedTakes
    <3> QED
      BY <2>2, <3>2
  <2> QED
    BY <1>6, <2>1, <2>2
<1>11. \A d \in Conns : ShutdownEnds(sent'[d], acted'[d], ended')
  <2> TAKE d \in Conns
  <2>1. CASE d = c
    BY <1>4, <1>10, <2>1 DEF s
  <2>2. CASE d # c
    <3>1. acted'[d] = acted[d] /\ sent'[d] = sent[d] /\ ShutdownEnds(sent[d], acted[d], ended)
      BY <1>2, <1>4, <2>2
    <3>2. ShutdownEnds(sent[d], acted[d], ended')
      BY <3>1 DEF ShutdownEnds
    <3> QED
      BY <3>1, <3>2
  <2> QED
    BY <2>1, <2>2
<1>12. \A d \in Conns : status'[d] = "gone" => Complete(sent'[d], acted'[d], ended')
  <2> SUFFICES ASSUME NEW d \in Conns, status'[d] = "gone" PROVE Complete(sent'[d], acted'[d], ended')
    OBVIOUS
  <2>1. d # c
    BY <1>5
  <2>2. acted'[d] = acted[d] /\ sent'[d] = sent[d] /\ Complete(sent[d], acted[d], ended)
    BY <1>2, <1>4, <2>1
  <2>3. Complete(sent[d], acted[d], ended')
    <3>1. CASE ended' = ended
      BY <2>2, <3>1
    <3>2. CASE ended' = "Shutdown"
      BY <2>2, <3>2 DEF Complete
    <3> QED
      BY <3>1, <3>2
  <2> QED
    BY <2>2, <2>3
<1>13. /\ sent'[client'.conn] = s /\ acted'[client'.conn] = n + 1 /\ received'[client'.conn] = received[c]
       /\ peer'[client'.conn] = peer[c]
  BY <1>4 DEF s
<1>14. /\ (client' # None /\ client'.gone) <=> "close_drop" \in OpsOf(todo')
       /\ client' # None =>
             /\ client'.closing => RefusedAt(sent'[client'.conn], acted'[client'.conn])
             /\ client'.reading => HasRead(sent'[client'.conn], acted'[client'.conn])
             /\ client'.gone => peer'[client'.conn] # "open"
             /\ client'.gone /\ "close_receive" \notin OpsOf(todo') =>
                    client'.closing \/ received'[client'.conn] = Len(sent'[client'.conn])
             /\ Running("close_drop")' => client'.closing \/ acted'[client'.conn] = Len(sent'[client'.conn])
  BY <1>2, <1>3, <1>8, <1>9, <1>13
<1> QED
  BY <1>11, <1>12, <1>14 DEF Closing, Refused, RefusedAt, HasRead, ShutdownEnds, Complete,
                             CloseActsOnEverything, Effective

\* A malformed frame stays where it is.
LEMMA ClosingMalformed ==
    ASSUME TypeOK, Connections, Closing, Served, handle_malformed
    PROVE  Closing'
<1> DEFINE c == client.conn
<1>1. /\ Handling /\ client' = end_connection(client, "Error") /\ NextFrame = "Malformed"
      /\ UNCHANGED <<todo, status, sent, received, acted, ended, peer>>
  BY DEF handle_malformed, Acting, Handling, refuse_client
<1>2. /\ client # None /\ Running("act_on_buffered") /\ ~ client.closing /\ c \in Conns
      /\ acted[c] \in Nat /\ acted[c] < received[c]
  BY <1>1, FrameFound
<1>3. /\ client' # None /\ client'.closing = TRUE /\ client'.reading = FALSE
      /\ client'.conn = c /\ client'.gone = client.gone
  BY <1>1, Ended DEF LastFrames
<1>4. RefusedAt(sent[c], acted[c])
  <2>1. received[c] \in Nat /\ Len(sent[c]) \in Nat /\ received[c] <= Len(sent[c])
    BY <1>2 DEF TypeOK, Connections, Counted
  <2>2. acted[c] < Len(sent[c])
    BY <1>2, <2>1
  <2> QED
    BY <1>1, <2>2 DEF RefusedAt, NextFrame
<1>5. ~ Running("close_drop")'
  BY <1>1, <1>2 DEF Running
<1>6. /\ client.gone => peer[c] # "open"
      /\ client.gone <=> "close_drop" \in OpsOf(todo)
      /\ \A d \in Conns : ShutdownEnds(sent[d], acted[d], ended)
      /\ \A d \in Conns : status[d] = "gone" => Complete(sent[d], acted[d], ended)
  BY <1>2, ClosingIs
<1>7. /\ \A d \in Conns : ShutdownEnds(sent'[d], acted'[d], ended')
      /\ \A d \in Conns : status'[d] = "gone" => Complete(sent'[d], acted'[d], ended')
  BY <1>1, <1>6
<1>8. /\ sent'[client'.conn] = sent[c] /\ acted'[client'.conn] = acted[c] /\ peer'[client'.conn] = peer[c]
  BY <1>1, <1>3
<1>9. /\ (client' # None /\ client'.gone) <=> "close_drop" \in OpsOf(todo')
      /\ client' # None =>
             /\ client'.closing => RefusedAt(sent'[client'.conn], acted'[client'.conn])
             /\ client'.reading => HasRead(sent'[client'.conn], acted'[client'.conn])
             /\ client'.gone => peer'[client'.conn] # "open"
             /\ client'.gone /\ "close_receive" \notin OpsOf(todo') =>
                    client'.closing \/ received'[client'.conn] = Len(sent'[client'.conn])
             /\ Running("close_drop")' => client'.closing \/ acted'[client'.conn] = Len(sent'[client'.conn])
  BY <1>1, <1>3, <1>4, <1>5, <1>6, <1>8
<1> QED
  BY <1>7, <1>9 DEF Closing, Refused, RefusedAt, HasRead, ShutdownEnds, Complete,
                    CloseActsOnEverything, Effective

\* A pending connection becomes the client.
LEMMA ClosingAdmits ==
    ASSUME TypeOK, AgendaOK(todo'), Closing, "close_drop" \notin OpsOf(todo'),
           NEW c \in Conns, client' = NewClient(c), acted' = [acted EXCEPT ![c] = 1],
           status'[c] = "client",
           \A d \in Conns : status'[d] = "gone" => status[d] = "gone",
           UNCHANGED <<sent, ended>>
    PROVE  Closing'
<1>1. /\ \A d \in Conns : ShutdownEnds(sent[d], acted[d], ended)
      /\ \A d \in Conns : status[d] = "gone" => Complete(sent[d], acted[d], ended)
  BY ClosingIs
<1>2. \A d \in Conns : acted'[d] = IF d = c THEN 1 ELSE acted[d]
  BY DEF TypeOK
<1>3. client'.closing = FALSE /\ client'.gone = FALSE /\ client'.reading = FALSE
  BY DEF NewClient
<1> DEFINE r == todo'
<1>4. r \in Seq(Entry) /\ "close_drop" \notin OpsOf(r)
  BY DEF AgendaOK
<1> HIDE DEF r
<1>5. ~ (r # <<>> /\ Head(r).op = "close_drop")
  BY <1>4, NotRunning
<1>6. ~ Running("close_drop")'
  BY <1>5 DEF Running, r
<1>7. \A d \in Conns : ShutdownEnds(sent'[d], acted'[d], ended')
  <2> TAKE d \in Conns
  <2>1. CASE d = c
    <3>1. acted'[d] = 1
      BY <1>2, <2>1
    <3> QED
      BY <3>1 DEF ShutdownEnds
  <2>2. CASE d # c
    BY <1>1, <1>2, <2>2
  <2> QED
    BY <2>1, <2>2
<1>8. \A d \in Conns : status'[d] = "gone" => Complete(sent'[d], acted'[d], ended')
  <2> SUFFICES ASSUME NEW d \in Conns, status'[d] = "gone" PROVE Complete(sent'[d], acted'[d], ended')
    OBVIOUS
  <2>1. d # c /\ status[d] = "gone"
    OBVIOUS
  <2> QED
    BY <1>1, <1>2, <2>1
<1>9. /\ (client' # None /\ client'.gone) <=> "close_drop" \in OpsOf(todo')
      /\ client' # None =>
             /\ client'.closing => RefusedAt(sent'[client'.conn], acted'[client'.conn])
             /\ client'.reading => HasRead(sent'[client'.conn], acted'[client'.conn])
             /\ client'.gone => peer'[client'.conn] # "open"
             /\ client'.gone /\ "close_receive" \notin OpsOf(todo') =>
                    client'.closing \/ received'[client'.conn] = Len(sent'[client'.conn])
             /\ Running("close_drop")' => client'.closing \/ acted'[client'.conn] = Len(sent'[client'.conn])
  BY <1>3, <1>6
<1> QED
  BY <1>7, <1>8, <1>9 DEF Closing, Refused, RefusedAt, HasRead, ShutdownEnds, Complete,
                          CloseActsOnEverything, Effective

\* Closing in the next state, said with them.
LEMMA ClosingThen ==
    ASSUME /\ (client' # None /\ client'.gone) <=> "close_drop" \in OpsOf(todo')
           /\ client' # None =>
                  /\ client'.closing => RefusedAt(sent'[client'.conn], acted'[client'.conn])
                  /\ client'.reading => HasRead(sent'[client'.conn], acted'[client'.conn])
                  /\ client'.gone => peer'[client'.conn] # "open"
                  /\ client'.gone /\ "close_receive" \notin OpsOf(todo') =>
                         client'.closing \/ received'[client'.conn] = Len(sent'[client'.conn])
                  /\ Running("close_drop")' =>
                         client'.closing \/ acted'[client'.conn] = Len(sent'[client'.conn]),
           \A d \in Conns : ShutdownEnds(sent'[d], acted'[d], ended'),
           \A d \in Conns : status'[d] = "gone" => Complete(sent'[d], acted'[d], ended')
    PROVE  Closing'
BY DEF Closing, Refused, RefusedAt, HasRead, ShutdownEnds, Complete, CloseActsOnEverything, Effective

\* A frame that a peer sends.
LEMMA ClosingSend ==
    ASSUME TypeOK, Connections, Closing, NEW c \in Conns, NEW frame, peer_sends(c, frame)
    PROVE  Closing'
<1> USE DEF Environment, hostVars
<1>1. /\ sent' = [sent EXCEPT ![c] = Append(@, frame)] /\ frame \in Hellos \cup Frames
      /\ peer[c] = "open" /\ status[c] # "gone"
      /\ UNCHANGED <<todo, client, status, received, acted, ended, peer>>
  BY DEF peer_sends
<1>2. ~ Running("close_drop")
  BY DEF peer_sends, Undisturbed
<1>3. ~ Running("close_drop")'
  BY <1>1, <1>2 DEF Running
<1>4. \A d \in Conns : sent'[d] = IF d = c THEN Append(sent[c], frame) ELSE sent[d]
  BY <1>1 DEF TypeOK
<1> DEFINE s == sent[c]
           n == acted[c]
           u == Append(s, frame)
<1>5. s \in Seq(Hellos \cup Frames) /\ n \in Nat /\ n <= Len(s)
  <2>1. acted[c] \in Nat /\ received[c] \in Nat /\ Len(sent[c]) \in Nat
        /\ acted[c] <= received[c] /\ received[c] <= Len(sent[c])
    BY DEF TypeOK, Connections, Counted
  <2> QED
    BY <2>1 DEF TypeOK
<1> HIDE DEF s, n
<1>6. /\ RefusedAt(s, n) => RefusedAt(u, n)
      /\ HasRead(s, n) => HasRead(u, n)
      /\ ShutdownEnds(s, n, ended) => ShutdownEnds(u, n, ended)
  BY <1>1, <1>5, RefusedGrows
<1> HIDE DEF u
<1>7. \A d \in Conns : sent'[d] = IF d = c THEN u ELSE sent[d]
  BY <1>4 DEF u, s
<1>8. \A d \in Conns :
          /\ RefusedAt(sent[d], acted[d]) => RefusedAt(sent'[d], acted[d])
          /\ HasRead(sent[d], acted[d]) => HasRead(sent'[d], acted[d])
          /\ ShutdownEnds(sent[d], acted[d], ended) => ShutdownEnds(sent'[d], acted[d], ended)
  <2> TAKE d \in Conns
  <2>1. CASE d = c
    <3>1. sent'[d] = u /\ sent[d] = s /\ acted[d] = n
      BY <1>7, <2>1 DEF s, n
    <3> QED
      BY <1>6, <3>1
  <2>2. CASE d # c
    <3>1. sent'[d] = sent[d]
      BY <1>7, <2>2
    <3> QED
      BY <3>1
  <2> QED
    BY <2>1, <2>2
<1>9. /\ (client # None /\ client.gone) <=> "close_drop" \in OpsOf(todo)
      /\ client # None =>
             /\ client.closing => RefusedAt(sent[client.conn], acted[client.conn])
             /\ client.reading => HasRead(sent[client.conn], acted[client.conn])
             /\ client.gone => peer[client.conn] # "open"
             /\ client.gone /\ "close_receive" \notin OpsOf(todo) =>
                    client.closing \/ received[client.conn] = Len(sent[client.conn])
      /\ \A d \in Conns : ShutdownEnds(sent[d], acted[d], ended)
      /\ \A d \in Conns : status[d] = "gone" => Complete(sent[d], acted[d], ended)
  BY ClosingIs
<1>10. client # None => client.conn \in Conns
  BY ClientType DEF TypeOK
<1>11. client # None /\ client.gone => sent'[client.conn] = sent[client.conn]
  <2> SUFFICES ASSUME client # None, client.gone PROVE sent'[client.conn] = sent[client.conn]
    OBVIOUS
  <2>1. client.conn # c
    BY <1>1, <1>9
  <2> QED
    BY <1>7, <1>10, <2>1
<1>12. client # None =>
             /\ client.closing => RefusedAt(sent'[client.conn], acted[client.conn])
             /\ client.reading => HasRead(sent'[client.conn], acted[client.conn])
  BY <1>8, <1>9, <1>10
<1>13. \A d \in Conns : ShutdownEnds(sent'[d], acted'[d], ended')
  BY <1>1, <1>8, <1>9
<1>14. \A d \in Conns : status'[d] = "gone" => Complete(sent'[d], acted'[d], ended')
  <2> SUFFICES ASSUME NEW d \in Conns, status'[d] = "gone" PROVE Complete(sent'[d], acted'[d], ended')
    OBVIOUS
  <2>1. d # c /\ status[d] = "gone"
    BY <1>1
  <2> QED
    BY <1>1, <1>7, <1>9, <2>1
<1>15. /\ (client' # None /\ client'.gone) <=> "close_drop" \in OpsOf(todo')
       /\ client' # None =>
              /\ client'.closing => RefusedAt(sent'[client'.conn], acted'[client'.conn])
              /\ client'.reading => HasRead(sent'[client'.conn], acted'[client'.conn])
              /\ client'.gone => peer'[client'.conn] # "open"
              /\ client'.gone /\ "close_receive" \notin OpsOf(todo') =>
                     client'.closing \/ received'[client'.conn] = Len(sent'[client'.conn])
              /\ Running("close_drop")' => client'.closing \/ acted'[client'.conn] = Len(sent'[client'.conn])
  BY <1>1, <1>3, <1>9, <1>11, <1>12
<1> QED
  BY <1>13, <1>14, <1>15, ClosingThen

\* No handler that poll puts on the agenda drops the client.
LEMMA PolledAgenda ==
    ASSUME TypeOK, AgendaOK(todo), Connections, poll \/ poll_interrupted
    PROVE  "close_drop" \notin OpsOf(todo')
<1>1. Running("poll")
  BY DEF poll, poll_interrupted
<1>2. Tail(todo) = <<>>
  BY <1>1, Returned
<1>3. CASE poll
  <2> DEFINE t == Agenda
  <2>1. todo' = t \o Tail(todo)
    BY <1>3 DEF poll, Call
  <2>2. AgendaOK(t)
    BY AgendaIsOK DEF Connections
  <2>3. "close_drop" \notin OpsOf(t)
    BY AgendaIsOK DEF Connections
  <2> HIDE DEF t
  <2>5. t \o <<>> = t /\ t \in Seq(Entry)
    BY <2>2 DEF AgendaOK
  <2>6. todo' = t
    BY <1>2, <2>1, <2>5
  <2> QED
    BY <2>3, <2>6
<1>4. CASE poll_interrupted
  <2> DEFINE s == <<Do("reap_child"), Do("finish_drain"), Do("expire_pending")>>
             t == Then(s, LastLook)
  <2>1. todo' = (s \o LastLook) \o Tail(todo)
    BY <1>4 DEF poll_interrupted, Call
  <2>2. AgendaOK(t)
    BY InterruptedAgendaIsOK
  <2>3. s \o LastLook = t
    BY DEF Then
  <2>7. "close_drop" \notin OpsOf(t)
    BY InterruptedAgendaIsOK
  <2> HIDE DEF t, s
  <2>5. t \o <<>> = t /\ t \in Seq(Entry)
    BY <2>2 DEF AgendaOK
  <2>6. todo' = t
    BY <1>2, <2>1, <2>3, <2>5
  <2> QED
    BY <2>6, <2>7
<1> QED
  BY <1>3, <1>4

\* How far a close has come, whatever happens.
LEMMA ClosingStep ==
    ASSUME TypeOK, AgendaOK(todo), AgendaOK(todo'), Connections, Closing, Served, [Next]_vars
    PROVE  Closing'
<1> USE DEF Environment, hostVars, connVars, kernelVars
<1>1. CASE step_terminated
  <2>1. UNCHANGED <<todo, client, status, sent, received, acted, ended, peer>>
    BY <1>1 DEF step_terminated
  <2> QED
    BY <2>1, ClosingSame
<1>2. CASE UNCHANGED vars
  <2>1. UNCHANGED <<todo, client, status, sent, received, acted, ended, peer>>
    BY <1>2 DEF vars
  <2> QED
    BY <2>1, ClosingSame
<1>3. CASE \E c \in Conns : peer_takes(c)
  <2>1. UNCHANGED <<todo, client, status, sent, received, acted, ended, peer>>
    BY <1>3 DEF peer_takes
  <2> QED
    BY <2>1, ClosingSame
<1>4. CASE \E who \in {"child", "other"} : program_writes(who)
  <2>1. UNCHANGED <<todo, client, status, sent, received, acted, ended, peer>>
    BY <1>4 DEF program_writes
  <2> QED
    BY <2>1, ClosingSame
<1>5. CASE program_takes
  <2>1. UNCHANGED <<todo, client, status, sent, received, acted, ended, peer>>
    BY <1>5 DEF program_takes
  <2> QED
    BY <2>1, ClosingSame
<1>6. CASE child_exits
  <2>1. UNCHANGED <<todo, client, status, sent, received, acted, ended, peer>>
    BY <1>6 DEF child_exits
  <2> QED
    BY <2>1, ClosingSame
<1>7. CASE sigterm_arrives
  <2>1. UNCHANGED <<todo, client, status, sent, received, acted, ended, peer>>
    BY <1>7 DEF sigterm_arrives
  <2> QED
    BY <2>1, ClosingSame
<1>8. CASE \E who \in {"child", "other"} : let_go(who)
  <2>1. UNCHANGED <<todo, client, status, sent, received, acted, ended, peer>>
    BY <1>8 DEF let_go
  <2> QED
    BY <2>1, ClosingSame
<1>9. CASE \E d \in {"flush", "drain", "pause"} \cup Conns : deadline_passes(d)
  <2>1. UNCHANGED <<todo, client, status, sent, received, acted, ended, peer>>
    BY <1>9 DEF deadline_passes
  <2> QED
    BY <2>1, ClosingSame
<1>10. CASE descriptors_change
  <2>1. UNCHANGED <<todo, client, status, sent, received, acted, ended, peer>>
    BY <1>10 DEF descriptors_change
  <2> QED
    BY <2>1, ClosingSame
<1>11. CASE drain_signal_pipe
  <2>1. /\ Running("drain_signal_pipe") /\ todo' = Tail(todo)
        /\ UNCHANGED <<client, status, sent, acted, ended>>
    BY <1>11 DEF drain_signal_pipe, Return
  <2> QED
    BY <2>1, ClosingServing
<1>12. CASE finish_drain
  <2>1. /\ Running("finish_drain") /\ todo' = Tail(todo)
        /\ UNCHANGED <<client, status, sent, acted, ended>>
    BY <1>12 DEF finish_drain, Return
  <2> QED
    BY <2>1, ClosingServing
<1>13. CASE reap_child
  <2> DEFINE x == Do("read_pty")
  <2>1. /\ Running("reap_child") /\ (todo' = Cons(x, Tail(todo)) \/ todo' = Tail(todo))
        /\ UNCHANGED <<client, status, sent, acted, ended>>
    BY <1>13 DEF reap_child, Return, Call, Cons
  <2>2. x \in Entry /\ x.op = "read_pty"
    BY EntryType DEF Ops
  <2> HIDE DEF x
  <2> QED
    BY <2>1, <2>2, ClosingServing
<1>14. CASE read_pty
  <2>1. /\ Running("read_pty") /\ todo' = Tail(todo)
        /\ UNCHANGED <<status, sent, acted, ended>>
    BY <1>14 DEF read_pty, Return
  <2>2. client' # None =>
            /\ client # None /\ client'.gone = client.gone
            /\ client'.conn = client.conn /\ client'.closing = client.closing
            /\ client'.reading = client.reading
    BY <1>14, InputLeft DEF SameClient
  <2> QED
    BY <2>1, <2>2, ClosingServing
<1>15. CASE write_input
  <2>1. /\ Running("write_input") /\ todo' = Tail(todo)
        /\ UNCHANGED <<status, sent, acted, ended>>
    BY <1>15 DEF write_input, Return
  <2>2. client' # None =>
            /\ client # None /\ client'.gone = client.gone
            /\ client'.conn = client.conn /\ client'.closing = client.closing
            /\ client'.reading = client.reading
    BY <1>15, InputLeft DEF SameClient
  <2> QED
    BY <2>1, <2>2, ClosingServing
<1>16. CASE refill_outgoing
  <2>1. /\ Running("refill_outgoing") /\ (todo' = todo \/ todo' = Tail(todo))
        /\ UNCHANGED <<status, sent, acted, ended>>
    BY <1>16 DEF refill_outgoing, Return
  <2>2. client' # None =>
            /\ client # None /\ client'.gone = client.gone
            /\ client'.conn = client.conn /\ client'.closing = client.closing
            /\ client'.reading = client.reading
    <3>1. CASE CanRefill
      BY <1>16, <3>1, Refilled
    <3>2. CASE ~ CanRefill
      BY <1>16, <3>2 DEF refill_outgoing
    <3> QED
      BY <3>1, <3>2
  <2> QED
    BY <2>1, <2>2, ClosingServing
<1>17. CASE step_ended
  <2>1. todo = <<>> /\ todo' = todo /\ UNCHANGED <<sent, received, acted, ended, peer>>
    BY <1>17 DEF step_ended
  <2>2. "close_drop" \notin OpsOf(todo') /\ (client # None => ~ client.gone)
    BY <2>1, NoClose
  <2>3. CASE FlushOver
    <3>1. client # None /\ client' = None /\ status' = [status EXCEPT ![client.conn] = "late"]
      BY <1>17, <2>3 DEF step_ended, drop_client, FlushOver
    <3>2. \A c \in Conns : status'[c] = "gone" => status[c] = "gone"
      BY <3>1 DEF TypeOK
    <3> QED
      BY <2>1, <2>2, <3>1, <3>2, ClosingCalm
  <2>4. CASE ~ FlushOver
    <3>1. UNCHANGED <<client, status>>
      BY <1>17, <2>4 DEF step_ended
    <3> QED
      BY <2>1, <3>1, ClosingSame
  <2> QED
    BY <2>3, <2>4
<1>18. CASE step_begin
  <2>1. todo = <<>> /\ todo' = <<Do("refill_outgoing"), Do("poll")>>
        /\ UNCHANGED <<sent, received, acted, ended, peer>>
    BY <1>18 DEF step_begin
  <2>2. client # None => ~ client.gone
    BY <2>1, NoClose
  <2>3. "close_drop" \notin OpsOf(todo')
    BY <2>1, AsleepOps
  <2>4. CASE FlushOver
    <3>1. client # None /\ client' = None /\ status' = [status EXCEPT ![client.conn] = "late"]
      BY <1>18, <2>4 DEF step_begin, FlushOver
    <3>2. \A c \in Conns : status'[c] = "gone" => status[c] = "gone"
      BY <3>1 DEF TypeOK
    <3> QED
      BY <2>1, <2>3, <3>1, <3>2, ClosingCalm
  <2>5. CASE ~ FlushOver
    <3>1. UNCHANGED <<client, status>>
      BY <1>18, <2>5 DEF step_begin
    <3> QED
      BY <2>1, <2>2, <2>3, <3>1, ClosingCalm
  <2> QED
    BY <2>4, <2>5
<1>19. CASE poll \/ poll_interrupted
  <2>1. UNCHANGED <<client, status, sent, acted, ended>> /\ Running("poll")
    BY <1>19 DEF poll, poll_interrupted
  <2>2. client # None => ~ client.gone
    BY <2>1, NoClose
  <2>3. "close_drop" \notin OpsOf(todo')
    BY <1>19, PolledAgenda
  <2> QED
    BY <2>1, <2>2, <2>3, ClosingCalm
<1>20. CASE write_client
  <2> DEFINE x == Do("close_client")
  <2>1. Running("write_client") /\ UNCHANGED <<sent, acted, ended>>
    BY <1>20 DEF write_client
  <2>2. x \in Entry /\ x.op = "close_client"
    BY EntryType DEF Ops
  <2>3. CASE client = None
    <3>1. todo' = Tail(todo) /\ UNCHANGED <<client, status>>
      BY <1>20, <2>3 DEF write_client, Return
    <3> QED
      BY <2>1, <3>1, ClosingServing
  <2>4. CASE client # None /\ client.outgoing = <<>> /\ client.closing
    <3>1. todo' = Tail(todo) /\ client' = None /\ status' = [status EXCEPT ![client.conn] = "flushed"]
      BY <1>20, <2>4 DEF write_client, Return, drop_client
    <3>2. \A c \in Conns : status'[c] = "gone" => status[c] = "gone"
      BY <3>1 DEF TypeOK
    <3> QED
      BY <2>1, <3>1, <3>2, ClosingServing
  <2>5. CASE client # None /\ client.outgoing = <<>> /\ ~ client.closing
    <3>1. todo' = Tail(todo) /\ UNCHANGED <<client, status>>
      BY <1>20, <2>5 DEF write_client, Return
    <3> QED
      BY <2>1, <3>1, ClosingServing
  <2>6. CASE client # None /\ client.outgoing # <<>> /\ peer[client.conn] = "closed"
    <3>1. todo' = Cons(x, Tail(todo)) /\ UNCHANGED <<client, status>>
      BY <1>20, <2>6 DEF write_client, Call, Cons
    <3> HIDE DEF x
    <3> QED
      BY <2>1, <2>2, <3>1, ClosingServing
  <2>7. CASE client # None /\ client.outgoing # <<>> /\ peer[client.conn] # "closed"
    <3>1. /\ client' # None /\ client'.conn = client.conn /\ (todo' = todo \/ todo' = Tail(todo))
          /\ client'.gone = client.gone /\ client'.closing = client.closing
          /\ client'.reading = client.reading /\ UNCHANGED status
      BY <1>20, <2>7, FrontWritten
    <3> QED
      BY <2>1, <2>7, <3>1, ClosingServing
  <2> QED
    BY <2>3, <2>4, <2>5, <2>6, <2>7
<1>21. CASE read_client
  <2>1. Running("read_client") /\ UNCHANGED <<client, status, sent, acted, ended>>
    BY <1>21 DEF read_client
  <2>2. CASE client = None
    <3>1. todo' = Tail(todo)
      BY <1>21, <2>2 DEF read_client, Return
    <3> QED
      BY <2>1, <3>1, ClosingServing
  <2>3. CASE client # None
    <3> DEFINE x == IF Outcome(client.conn, RECEIVE_LIMIT) = "Ended" THEN Do("close_client")
                                                                    ELSE Do("act_on_buffered")
    <3>1. todo' = Cons(x, Tail(todo))
      BY <1>21, <2>3 DEF read_client, Call, Cons
    <3>2. x \in Entry /\ x.op \in {"close_client", "act_on_buffered"}
      BY EntryType DEF Ops
    <3> HIDE DEF x
    <3> QED
      BY <2>1, <3>1, <3>2, ClosingServing
  <2> QED
    BY <2>2, <2>3
<1>22. CASE close_client
  <2>1. CASE client = None
    <3>1. Running("close_client") /\ todo' = Tail(todo) /\ UNCHANGED <<client, status, sent, acted, ended>>
      BY <1>22, <2>1 DEF close_client, Return
    <3> QED
      BY <3>1, ClosingServing
  <2>2. CASE client # None
    BY <1>22, <2>2, ClosingClose
  <2> QED
    BY <2>1, <2>2
<1>23. CASE close_receive
  BY <1>23, ClosingReceive
<1>24. CASE act_on_buffered
  BY <1>24, ClosingActed
<1>25. CASE close_drop
  BY <1>25, ClosingDrop
<1>26. CASE handle_malformed
  BY <1>26, ClosingMalformed
<1>27. CASE handle_hello
  <2>1. /\ Handling /\ TakeFrame /\ NextFrame \in {"Hello"}
        /\ UNCHANGED <<todo, sent, received, peer, ended, status>>
    BY <1>27 DEF handle_hello, Acting, Handling
  <2>2. client # None /\ ~ client.closing
    BY <2>1, FrameFound
  <2>3. /\ client' # None /\ client'.conn = client.conn /\ client'.gone = client.gone
        /\ client'.reading = FALSE
    <3>1. client' = end_connection(client, "Error")
      BY <1>27 DEF handle_hello, refuse_client
    <3> QED
      BY <2>1, <3>1, Ended DEF LastFrames
  <2> QED
    BY <2>1, <2>2, <2>3, ClosingTakes
<1>28. CASE handle_info_snapshot
  <2>1. /\ Handling /\ TakeFrame /\ NextFrame \in {"Info", "Snapshot"}
        /\ UNCHANGED <<todo, sent, received, peer, ended, status>>
    BY <1>28 DEF handle_info_snapshot, Acting, Handling
  <2>2. client # None /\ ~ client.closing
    BY <2>1, FrameFound
  <2>3. /\ client' # None /\ client'.conn = client.conn /\ client'.gone = client.gone
        /\ client'.reading = client.reading /\ client'.closing = client.closing
    BY <1>28, Answered DEF SameClient
  <2> QED
    BY <2>1, <2>2, <2>3, ClosingTakes
<1>29. CASE handle_read
  <2>1. /\ Handling /\ TakeFrame /\ NextFrame \in {"Read"}
        /\ UNCHANGED <<todo, sent, received, peer, ended, status>>
    BY <1>29 DEF handle_read, Acting, Handling
  <2>2. client # None /\ ~ client.closing
    BY <2>1, FrameFound
  <2>3. /\ client' # None /\ client'.conn = client.conn /\ client'.gone = client.gone
        /\ client'.closing => client.reading
    <3>1. CASE client.reading
      <4>1. client' = end_connection(client, "Error")
        BY <1>29, <3>1 DEF handle_read, refuse_client
      <4>2. client' # None /\ client'.conn = client.conn /\ client'.gone = client.gone
        BY <2>1, <4>1, Ended DEF LastFrames
      <4> QED
        BY <3>1, <4>2
    <3>2. CASE ~ client.reading
      BY <1>29, <2>2, <3>2, ReadTaken
    <3> QED
      BY <3>1, <3>2
  <2> QED
    BY <2>1, <2>2, <2>3, ClosingTakes
<1>30. CASE handle_input
  <2>1. /\ Handling /\ TakeFrame /\ NextFrame \in {"Input"}
        /\ UNCHANGED <<todo, sent, received, peer, ended, status>>
    BY <1>30 DEF handle_input, Acting, Handling
  <2>2. client # None /\ ~ client.closing
    BY <2>1, FrameFound
  <2>3. /\ client' # None /\ client'.conn = client.conn /\ client'.gone = client.gone
        /\ client'.reading = client.reading /\ client'.closing = client.closing
    BY <1>30, InputTaken DEF SameClient
  <2> QED
    BY <2>1, <2>2, <2>3, ClosingTakes
<1>31. CASE handle_resize
  <2>1. /\ Handling /\ TakeFrame /\ NextFrame \in {"Resize"}
        /\ UNCHANGED <<todo, sent, received, peer, ended, status>>
    BY <1>31 DEF handle_resize, Acting, Handling
  <2>2. client # None /\ ~ client.closing
    BY <2>1, FrameFound
  <2>3. client' = client
    BY <1>31 DEF handle_resize
  <2> QED
    BY <2>1, <2>2, <2>3, ClosingTakes
<1>32. CASE handle_shutdown
  <2>1. /\ Handling /\ TakeFrame /\ NextFrame = "Shutdown" /\ ended' = "Shutdown"
        /\ UNCHANGED <<todo, sent, received, peer>>
    BY <1>32 DEF handle_shutdown, Acting, Handling
  <2>2. /\ client' # None /\ client'.conn = client.conn /\ client'.gone = client.gone
        /\ client'.reading = FALSE
    <3>1. client' = end_connection(client, "Goodbye")
      BY <1>32 DEF handle_shutdown
    <3> QED
      BY <2>1, <3>1, Ended DEF LastFrames
  <2>3. \A c \in Conns : status'[c] = "gone" => status[c] = "gone"
    BY <1>32 DEF handle_shutdown
  <2> QED
    BY <2>1, <2>2, <2>3, ClosingTakes
<1>33. CASE read_pending
  <2> DEFINE c == Head(todo).conn
             got == Received(c, MAX_BEFORE_HELLO)
             outcome == Outcome(c, MAX_BEFORE_HELLO)
             first == sent[c][1]
  <2>1. Running("read_pending") /\ UNCHANGED <<ended, sent>>
    BY <1>33 DEF read_pending
  <2>2. CASE ended # None \/ (got = 0 /\ outcome # "Ended")
    <3>1. todo' = Tail(todo) /\ UNCHANGED <<client, status, acted>>
      BY <1>33, <2>2 DEF read_pending, Return
    <3> QED
      BY <2>1, <3>1, ClosingServing
  <2>3. CASE /\ ended = None
             /\ \/ got = 0 /\ outcome = "Ended"
                \/ got # 0 /\ first \in {"NotHello", "HelloZero"}
                \/ got # 0 /\ client # None /\ first # "HelloTakeOver"
    <3>1. todo' = Tail(todo) /\ UNCHANGED <<client, acted>>
          /\ \E fate \in {"rejected", "busy"} : status' = [status EXCEPT ![c] = fate]
      <4>1. CASE got = 0 /\ outcome = "Ended"
        BY <1>33, <2>3, <4>1 DEF read_pending, Waiting, Return
      <4>2. CASE got # 0 /\ first \in {"NotHello", "HelloZero"}
        BY <1>33, <2>3, <4>2 DEF read_pending, Waiting, Return
      <4>3. CASE got # 0 /\ first \notin {"NotHello", "HelloZero"} /\ client # None /\ first # "HelloTakeOver"
        BY <1>33, <2>3, <4>3 DEF read_pending, Waiting, Return
      <4> HIDE DEF got, outcome, first
      <4> QED
        BY <2>3, <4>1, <4>2, <4>3
    <3>2. \A d \in Conns : status'[d] = "gone" => status[d] = "gone"
      BY <3>1 DEF TypeOK
    <3> QED
      BY <2>1, <3>1, <3>2, ClosingServing
  <2>4. CASE ended = None /\ got # 0 /\ first \notin {"NotHello", "HelloZero"}
             /\ (client # None => first = "HelloTakeOver")
    <3> DEFINE x == IF outcome = "Ended" THEN Do("close_client") ELSE Do("act_on_buffered")
    <3>1. /\ client' = NewClient(c)
          /\ status' = [d \in Conns |-> IF d = c THEN "client"
                                        ELSE IF status[d] = "client" THEN "displaced"
                                        ELSE status[d]]
          /\ acted' = [acted EXCEPT ![c] = 1]
      BY <1>33, <2>4 DEF read_pending
    <3>2. todo' = Cons(x, Tail(todo))
      BY <1>33, <2>4 DEF read_pending, Call, Cons
    <3>3. x \in Entry /\ x.op \in {"close_client", "act_on_buffered"}
      BY EntryType DEF Ops
    <3>4. c \in Conns
      BY <1>33, <2>4, WaitingIs
    <3> HIDE DEF x
    <3>5. "close_drop" \notin OpsOf(todo')
      BY <2>1, <3>2, <3>3, NoCloseServing
    <3>6. status'[c] = "client" /\ \A d \in Conns : status'[d] = "gone" => status[d] = "gone"
      BY <3>1, <3>4
    <3> HIDE DEF c
    <3> QED
      BY <2>1, <3>1, <3>4, <3>5, <3>6, ClosingAdmits
  <2> HIDE DEF c, got, outcome, first
  <2> QED
    BY <2>2, <2>3, <2>4
<1>34. CASE expire_pending
  <2>1. Running("expire_pending") /\ todo' = Tail(todo) /\ UNCHANGED <<client, sent, acted, ended>>
    BY <1>34 DEF expire_pending, Return
  <2>2. \A c \in Conns : status'[c] = "gone" => status[c] = "gone"
    BY <1>34 DEF expire_pending
  <2> QED
    BY <2>1, <2>2, ClosingServing
<1>35. CASE accept
  <2> DEFINE x == Accept(Head(todo).n - 1)
             stop == ended # None \/ Head(todo).n = 0 \/ backlog = <<>> \/ ~ descriptors
  <2>1. Running("accept") /\ UNCHANGED <<client, sent, acted, ended>>
    BY <1>35 DEF accept
  <2>2. CASE stop
    <3>1. todo' = Tail(todo) /\ UNCHANGED status
      BY <1>35, <2>2 DEF accept, Return
    <3> QED
      BY <2>1, <3>1, ClosingServing
  <2>3. CASE ~ stop
    <3>1. todo' = Cons(x, Tail(todo))
      BY <1>35, <2>3 DEF accept, Call, Cons
    <3>2. \A c \in Conns : status'[c] = "gone" => status[c] = "gone"
      BY <1>35, <2>3 DEF accept
    <3>3. x \in Entry /\ x.op = "accept"
      <4>1. todo # <<>> /\ todo \in Seq(Entry)
        BY <2>1 DEF Running, AgendaOK
      <4>2. Head(todo) \in Entry
        BY <4>1
      <4>3. Head(todo).n \in Nat /\ Head(todo).n # 0
        BY <2>3, <4>2 DEF Entry
      <4> QED
        BY <4>3, EntryType DEF Ops, Accept, Entry
    <3> HIDE DEF x
    <3> QED
      BY <2>1, <3>1, <3>2, <3>3, ClosingServing
  <2> HIDE DEF stop
  <2> QED
    BY <2>2, <2>3
<1>36. CASE \E c \in Conns : connect(c)
  <2>1. PICK c \in Conns : connect(c)
    BY <1>36
  <2>2. UNCHANGED <<todo, client, sent, received, acted, ended, peer>>
    BY <2>1 DEF connect
  <2>3. \A d \in Conns : status'[d] = "gone" => status[d] = "gone"
    <3>1. status' = [status EXCEPT ![c] = "backlog"]
      BY <2>1 DEF connect
    <3> QED
      BY <3>1 DEF TypeOK
  <2> QED
    BY <2>2, <2>3, ClosingSame
<1>37. CASE \E c \in Conns : \E frame \in Hellos \cup Frames : peer_sends(c, frame)
  <2>1. PICK c \in Conns, frame \in Hellos \cup Frames : peer_sends(c, frame)
    BY <1>37
  <2> QED
    BY <2>1, ClosingSend
<1>38. CASE \E c \in Conns : \E how \in {"half", "closed"} : peer_closes(c, how)
  <2>1. PICK c \in Conns : \E how \in {"half", "closed"} : peer_closes(c, how)
    BY <1>38
  <2>2. PICK how \in {"half", "closed"} : peer' = [peer EXCEPT ![c] = how]
    BY <2>1 DEF peer_closes
  <2>3. UNCHANGED <<todo, client, status, sent, received, acted, ended>>
    BY <2>1 DEF peer_closes
  <2>4. \A d \in Conns : peer[d] # "open" => peer'[d] # "open"
    BY <2>2 DEF TypeOK
  <2>5. client # None => client.conn \in Conns
    BY ClientType DEF TypeOK
  <2> QED
    BY <2>3, <2>4, <2>5, ClosingSame
<1> QED
  BY <1>1, <1>2, <1>3, <1>4, <1>5, <1>6, <1>7, <1>8, <1>9, <1>10, <1>11, <1>12, <1>13, <1>14, <1>15, <1>16, <1>17, <1>18, <1>19, <1>20, <1>21, <1>22, <1>23, <1>24, <1>25, <1>26, <1>27, <1>28, <1>29, <1>30, <1>31, <1>32, <1>33, <1>34, <1>35, <1>36, <1>37, <1>38 DEF Next, HostStep, EnvironmentStep

-----------------------------------------------------------------------------
(* What the client was told.                                               *)

\* How many Inputs are among the first n frames of s.
InputsAt(s, n) == Cardinality({i \in 2 .. n : s[i] = "Input"})

\* What was sent of input was dealt with, or is pending.
Balanced(cl, s, n) ==
    cl.written + cl.discarded + INPUT_LEN * Len(cl.input) = INPUT_LEN * InputsAt(s, n)

\* A journal that goes on where another ends.
Extends(j, k) == Len(j) <= Len(k) /\ \A i \in 1 .. Len(j) : k[i] = j[i]

LEMMA InputsAtType ==
    ASSUME NEW s, NEW n \in Nat
    PROVE  IsFiniteSet({i \in 2 .. n : s[i] = "Input"}) /\ InputsAt(s, n) \in Nat
<1> DEFINE S == {i \in 2 .. n : s[i] = "Input"}
<1>1. IsFiniteSet(2 .. n) /\ S \subseteq 2 .. n
  BY FS_Interval
<1> HIDE DEF S
<1>2. IsFiniteSet(S)
  BY <1>1, FS_Subset
<1>3. Cardinality(S) \in Nat
  BY <1>2, FS_CardinalityType
<1> QED
  BY <1>2, <1>3 DEF S, InputsAt

LEMMA InputsAtNext ==
    ASSUME NEW s, NEW n \in Nat, n >= 1
    PROVE  InputsAt(s, n + 1) = IF s[n + 1] = "Input" THEN InputsAt(s, n) + 1 ELSE InputsAt(s, n)
<1> DEFINE S == {i \in 2 .. n : s[i] = "Input"}
           T == {i \in 2 .. (n + 1) : s[i] = "Input"}
           x == n + 1
<1>1. IsFiniteSet(S) /\ InputsAt(s, n) = Cardinality(S) /\ InputsAt(s, n + 1) = Cardinality(T)
  BY InputsAtType DEF InputsAt
<1>2. x \notin S
  OBVIOUS
<1>3. CASE s[n + 1] = "Input"
  <2>1. T = S \cup {x}
    BY <1>3
  <2> HIDE DEF S, T, x
  <2>2. Cardinality(S \cup {x}) = Cardinality(S) + 1
    BY <1>1, <1>2, FS_AddElement
  <2> QED
    BY <1>1, <1>3, <2>1, <2>2
<1>4. CASE s[n + 1] # "Input"
  <2>1. T = S
    BY <1>4
  <2> QED
    BY <1>1, <1>4, <2>1
<1> QED
  BY <1>3, <1>4

LEMMA InputsAtSame ==
    ASSUME NEW s, NEW t, NEW n \in Nat, \A i \in 2 .. n : t[i] = s[i]
    PROVE  InputsAt(t, n) = InputsAt(s, n)
<1>1. {i \in 2 .. n : s[i] = "Input"} = {i \in 2 .. n : t[i] = "Input"}
  OBVIOUS
<1> QED
  BY <1>1 DEF InputsAt

LEMMA InputsAtFirst ==
    ASSUME NEW s
    PROVE  InputsAt(s, 1) = 0
<1>1. {i \in 2 .. 1 : s[i] = "Input"} = {}
  OBVIOUS
<1> QED
  BY <1>1, FS_EmptySet DEF InputsAt

LEMMA BalanceIs ==
    ASSUME NEW cl \in Clients, NEW s, NEW n \in Nat
    PROVE  Balanced(cl, s, n) <=>
               cl.written + cl.discarded = INPUT_LEN * (InputsAt(s, n) - Len(cl.input))
<1> DEFINE a == InputsAt(s, n)
           b == Len(cl.input)
           w == cl.written + cl.discarded
<1>1. a \in Nat /\ b \in Nat /\ w \in Nat /\ INPUT_LEN \in Nat
  <2>1. cl.input \in Seq(Written) /\ cl.written \in Nat /\ cl.discarded \in Nat
    BY ClientType
  <2>2. a \in Nat
    BY InputsAtType
  <2> QED
    BY <2>1, <2>2, HostConstants
<1>2. Balanced(cl, s, n) <=> w + INPUT_LEN * b = INPUT_LEN * a
  BY DEF Balanced
<1> HIDE DEF a, b, w
<1>3. INPUT_LEN * (a - b) = INPUT_LEN * a - INPUT_LEN * b /\ INPUT_LEN * a \in Nat /\ INPUT_LEN * b \in Nat
  BY <1>1
<1>4. w + INPUT_LEN * b = INPUT_LEN * a <=> w = INPUT_LEN * (a - b)
  BY <1>1, <1>3
<1> QED
  BY <1>2, <1>4 DEF a, b, w

\* Served, said with them.
LEMMA ServedIs ==
    ASSUME TypeOK, client # None
    PROVE  Served <=>
               /\ ClientOK(client)
               /\ ~ client.closing /\ ~ client.gone =>
                      Balanced(client, sent[client.conn], acted[client.conn])
               /\ client.cursor <= Len(journal)
               /\ ~ client.closing /\ ~ client.gone =>
                      \A i \in 1 .. client.record : journal[i] \in {"child", "other"} => delivered_end >= i
<1> DEFINE s == sent[client.conn]
           n == acted[client.conn]
<1>1. client \in Clients /\ n \in Nat
  BY ClientType DEF TypeOK
<1>2. InputsActedOn(client.conn) = InputsAt(s, n)
  BY DEF InputsActedOn, InputsAt
<1> HIDE DEF s, n
<1>3. Balanced(client, s, n) <=>
          client.written + client.discarded = INPUT_LEN * (InputsAt(s, n) - Len(client.input))
  BY <1>1, BalanceIs
<1> DEFINE B == Balanced(client, s, n)
           E == client.written + client.discarded = INPUT_LEN * (InputsAt(s, n) - Len(client.input))
           D == \A i \in 1 .. client.record : journal[i] \in {"child", "other"} => delivered_end >= i
           K == client.cursor <= Len(journal)
           O == ClientOK(client)
           P == ~ client.closing /\ ~ client.gone
<1>4. Served <=> (O /\ (P => E) /\ K /\ (P => D))
  BY <1>2 DEF Served
<1>5. B <=> E
  BY <1>3
<1>6. (/\ O /\ (P => B) /\ K /\ (P => D)) <=>
               (/\ ClientOK(client)
                /\ ~ client.closing /\ ~ client.gone =>
                      Balanced(client, sent[client.conn], acted[client.conn])
                /\ client.cursor <= Len(journal)
                /\ ~ client.closing /\ ~ client.gone =>
                      \A i \in 1 .. client.record : journal[i] \in {"child", "other"} => delivered_end >= i)
  BY DEF s, n
<1> HIDE DEF B, E, D, K, O, P
<1>7. Served <=> (O /\ (P => B) /\ K /\ (P => D))
  BY <1>4, <1>5
<1> QED
  BY <1>6, <1>7

\* And in the next state.
LEMMA ServedThen ==
    ASSUME client' # None =>
               /\ ClientOK(client')
               /\ acted'[client'.conn] \in Nat
               /\ ~ client'.closing /\ ~ client'.gone =>
                      Balanced(client', sent'[client'.conn], acted'[client'.conn])
               /\ client'.cursor <= Len(journal')
               /\ ~ client'.closing /\ ~ client'.gone =>
                      \A i \in 1 .. client'.record : journal'[i] \in {"child", "other"} => delivered_end' >= i
    PROVE  Served'
<1> SUFFICES ASSUME client' # None PROVE Served'
  BY DEF Served
<1> DEFINE r == client'
           s == sent'[client'.conn]
           n == acted'[client'.conn]
<1>1. r \in Clients /\ n \in Nat
  BY DEF ClientOK
<1>2. InputsActedOn(client.conn)' = InputsAt(s, n)
  BY DEF InputsActedOn, InputsAt
<1> HIDE DEF r, s, n
<1>3. Balanced(r, s, n) <=> r.written + r.discarded = INPUT_LEN * (InputsAt(s, n) - Len(r.input))
  BY <1>1, BalanceIs
<1>4. ~ r.closing /\ ~ r.gone => r.written + r.discarded = INPUT_LEN * (InputsAt(s, n) - Len(r.input))
  BY <1>3 DEF r, s, n
<1>5. ~ client'.closing /\ ~ client'.gone =>
          client'.written + client'.discarded = INPUT_LEN * (InputsActedOn(client.conn)' - Len(client'.input))
  BY <1>2, <1>4 DEF r
<1> QED
  BY <1>5 DEF Served

LEMMA ExtendsType ==
    ASSUME TypeOK
    PROVE  /\ Len(journal) \in Nat
           /\ Extends(journal, journal)
           /\ \A kind : Extends(journal, Append(journal, kind))
<1>1. journal \in Seq({"child", "other", "resized", "exited", "exited_early"}) /\ Len(journal) \in Nat
  BY DEF TypeOK
<1> QED
  BY <1>1 DEF Extends

\* The client moves on.
LEMMA ServedMoves ==
    ASSUME TypeOK, Served, client # None, client' # None, ClientOK(client'), client'.conn = client.conn,
           acted'[client.conn] \in Nat,
           client'.cursor <= Len(journal'), Extends(journal, journal'),
           delivered_end' \in Nat, delivered_end' >= delivered_end,
           ~ client'.closing /\ ~ client'.gone =>
               /\ ~ client.closing /\ ~ client.gone
               /\ Balanced(client', sent'[client.conn], acted'[client.conn])
               /\ \/ client'.record = client.record
                  \/ /\ client'.record = client.record + 1 /\ client'.record <= client.cursor
                     /\ journal[client'.record] \in {"child", "other"} => delivered_end' >= client'.record
    PROVE  Served'
<1> DEFINE old == delivered_end
           new == delivered_end'
           r == client.record
           r1 == client'.record
           j == journal
           j1 == journal'
           l == Len(journal)
           l1 == Len(journal')
           cursor == client.cursor
<1>1. /\ client \in Clients /\ cursor <= l /\ Queue(client) /\ Records(client)
  BY DEF Served, ClientOK
<1>2. /\ r \in Nat /\ cursor \in Nat /\ old \in Nat /\ l \in Nat
  BY <1>1, ClientType, ExtendsType DEF TypeOK
<1>3. l <= l1 /\ \A i \in 1 .. l : j1[i] = j[i]
  BY DEF Extends
<1> SUFFICES ASSUME ~ client'.closing, ~ client'.gone
             PROVE  \A i \in 1 .. r1 : j1[i] \in {"child", "other"} => new >= i
  BY ServedThen
<1>4. r <= cursor
  <2> DEFINE records == OfKind(client.outgoing, {"Record"})
             n == Len(records)
  <2>1. cursor = r + n
    BY <1>1 DEF Records, Streamed
  <2>2. records \in Seq(Framed)
    BY <1>1, ClientType, OfKindType
  <2>3. n \in Nat
    BY <2>2
  <2> HIDE DEF records, n, cursor, r
  <2> QED
    BY <1>2, <2>1, <2>3
<1>5. \A i \in 1 .. r : j[i] \in {"child", "other"} => old >= i
  BY DEF Served
<1>6. new \in Nat /\ new >= old
  OBVIOUS
<1>7. r1 = r \/ (r1 = r + 1 /\ r1 <= cursor /\ (j[r1] \in {"child", "other"} => new >= r1))
  OBVIOUS
<1> HIDE DEF old, new, r, r1, j, j1, l, l1, cursor
<1>8. cursor <= l
  BY <1>1
<1>9. \A i \in 1 .. r : i \in 1 .. l
  BY <1>2, <1>4, <1>8
<1>10. \A i \in 1 .. r : j1[i] \in {"child", "other"} => new >= i
  <2> SUFFICES ASSUME NEW i \in 1 .. r, j1[i] \in {"child", "other"} PROVE new >= i
    OBVIOUS
  <2>1. j1[i] = j[i]
    BY <1>3, <1>9
  <2>2. old >= i
    BY <1>5, <2>1
  <2> QED
    BY <1>2, <1>6, <2>2
<1>11. CASE r1 = r
  BY <1>10, <1>11
<1>12. CASE r1 = r + 1 /\ r1 <= cursor /\ (j[r1] \in {"child", "other"} => new >= r1)
  <2> SUFFICES ASSUME NEW i \in 1 .. r1, j1[i] \in {"child", "other"} PROVE new >= i
    OBVIOUS
  <2>1. CASE i \in 1 .. r
    BY <1>10, <2>1
  <2>2. CASE i = r1
    <3>1. r1 \in 1 .. l
      BY <1>2, <1>8, <1>12
    <3>2. j1[r1] = j[r1]
      BY <1>3, <3>1
    <3> QED
      BY <1>12, <2>2, <3>2
  <2> QED
    BY <1>2, <1>12, <2>1, <2>2
<1> QED
  BY <1>7, <1>11, <1>12

\* The client stays as it is.
LEMMA ServedUnmoved ==
    ASSUME TypeOK, Served, UNCHANGED <<client, sent, acted, delivered_end>>, Extends(journal, journal')
    PROVE  Served'
<1> SUFFICES ASSUME client # None PROVE Served'
  BY DEF Served
<1>1. /\ ClientOK(client) /\ client.cursor <= Len(journal)
      /\ ~ client.closing /\ ~ client.gone =>
             Balanced(client, sent[client.conn], acted[client.conn])
  BY ServedIs
<1>2. client \in Clients /\ client.conn \in Conns /\ acted[client.conn] \in Nat /\ delivered_end \in Nat
      /\ client.cursor \in Nat
  BY <1>1, ClientType DEF ClientOK, TypeOK
<1>3. client.cursor <= Len(journal')
  <2> DEFINE a == client.cursor
             b == Len(journal)
             c == Len(journal')
  <2>1. a \in Nat /\ b \in Nat /\ a <= b /\ b <= c
    BY <1>1, <1>2, ExtendsType DEF Extends
  <2>2. c \in Nat
    BY <2>1
  <2> HIDE DEF a, b, c
  <2>3. a <= c
    BY <2>1, <2>2
  <2> QED
    BY <2>3 DEF a, c
<1>4. delivered_end' \in Nat /\ delivered_end' >= delivered_end
  BY <1>2
<1>5. acted'[client.conn] \in Nat
  BY <1>2
<1>6. client' # None /\ ClientOK(client') /\ client'.conn = client.conn /\ client'.cursor <= Len(journal')
  BY <1>1, <1>3
<1>7. ~ client'.closing /\ ~ client'.gone =>
          /\ ~ client.closing /\ ~ client.gone
          /\ Balanced(client', sent'[client.conn], acted'[client.conn])
          /\ client'.record = client.record
  BY <1>1
<1> QED
  BY <1>4, <1>5, <1>6, <1>7, ServedMoves

\* A frame is taken.
LEMMA ServedTakes ==
    ASSUME TypeOK, Connections, Served, Handling, TakeFrame, UNCHANGED <<sent, delivered_end>>,
           Extends(journal, journal'), Len(journal') \in Nat,
           client' # None, ClientOK(client'), client'.conn = client.conn, client'.cursor = client.cursor,
           ~ client'.closing /\ ~ client'.gone =>
               /\ ~ client.gone /\ client'.record = client.record
               /\ client'.written = client.written /\ client'.discarded = client.discarded
               /\ Len(client'.input) = Len(client.input) + (IF NextFrame = "Input" THEN 1 ELSE 0)
    PROVE  Served'
<1> DEFINE c == client.conn
           s == sent[c]
           n == acted[c]
<1>1. client # None /\ ~ client.closing /\ c \in Conns /\ n \in Nat /\ n >= 1
  BY FrameFound
<1>2. acted'[c] = n + 1
  BY <1>1 DEF TakeFrame, TypeOK
<1>3. /\ ClientOK(client) /\ client \in Clients /\ client.cursor <= Len(journal)
      /\ ~ client.gone => Balanced(client, s, n)
  BY <1>1, ServedIs DEF ClientOK
<1>4. client'.cursor <= Len(journal')
  <2> DEFINE a == client.cursor
             b == Len(journal)
             d == Len(journal')
  <2>1. a \in Nat /\ b \in Nat /\ d \in Nat /\ a <= b /\ b <= d /\ client'.cursor = a
    BY <1>3, ClientType, ExtendsType DEF Extends
  <2> HIDE DEF a, b, d
  <2>2. a <= d
    BY <2>1
  <2> QED
    BY <2>1, <2>2 DEF d
<1>5. NextFrame = s[n + 1]
  BY DEF NextFrame
<1> HIDE DEF n, s
<1>6. ~ client'.closing /\ ~ client'.gone => Balanced(client', s, n + 1)
  <2> SUFFICES ASSUME ~ client'.closing, ~ client'.gone PROVE Balanced(client', s, n + 1)
    OBVIOUS
  <2> DEFINE w == client.written + client.discarded
             k == Len(client.input)
             k1 == Len(client'.input)
             a == InputsAt(s, n)
             a1 == InputsAt(s, n + 1)
  <2>1. w + INPUT_LEN * k = INPUT_LEN * a
    BY <1>3 DEF Balanced
  <2>2. k1 = k + (IF s[n + 1] = "Input" THEN 1 ELSE 0) /\ client'.written + client'.discarded = w
    BY <1>5
  <2>3. a1 = IF s[n + 1] = "Input" THEN a + 1 ELSE a
    BY <1>1, InputsAtNext
  <2>4. a \in Nat
    BY <1>1, InputsAtType
  <2>5. w \in Nat /\ k \in Nat /\ INPUT_LEN \in Nat
    <3>1. client.input \in Seq(Written) /\ client.written \in Nat /\ client.discarded \in Nat
      BY <1>3, ClientType
    <3> QED
      BY <3>1, HostConstants
  <2>6. SUFFICES w + INPUT_LEN * k1 = INPUT_LEN * a1
    BY <2>2 DEF Balanced
  <2> HIDE DEF w, k, k1, a, a1
  <2>7. INPUT_LEN * (k + 1) = INPUT_LEN * k + INPUT_LEN /\ INPUT_LEN * (a + 1) = INPUT_LEN * a + INPUT_LEN
        /\ INPUT_LEN * k \in Nat /\ INPUT_LEN * a \in Nat
    BY <2>4, <2>5
  <2>8. CASE s[n + 1] = "Input"
    <3>1. k1 = k + 1 /\ a1 = a + 1
      BY <2>2, <2>3, <2>8
    <3> QED
      BY <2>1, <2>5, <2>7, <3>1
  <2>9. CASE s[n + 1] # "Input"
    <3>1. k1 = k /\ a1 = a
      BY <2>2, <2>3, <2>5, <2>9
    <3> QED
      BY <2>1, <3>1
  <2> QED
    BY <2>8, <2>9
<1>7. delivered_end' \in Nat /\ delivered_end' >= delivered_end
  BY DEF TypeOK
<1>8. sent'[c] = s
  BY DEF s
<1>9. ~ client'.closing /\ ~ client'.gone =>
          /\ ~ client.closing /\ ~ client.gone
          /\ Balanced(client', sent'[client.conn], acted'[client.conn])
          /\ client'.record = client.record
  BY <1>1, <1>2, <1>6, <1>8
<1>10. acted'[client.conn] \in Nat
  BY <1>1, <1>2
<1> QED
  BY <1>1, <1>4, <1>7, <1>9, <1>10, ServedMoves

\* A client that is new was told nothing yet.
LEMMA ServedAdmits ==
    ASSUME TypeOK, NEW c \in Conns, client' = NewClient(c), acted' = [acted EXCEPT ![c] = 1],
           UNCHANGED journal
    PROVE  Served'
<1> DEFINE r == NewClient(c)
           s == sent'[c]
<1>1. /\ ClientOK(r) /\ r.conn = c /\ r.cursor = 0 /\ r.record = 0 /\ r.input = <<>>
      /\ r.written = 0 /\ r.discarded = 0
  BY ClientIsNew
<1>2. acted'[c] = 1
  BY DEF TypeOK
<1>3. Len(journal') \in Nat
  BY ExtendsType
<1>4. INPUT_LEN \in Nat
  BY HostConstants
<1> HIDE DEF r, s
<1>5. Balanced(r, s, 1)
  <2>1. InputsAt(s, 1) = 0
    BY InputsAtFirst
  <2>2. Len(r.input) = 0
    BY <1>1
  <2> QED
    BY <1>1, <1>4, <2>1, <2>2 DEF Balanced
<1>6. \A i \in 1 .. r.record : journal'[i] \in {"child", "other"} => delivered_end' >= i
  BY <1>1
<1>7. client' = r
  BY DEF r
<1>8. r.cursor <= Len(journal')
  BY <1>1, <1>3
<1>9. /\ ClientOK(client')
      /\ acted'[client'.conn] \in Nat
      /\ Balanced(client', sent'[client'.conn], acted'[client'.conn])
      /\ client'.cursor <= Len(journal')
      /\ \A i \in 1 .. client'.record : journal'[i] \in {"child", "other"} => delivered_end' >= i
  BY <1>1, <1>2, <1>5, <1>6, <1>7, <1>8 DEF s
<1> QED
  BY <1>9, ServedThen

\* Input is dealt with, or frames are written.
LEMMA ServedGoesOn ==
    ASSUME TypeOK, Served, client # None, client' # None, ClientOK(client'),
           client'.conn = client.conn, client'.closing = client.closing, client'.gone = client.gone,
           SameTotal(client', client), UNCHANGED <<sent, acted>>,
           client'.cursor <= Len(journal'), Extends(journal, journal'),
           delivered_end' \in Nat, delivered_end' >= delivered_end,
           ~ client.closing /\ ~ client.gone =>
                  \/ client'.record = client.record
                  \/ /\ client'.record = client.record + 1 /\ client'.record <= client.cursor
                     /\ journal[client'.record] \in {"child", "other"} => delivered_end' >= client'.record
    PROVE  Served'
<1> DEFINE c == client.conn
           s == sent[c]
           n == acted[c]
           R == \/ client'.record = client.record
                \/ /\ client'.record = client.record + 1 /\ client'.record <= client.cursor
                   /\ journal[client'.record] \in {"child", "other"} => delivered_end' >= client'.record
<1>1. ~ client.closing /\ ~ client.gone => Balanced(client, s, n)
  BY ServedIs
<1>2. c \in Conns /\ n \in Nat
  BY ClientType DEF TypeOK
<1>3. sent'[client.conn] = s /\ acted'[client.conn] = n
  OBVIOUS
<1> HIDE DEF s, n
<1>4. Balanced(client, s, n) => Balanced(client', s, n)
  BY DEF Balanced, SameTotal
<1>5. ~ client.closing /\ ~ client.gone => R
  OBVIOUS
<1> HIDE DEF R
<1>6. ~ client'.closing /\ ~ client'.gone =>
          /\ ~ client.closing /\ ~ client.gone
          /\ Balanced(client', sent'[client.conn], acted'[client.conn])
          /\ R
  BY <1>1, <1>3, <1>4, <1>5
<1>7. acted'[client.conn] \in Nat
  BY <1>2, <1>3
<1> QED
  BY <1>6, <1>7, ServedMoves DEF R

\* What the client was told, whatever happens.
LEMMA ServedStep ==
    ASSUME TypeOK, AgendaOK(todo), Connections, Closing, Served, [Next]_vars
    PROVE  Served'
<1> USE DEF Environment, hostVars, connVars, kernelVars
<1>0. Extends(journal, journal) /\ Len(journal) \in Nat /\ \A kind : Extends(journal, Append(journal, kind))
  BY ExtendsType
<1>1. CASE step_terminated
  <2>1. UNCHANGED <<client, sent, acted, delivered_end, journal>>
    BY <1>1 DEF step_terminated
  <2> QED
    BY <1>0, <2>1, ServedUnmoved
<1>2. CASE drain_signal_pipe
  <2>1. UNCHANGED <<client, sent, acted, delivered_end, journal>>
    BY <1>2 DEF drain_signal_pipe
  <2> QED
    BY <1>0, <2>1, ServedUnmoved
<1>3. CASE reap_child
  <2>1. UNCHANGED <<client, sent, acted, delivered_end, journal>>
    BY <1>3 DEF reap_child
  <2> QED
    BY <1>0, <2>1, ServedUnmoved
<1>4. CASE read_client
  <2>1. UNCHANGED <<client, sent, acted, delivered_end, journal>>
    BY <1>4 DEF read_client
  <2> QED
    BY <1>0, <2>1, ServedUnmoved
<1>5. CASE close_receive
  <2>1. UNCHANGED <<client, sent, acted, delivered_end, journal>>
    BY <1>5 DEF close_receive
  <2> QED
    BY <1>0, <2>1, ServedUnmoved
<1>6. CASE act_on_buffered
  <2>1. UNCHANGED <<client, sent, acted, delivered_end, journal>>
    BY <1>6 DEF act_on_buffered
  <2> QED
    BY <1>0, <2>1, ServedUnmoved
<1>7. CASE expire_pending
  <2>1. UNCHANGED <<client, sent, acted, delivered_end, journal>>
    BY <1>7 DEF expire_pending
  <2> QED
    BY <1>0, <2>1, ServedUnmoved
<1>8. CASE accept
  <2>1. UNCHANGED <<client, sent, acted, delivered_end, journal>>
    BY <1>8 DEF accept
  <2> QED
    BY <1>0, <2>1, ServedUnmoved
<1>9. CASE poll \/ poll_interrupted
  <2>1. UNCHANGED <<client, sent, acted, delivered_end, journal>>
    BY <1>9 DEF poll, poll_interrupted
  <2> QED
    BY <1>0, <2>1, ServedUnmoved
<1>10. CASE UNCHANGED vars
  <2>1. UNCHANGED <<client, sent, acted, delivered_end, journal>>
    BY <1>10 DEF vars
  <2> QED
    BY <1>0, <2>1, ServedUnmoved
<1>11. CASE \E c \in Conns : connect(c)
  <2>1. UNCHANGED <<client, sent, acted, delivered_end, journal>>
    BY <1>11 DEF connect
  <2> QED
    BY <1>0, <2>1, ServedUnmoved
<1>12. CASE \E c \in Conns : \E how \in {"half", "closed"} : peer_closes(c, how)
  <2>1. UNCHANGED <<client, sent, acted, delivered_end, journal>>
    BY <1>12 DEF peer_closes
  <2> QED
    BY <1>0, <2>1, ServedUnmoved
<1>13. CASE \E c \in Conns : peer_takes(c)
  <2>1. UNCHANGED <<client, sent, acted, delivered_end, journal>>
    BY <1>13 DEF peer_takes
  <2> QED
    BY <1>0, <2>1, ServedUnmoved
<1>14. CASE \E who \in {"child", "other"} : program_writes(who)
  <2>1. UNCHANGED <<client, sent, acted, delivered_end, journal>>
    BY <1>14 DEF program_writes
  <2> QED
    BY <1>0, <2>1, ServedUnmoved
<1>15. CASE program_takes
  <2>1. UNCHANGED <<client, sent, acted, delivered_end, journal>>
    BY <1>15 DEF program_takes
  <2> QED
    BY <1>0, <2>1, ServedUnmoved
<1>16. CASE child_exits
  <2>1. UNCHANGED <<client, sent, acted, delivered_end, journal>>
    BY <1>16 DEF child_exits
  <2> QED
    BY <1>0, <2>1, ServedUnmoved
<1>17. CASE sigterm_arrives
  <2>1. UNCHANGED <<client, sent, acted, delivered_end, journal>>
    BY <1>17 DEF sigterm_arrives
  <2> QED
    BY <1>0, <2>1, ServedUnmoved
<1>18. CASE \E who \in {"child", "other"} : let_go(who)
  <2>1. UNCHANGED <<client, sent, acted, delivered_end, journal>>
    BY <1>18 DEF let_go
  <2> QED
    BY <1>0, <2>1, ServedUnmoved
<1>19. CASE \E d \in {"flush", "drain", "pause"} \cup Conns : deadline_passes(d)
  <2>1. UNCHANGED <<client, sent, acted, delivered_end, journal>>
    BY <1>19 DEF deadline_passes
  <2> QED
    BY <1>0, <2>1, ServedUnmoved
<1>20. CASE descriptors_change
  <2>1. UNCHANGED <<client, sent, acted, delivered_end, journal>>
    BY <1>20 DEF descriptors_change
  <2> QED
    BY <1>0, <2>1, ServedUnmoved
<1>21. CASE finish_drain
  <2>1. UNCHANGED <<client, sent, acted, delivered_end>>
    BY <1>21 DEF finish_drain
  <2>2. Extends(journal, journal')
    <3>1. journal' = journal \/ \E kind : journal' = Append(journal, kind)
      BY <1>21 DEF finish_drain
    <3> QED
      BY <1>0, <3>1
  <2> QED
    BY <2>1, <2>2, ServedUnmoved
<1>22. CASE step_ended
  <2>1. UNCHANGED <<sent, acted, delivered_end, journal>> /\ (client' = None \/ client' = client)
    BY <1>22 DEF step_ended, drop_client
  <2>2. client' = None => Served'
    BY DEF Served
  <2> QED
    BY <1>0, <2>1, <2>2, ServedUnmoved
<1>23. CASE step_begin
  <2>1. UNCHANGED <<sent, acted, delivered_end, journal>> /\ (client' = None \/ client' = client)
    BY <1>23 DEF step_begin, drop_client
  <2>2. client' = None => Served'
    BY DEF Served
  <2> QED
    BY <1>0, <2>1, <2>2, ServedUnmoved
<1>24. CASE close_drop
  <2>1. client' = None
    BY <1>24 DEF close_drop, drop_client
  <2> QED
    BY <2>1 DEF Served
<1>25. CASE read_pty
  <2>1. UNCHANGED <<sent, acted, delivered_end>> /\ delivered_end \in Nat
    BY <1>25 DEF read_pty, TypeOK
  <2>2. Extends(journal, journal') /\ Len(journal') \in Nat
    <3> DEFINE n == IF ~ pty_open THEN 0
                    ELSE IF Len(output) < READ_BUDGET THEN Len(output) ELSE READ_BUDGET
               more == SubSeq(output, 1, n)
               K == {"child", "other", "resized", "exited", "exited_early"}
    <3>1. journal' = Then(journal, more)
      BY <1>25 DEF read_pty, Then
    <3>2. journal \in Seq(K) /\ output \in Seq({"child", "other"}) /\ Len(output) \in Nat
      BY DEF TypeOK
    <3>3. n \in 0 .. Len(output)
      BY <3>2, HostConstants
    <3> HIDE DEF n
    <3>4. more \in Seq({"child", "other"})
      BY <3>2, <3>3, FrontAndRest
    <3> HIDE DEF more
    <3>5. more \in Seq(K)
      BY <3>4
    <3> HIDE DEF K
    <3>6. /\ Then(journal, more) \in Seq(K) /\ Len(Then(journal, more)) = Len(journal) + Len(more)
          /\ \A i \in 1 .. Len(journal) : Then(journal, more)[i] = journal[i]
      BY <3>2, <3>5, ThenAt
    <3>7. Len(more) \in Nat /\ Len(journal) \in Nat
      BY <3>2, <3>5
    <3> QED
      BY <3>1, <3>6, <3>7 DEF Extends
  <2>3. CASE client = None
    <3>1. client' = None
      BY <1>25, <2>3, InputLeft
    <3> QED
      BY <3>1 DEF Served
  <2>4. CASE client # None
    <3>1. /\ ClientOK(client') /\ client' # None
          /\ SameClient(client', client) /\ SameTotal(client', client)
      BY <1>25, <2>4, InputLeft
    <3>2. client.cursor <= Len(journal) /\ client.cursor \in Nat
      BY <2>4, ClientType DEF Served, TypeOK
    <3>3. client'.cursor <= Len(journal')
      <4> DEFINE a == client.cursor
                 b == Len(journal)
                 d == Len(journal')
      <4>1. a \in Nat /\ b \in Nat /\ d \in Nat /\ a <= b /\ b <= d /\ client'.cursor = a
        BY <1>0, <2>2, <3>1, <3>2 DEF Extends, SameClient
      <4> HIDE DEF a, b, d
      <4>2. a <= d
        BY <4>1
      <4> QED
        BY <4>1, <4>2 DEF d
    <3>4. /\ client'.conn = client.conn /\ client'.closing = client.closing /\ client'.gone = client.gone
          /\ client'.record = client.record
      BY <3>1 DEF SameClient
    <3>5. delivered_end' \in Nat /\ delivered_end' >= delivered_end
      BY <2>1
    <3> QED
      BY <2>1, <2>2, <2>4, <3>1, <3>3, <3>4, <3>5, ServedGoesOn
  <2> QED
    BY <2>3, <2>4
<1>26. CASE write_input
  <2>1. UNCHANGED <<sent, acted, delivered_end, journal>> /\ delivered_end \in Nat
    BY <1>26 DEF write_input, TypeOK
  <2>2. Extends(journal, journal')
    BY <1>0, <2>1
  <2>3. CASE client = None
    <3>1. client' = None
      BY <1>26, <2>3, InputLeft
    <3> QED
      BY <3>1 DEF Served
  <2>4. CASE client # None
    <3>1. /\ ClientOK(client') /\ client' # None
          /\ SameClient(client', client) /\ SameTotal(client', client)
      BY <1>26, <2>4, InputLeft
    <3>2. client.cursor <= Len(journal)
      BY <2>4 DEF Served
    <3>3. client'.cursor <= Len(journal')
      BY <2>1, <3>1, <3>2 DEF SameClient
    <3>4. /\ client'.conn = client.conn /\ client'.closing = client.closing /\ client'.gone = client.gone
          /\ client'.record = client.record
      BY <3>1 DEF SameClient
    <3>5. delivered_end' \in Nat /\ delivered_end' >= delivered_end
      BY <2>1
    <3> QED
      BY <2>1, <2>2, <2>4, <3>1, <3>3, <3>4, <3>5, ServedGoesOn
  <2> QED
    BY <2>3, <2>4
<1>27. CASE refill_outgoing
  <2>1. UNCHANGED <<sent, acted, delivered_end, journal>> /\ delivered_end \in Nat
    BY <1>27 DEF refill_outgoing, TypeOK
  <2>2. Extends(journal, journal')
    BY <1>0, <2>1
  <2>3. CASE ~ CanRefill
    <3>1. client' = client
      BY <1>27, <2>3 DEF refill_outgoing
    <3> QED
      BY <2>1, <2>2, <3>1, ServedUnmoved
  <2>4. CASE CanRefill
    <3>1. /\ client # None /\ ClientOK(client') /\ client' # None
          /\ client'.conn = client.conn /\ client'.closing = client.closing /\ client'.gone = client.gone
          /\ client'.record = client.record /\ client'.input = client.input
          /\ client'.written = client.written /\ client'.discarded = client.discarded
          /\ client'.cursor = client.cursor + 1 /\ client.cursor < Len(journal)
      BY <1>27, <2>4, Refilled
    <3>2. client.cursor \in Nat
      BY <3>1, ClientType DEF TypeOK
    <3>3. client'.cursor <= Len(journal')
      <4> DEFINE a == client.cursor
                 b == Len(journal)
      <4>1. a \in Nat /\ b \in Nat /\ a < b /\ client'.cursor = a + 1 /\ Len(journal') = b
        BY <1>0, <2>1, <3>1, <3>2
      <4> HIDE DEF a, b
      <4> QED
        BY <4>1
    <3>4. SameTotal(client', client)
      BY <3>1 DEF SameTotal
    <3>5. delivered_end' \in Nat /\ delivered_end' >= delivered_end
      BY <2>1
    <3> QED
      BY <2>1, <2>2, <3>1, <3>3, <3>4, <3>5, ServedGoesOn
  <2> QED
    BY <2>3, <2>4
<1>28. CASE write_client
  <2>1. UNCHANGED <<sent, acted, journal>>
    BY <1>28 DEF write_client
  <2>2. Extends(journal, journal')
    BY <1>0, <2>1
  <2>3. CASE client = None \/ client.outgoing = <<>> \/ peer[client.conn] = "closed"
    <3>1. (client' = None \/ client' = client) /\ UNCHANGED delivered_end
      BY <1>28, <2>3 DEF write_client, drop_client
    <3>2. client' = None => Served'
      BY DEF Served
    <3> QED
      BY <2>1, <2>2, <3>1, <3>2, ServedUnmoved
  <2>4. CASE client # None /\ client.outgoing # <<>> /\ peer[client.conn] # "closed"
    <3>1. /\ ClientOK(client') /\ client' # None
          /\ client'.conn = client.conn
          /\ client'.cursor = client.cursor /\ client'.closing = client.closing
          /\ client'.gone = client.gone /\ client'.input = client.input
          /\ client'.written = client.written /\ client'.discarded = client.discarded
          /\ delivered_end' \in Nat /\ delivered_end' >= delivered_end
      BY <1>28, <2>4, FrontWritten
    <3>2. client'.record # client.record /\ ~ client.closing =>
                  /\ client'.record = client.record + 1 /\ client'.record <= client.cursor
                  /\ journal[client'.record] \in {"child", "other"} => delivered_end' >= client'.record
      BY <1>28, <2>4, FrontWritten
    <3>3. client'.cursor <= Len(journal')
      BY <2>1, <2>4, <3>1 DEF Served
    <3>4. SameTotal(client', client)
      BY <3>1 DEF SameTotal
    <3> QED
      BY <2>1, <2>2, <2>4, <3>1, <3>2, <3>3, <3>4, ServedGoesOn
  <2> QED
    BY <2>3, <2>4
<1>29. CASE close_client
  <2>1. UNCHANGED <<sent, acted, journal, delivered_end>>
    BY <1>29 DEF close_client
  <2>2. CASE client = None
    <3>1. client' = client
      BY <1>29, <2>2 DEF close_client
    <3> QED
      BY <1>0, <2>1, <3>1, ServedUnmoved
  <2>3. CASE client # None
    <3>1. /\ ClientOK(client') /\ client' # None /\ client'.gone = TRUE
          /\ client'.conn = client.conn /\ client'.cursor = client.cursor
      BY <1>29, <2>3, ClosedClient
    <3>2. client'.cursor <= Len(journal')
      BY <2>1, <2>3, <3>1 DEF Served
    <3>3. acted'[client'.conn] \in Nat
      BY <2>1, <2>3, <3>1, ClientType DEF TypeOK
    <3> QED
      BY <3>1, <3>2, <3>3, ServedThen
  <2> QED
    BY <2>2, <2>3
<1>30. CASE handle_malformed
  <2>1. Handling /\ client' = end_connection(client, "Error") /\ UNCHANGED <<sent, acted, journal, delivered_end>>
    BY <1>30 DEF handle_malformed, Acting, Handling, refuse_client
  <2>2. /\ ClientOK(client') /\ client'.closing = TRUE
        /\ client'.conn = client.conn /\ client'.cursor = client.cursor
    BY <2>1, Ended DEF LastFrames
  <2>3. client # None /\ client.conn \in Conns
    BY <2>1, FrameFound
  <2>4. client'.cursor <= Len(journal') /\ acted'[client'.conn] \in Nat
    BY <2>1, <2>2, <2>3 DEF Served, TypeOK
  <2> QED
    BY <2>2, <2>4, ServedThen
<1>31. CASE handle_hello
  <2>1. /\ Handling /\ TakeFrame /\ NextFrame \in {"Hello"}
        /\ UNCHANGED <<sent, delivered_end, journal>>
    BY <1>31 DEF handle_hello, Acting, Handling
  <2>2. Extends(journal, journal') /\ Len(journal') \in Nat
    BY <1>0, <2>1
  <2>3. /\ client' # None /\ ClientOK(client') /\ client'.conn = client.conn /\ client'.cursor = client.cursor
        /\ client'.closing = TRUE
    <3>1. client' = end_connection(client, "Error")
      BY <1>31 DEF handle_hello, refuse_client
    <3> QED
      BY <2>1, <3>1, Ended DEF LastFrames
  <2> QED
    BY <2>1, <2>2, <2>3, ServedTakes
<1>32. CASE handle_info_snapshot
  <2>1. /\ Handling /\ TakeFrame /\ NextFrame \in {"Info", "Snapshot"}
        /\ UNCHANGED <<sent, delivered_end, journal>>
    BY <1>32 DEF handle_info_snapshot, Acting, Handling
  <2>2. Extends(journal, journal') /\ Len(journal') \in Nat
    BY <1>0, <2>1
  <2>3. /\ client' # None /\ ClientOK(client') /\ client'.conn = client.conn /\ client'.cursor = client.cursor
        /\ client'.gone = client.gone /\ client'.record = client.record
        /\ client'.written = client.written /\ client'.discarded = client.discarded
        /\ Len(client'.input) = Len(client.input) + (IF NextFrame = "Input" THEN 1 ELSE 0)
    <3>1. /\ ClientOK(client') /\ client' # None /\ SameClient(client', client)
          /\ client'.input = client.input
          /\ client'.written = client.written /\ client'.discarded = client.discarded
      BY <1>32, Answered
    <3>2. Len(client.input) \in Nat
      <4>1. client # None
        BY <2>1, FrameFound
      <4>2. client.input \in Seq(Written)
        BY <4>1, ClientType DEF TypeOK
      <4> QED
        BY <4>2
    <3>3. NextFrame # "Input"
      BY <2>1
    <3>4. Len(client'.input) = Len(client.input)
      BY <3>1
    <3>5. Len(client'.input) = Len(client.input) + (IF NextFrame = "Input" THEN 1 ELSE 0)
      BY <3>2, <3>3, <3>4
    <3> QED
      BY <3>1, <3>5 DEF SameClient
  <2> QED
    BY <2>1, <2>2, <2>3, ServedTakes
<1>33. CASE handle_read
  <2>1. /\ Handling /\ TakeFrame /\ NextFrame \in {"Read"}
        /\ UNCHANGED <<sent, delivered_end, journal>>
    BY <1>33 DEF handle_read, Acting, Handling
  <2>2. Extends(journal, journal') /\ Len(journal') \in Nat
    BY <1>0, <2>1
  <2>3. /\ client' # None /\ ClientOK(client') /\ client'.conn = client.conn /\ client'.cursor = client.cursor
        /\ \/ client'.closing
           \/ /\ client'.gone = client.gone /\ client'.record = client.record
              /\ client'.written = client.written /\ client'.discarded = client.discarded
              /\ Len(client'.input) = Len(client.input) + (IF NextFrame = "Input" THEN 1 ELSE 0)
    <3>1. CASE client.reading
      <4>1. client' = end_connection(client, "Error")
        BY <1>33, <3>1 DEF handle_read, refuse_client
      <4>2. /\ client' # None /\ ClientOK(client') /\ client'.conn = client.conn
            /\ client'.cursor = client.cursor /\ client'.closing = TRUE
        BY <2>1, <4>1, Ended DEF LastFrames
      <4> QED
        BY <4>2
    <3>2. CASE ~ client.reading
      <4>1. /\ ClientOK(client') /\ client' # None
            /\ client'.conn = client.conn /\ client'.gone = client.gone
            /\ client'.cursor = client.cursor /\ client'.record = client.record
            /\ client'.input = client.input
            /\ client'.written = client.written /\ client'.discarded = client.discarded
        BY <1>33, <3>2, ReadTaken
      <4>2. Len(client.input) \in Nat
        <5>1. client # None
          BY <2>1, FrameFound
        <5>2. client.input \in Seq(Written)
          BY <5>1, ClientType DEF TypeOK
        <5> QED
          BY <5>2
      <4>3. Len(client'.input) = Len(client.input) + (IF NextFrame = "Input" THEN 1 ELSE 0)
        BY <2>1, <4>1, <4>2
      <4> QED
        BY <4>1, <4>3
    <3> QED
      BY <3>1, <3>2
  <2> QED
    BY <2>1, <2>2, <2>3, ServedTakes
<1>34. CASE handle_input
  <2>1. /\ Handling /\ TakeFrame /\ NextFrame \in {"Input"}
        /\ UNCHANGED <<sent, delivered_end, journal>>
    BY <1>34 DEF handle_input, Acting, Handling
  <2>2. Extends(journal, journal') /\ Len(journal') \in Nat
    BY <1>0, <2>1
  <2>3. /\ client' # None /\ ClientOK(client') /\ client'.conn = client.conn /\ client'.cursor = client.cursor
        /\ client'.gone = client.gone /\ client'.record = client.record
        /\ client'.written = client.written /\ client'.discarded = client.discarded
        /\ ~ client.gone => Len(client'.input) = Len(client.input) + (IF NextFrame = "Input" THEN 1 ELSE 0)
    <3>1. /\ ClientOK(client') /\ client' # None /\ SameClient(client', client)
          /\ ~ client.gone => Len(client'.input) = Len(client.input) + 1
          /\ client'.written = client.written /\ client'.discarded = client.discarded
      BY <1>34, InputTaken
    <3> QED
      BY <2>1, <3>1 DEF SameClient
  <2> QED
    BY <2>1, <2>2, <2>3, ServedTakes
<1>35. CASE handle_resize
  <2>1. /\ Handling /\ TakeFrame /\ NextFrame \in {"Resize"}
        /\ UNCHANGED <<sent, delivered_end>>
    BY <1>35 DEF handle_resize, Acting, Handling
  <2>2. Extends(journal, journal') /\ Len(journal') \in Nat
    <3>1. journal' = Append(journal, "resized")
      BY <1>35 DEF handle_resize
    <3>2. journal \in Seq({"child", "other", "resized", "exited", "exited_early"})
      BY DEF TypeOK
    <3>3. Len(Append(journal, "resized")) \in Nat
      BY <3>2
    <3> QED
      BY <1>0, <3>1, <3>3
  <2>3. /\ client' # None /\ ClientOK(client') /\ client'.conn = client.conn /\ client'.cursor = client.cursor
        /\ client'.gone = client.gone /\ client'.record = client.record
        /\ client'.written = client.written /\ client'.discarded = client.discarded
        /\ Len(client'.input) = Len(client.input) + (IF NextFrame = "Input" THEN 1 ELSE 0)
    <3>1. client' = client /\ client # None
      BY <1>35, <2>1, FrameFound DEF handle_resize
    <3>2. ClientOK(client)
      BY <3>1 DEF Served
    <3>3. Len(client.input) \in Nat
      <4>1. client # None
        BY <2>1, FrameFound
      <4>2. client.input \in Seq(Written)
        BY <4>1, ClientType DEF TypeOK
      <4> QED
        BY <4>2
    <3> QED
      BY <2>1, <3>1, <3>2, <3>3
  <2> QED
    BY <2>1, <2>2, <2>3, ServedTakes
<1>36. CASE handle_shutdown
  <2>1. /\ Handling /\ TakeFrame /\ NextFrame \in {"Shutdown"}
        /\ UNCHANGED <<sent, delivered_end, journal>>
    BY <1>36 DEF handle_shutdown, Acting, Handling
  <2>2. Extends(journal, journal') /\ Len(journal') \in Nat
    BY <1>0, <2>1
  <2>3. /\ client' # None /\ ClientOK(client') /\ client'.conn = client.conn /\ client'.cursor = client.cursor
        /\ client'.closing = TRUE
    <3>1. client' = end_connection(client, "Goodbye")
      BY <1>36 DEF handle_shutdown, refuse_client
    <3> QED
      BY <2>1, <3>1, Ended DEF LastFrames
  <2> QED
    BY <2>1, <2>2, <2>3, ServedTakes
<1>37. CASE read_pending
  <2>1. CASE UNCHANGED <<client, acted>>
    <3>1. UNCHANGED <<sent, delivered_end, journal>>
      BY <1>37 DEF read_pending
    <3> QED
      BY <1>0, <2>1, <3>1, ServedUnmoved
  <2>2. CASE ~ UNCHANGED <<client, acted>>
    <3> DEFINE c == Head(todo).conn
    <3>1. /\ client' = NewClient(c) /\ acted' = [acted EXCEPT ![c] = 1] /\ UNCHANGED journal
          /\ ended = None
      BY <1>37, <2>2 DEF read_pending
    <3>2. c \in Conns
      BY <1>37, <3>1, WaitingIs
    <3> HIDE DEF c
    <3> QED
      BY <3>1, <3>2, ServedAdmits
  <2> QED
    BY <2>1, <2>2
<1>38. CASE \E c \in Conns : \E frame \in Hellos \cup Frames : peer_sends(c, frame)
  <2>1. PICK c \in Conns, frame \in Hellos \cup Frames : peer_sends(c, frame)
    BY <1>38
  <2>2. /\ sent' = [sent EXCEPT ![c] = Append(@, frame)]
        /\ UNCHANGED <<client, acted, journal, delivered_end>>
    BY <2>1 DEF peer_sends
  <2>3. CASE client = None
    BY <2>2, <2>3 DEF Served
  <2>4. CASE client # None
    <3> DEFINE d == client.conn
               s == sent[d]
               n == acted[d]
               t == sent'[d]
    <3>1. /\ ClientOK(client) /\ client.cursor <= Len(journal)
          /\ ~ client.closing /\ ~ client.gone => Balanced(client, s, n)
          /\ ~ client.closing /\ ~ client.gone =>
                 \A i \in 1 .. client.record : journal[i] \in {"child", "other"} => delivered_end >= i
      BY <2>4, ServedIs
    <3>2. d \in Conns
      BY <2>4, ClientType DEF TypeOK
    <3>3. /\ n \in Nat /\ received[d] \in Nat /\ Len(s) \in Nat /\ n <= received[d] /\ received[d] <= Len(s)
          /\ s \in Seq(Hellos \cup Frames)
      <4>1. n \in Nat /\ received[d] \in Nat
        BY <3>2 DEF TypeOK
      <4>2. s \in Seq(Hellos \cup Frames)
        BY <3>2 DEF TypeOK
      <4>3. n <= received[d] /\ received[d] <= Len(s)
        BY <3>2 DEF Connections, Counted
      <4> HIDE DEF s, n, t, d
      <4>4. Len(s) \in Nat
        BY <4>2
      <4> QED
        BY <4>1, <4>2, <4>3, <4>4
    <3>4. t = s \/ t = Append(s, frame)
      BY <2>2, <3>2 DEF TypeOK
    <3>5. acted'[client'.conn] = n /\ sent'[client'.conn] = t /\ client' = client
      BY <2>2
    <3> HIDE DEF s, n, t
    <3>6. \A i \in 2 .. n : t[i] = s[i]
      BY <3>3, <3>4
    <3>7. InputsAt(t, n) = InputsAt(s, n)
      BY <3>3, <3>6, InputsAtSame
    <3>8. Balanced(client, s, n) => Balanced(client, t, n)
      BY <3>7 DEF Balanced
    <3> QED
      BY <2>2, <3>1, <3>3, <3>5, <3>8, ServedThen
  <2> QED
    BY <2>3, <2>4
<1> QED
  BY <1>1, <1>2, <1>3, <1>4, <1>5, <1>6, <1>7, <1>8, <1>9, <1>10, <1>11, <1>12, <1>13, <1>14, <1>15, <1>16, <1>17, <1>18, <1>19, <1>20, <1>21, <1>22, <1>23, <1>24, <1>25, <1>26, <1>27, <1>28, <1>29, <1>30, <1>31, <1>32, <1>33, <1>34, <1>35, <1>36, <1>37, <1>38 DEF Next, HostStep, EnvironmentStep

-----------------------------------------------------------------------------
(* The types.                                                              *)

\* What a variable is allowed to be next.
Typed ==
    /\ pending' \in Seq(Conns) /\ backlog' \in Seq(Conns)
    /\ journal' \in Seq({"child", "other", "resized", "exited", "exited_early"})
    /\ draining' \in (Nat \cup {None}) /\ delivered_end' \in Nat
    /\ ended' \in {None, "Shutdown"} /\ result' \in {None, "Shutdown", "Terminated"}
    /\ pty_open' \in BOOLEAN /\ child_exit' \in BOOLEAN /\ accept_paused' \in BOOLEAN
    /\ sigPipe' \in BOOLEAN /\ sigterm' \in BOOLEAN /\ descriptors' \in BOOLEAN
    /\ status' \in [Conns -> Statuses] /\ sent' \in [Conns -> Seq(Hellos \cup Frames)]
    /\ received' \in [Conns -> Nat] /\ acted' \in [Conns -> Nat]
    /\ peer' \in [Conns -> {"open", "half", "closed"}] /\ room' \in [Conns -> 0 .. SOCKET_ROOM]
    /\ output' \in Seq({"child", "other"}) /\ ptyRoom' \in 0 .. PTY_ROOM
    /\ child' \in {"running", "zombie", "reaped"} /\ slave' \subseteq {"child", "other"}
    /\ due' \subseteq {"flush", "drain", "pause"} \cup Conns

LEMMA TypedIsTypeOK ==
    ASSUME AgendaOK(todo'), Served', Typed
    PROVE  TypeOK'
<1>1. todo' \in Seq(Entry)
  BY DEF AgendaOK
<1>2. client' \in Clients \cup {None}
  BY DEF Served, ClientOK
<1>3. \A b \in {pty_open', child_exit', accept_paused', sigPipe', sigterm', descriptors'} : b \in BOOLEAN
  BY DEF Typed
<1> QED
  BY <1>1, <1>2, <1>3 DEF TypeOK, Typed

LEMMA StatusTyped ==
    ASSUME TypeOK
    PROVE  /\ \A c \in Conns, fate \in Statuses : [status EXCEPT ![c] = fate] \in [Conns -> Statuses]
           /\ \A fate \in Statuses : client # None => [status EXCEPT ![client.conn] = fate] \in [Conns -> Statuses]
  BY DEF TypeOK

\* No step leaves the types.
\* What a handler leaves alone keeps its type.
LEMMA TypedStays ==
    ASSUME TypeOK,
           UNCHANGED <<pending, backlog, journal, draining, delivered_end, ended, result, pty_open,
                   child_exit, accept_paused, sigPipe, sigterm, descriptors, status, sent,
                   received, acted, peer, room, output, ptyRoom, child, slave, due>>
    PROVE  Typed
<1>1. /\ pending' \in Seq(Conns) /\ backlog' \in Seq(Conns)
      /\ journal' \in Seq({"child", "other", "resized", "exited", "exited_early"})
      /\ draining' \in (Nat \cup {None}) /\ delivered_end' \in Nat
  BY DEF TypeOK
<1>2. /\ ended' \in {None, "Shutdown"} /\ result' \in {None, "Shutdown", "Terminated"}
      /\ pty_open' \in BOOLEAN /\ child_exit' \in BOOLEAN /\ accept_paused' \in BOOLEAN
      /\ sigPipe' \in BOOLEAN /\ sigterm' \in BOOLEAN /\ descriptors' \in BOOLEAN
  BY DEF TypeOK
<1>3. /\ status' \in [Conns -> Statuses] /\ sent' \in [Conns -> Seq(Hellos \cup Frames)]
      /\ received' \in [Conns -> Nat] /\ acted' \in [Conns -> Nat]
      /\ peer' \in [Conns -> {"open", "half", "closed"}] /\ room' \in [Conns -> 0 .. SOCKET_ROOM]
  BY DEF TypeOK
<1>4. /\ output' \in Seq({"child", "other"}) /\ ptyRoom' \in 0 .. PTY_ROOM
      /\ child' \in {"running", "zombie", "reaped"} /\ slave' \subseteq {"child", "other"}
      /\ due' \subseteq {"flush", "drain", "pause"} \cup Conns
  BY DEF TypeOK
<1> QED
  BY <1>1, <1>2, <1>3, <1>4 DEF Typed

LEMMA TypedStep ==
    ASSUME TypeOK, AgendaOK(todo), Connections, Closing, Served, [Next]_vars
    PROVE  Typed
<1> USE DEF Environment, hostVars, connVars, kernelVars
<1>a. /\ pending \in Seq(Conns)
      /\ backlog \in Seq(Conns)
      /\ journal \in Seq({"child", "other", "resized", "exited", "exited_early"})
      /\ draining \in (Nat \cup {None})
      /\ delivered_end \in Nat
  BY DEF TypeOK
<1>b. /\ ended \in {None, "Shutdown"}
      /\ result \in {None, "Shutdown", "Terminated"}
  BY DEF TypeOK
<1>c. /\ pty_open \in BOOLEAN
      /\ child_exit \in BOOLEAN
      /\ accept_paused \in BOOLEAN
      /\ sigPipe \in BOOLEAN
      /\ sigterm \in BOOLEAN
      /\ descriptors \in BOOLEAN
  BY DEF TypeOK
<1>d. /\ status \in [Conns -> Statuses]
      /\ sent \in [Conns -> Seq(Hellos \cup Frames)]
      /\ received \in [Conns -> Nat]
      /\ acted \in [Conns -> Nat]
      /\ peer \in [Conns -> {"open", "half", "closed"}]
      /\ room \in [Conns -> 0 .. SOCKET_ROOM]
  BY DEF TypeOK
<1>e. /\ output \in Seq({"child", "other"})
      /\ ptyRoom \in 0 .. PTY_ROOM
      /\ child \in {"running", "zombie", "reaped"}
      /\ slave \subseteq {"child", "other"}
      /\ due \subseteq {"flush", "drain", "pause"} \cup Conns
  BY DEF TypeOK
<1>1. CASE UNCHANGED vars
  <2>1. UNCHANGED <<pending, backlog, journal, draining, delivered_end, ended, result, pty_open,
                   child_exit, accept_paused, sigPipe, sigterm, descriptors, status, sent,
                   received, acted, peer, room, output, ptyRoom, child, slave, due>>
    BY <1>1 DEF vars
  <2> QED
    BY <2>1, TypedStays
<1>2. CASE poll \/ poll_interrupted
  <2>1. UNCHANGED <<pending, backlog, journal, draining, delivered_end, ended, result, pty_open,
                   child_exit, accept_paused, sigPipe, sigterm, descriptors, status, sent,
                   received, acted, peer, room, output, ptyRoom, child, slave, due>>
    BY <1>2 DEF poll, poll_interrupted
  <2> QED
    BY <2>1, TypedStays
<1>3. CASE refill_outgoing
  <2>1. UNCHANGED <<pending, backlog, journal, draining, delivered_end, ended, result, pty_open,
                   child_exit, accept_paused, sigPipe, sigterm, descriptors, status, sent,
                   received, acted, peer, room, output, ptyRoom, child, slave, due>>
    BY <1>3 DEF refill_outgoing
  <2> QED
    BY <2>1, TypedStays
<1>4. CASE close_client
  <2>1. UNCHANGED <<pending, backlog, journal, draining, delivered_end, ended, result, pty_open,
                   child_exit, accept_paused, sigPipe, sigterm, descriptors, status, sent,
                   received, acted, peer, room, output, ptyRoom, child, slave, due>>
    BY <1>4 DEF close_client
  <2> QED
    BY <2>1, TypedStays
<1>5. CASE act_on_buffered
  <2>1. UNCHANGED <<pending, backlog, journal, draining, delivered_end, ended, result, pty_open,
                   child_exit, accept_paused, sigPipe, sigterm, descriptors, status, sent,
                   received, acted, peer, room, output, ptyRoom, child, slave, due>>
    BY <1>5 DEF act_on_buffered
  <2> QED
    BY <2>1, TypedStays
<1>6. CASE handle_malformed
  <2>1. UNCHANGED <<pending, backlog, journal, draining, delivered_end, ended, result, pty_open,
                   child_exit, accept_paused, sigPipe, sigterm, descriptors, status, sent,
                   received, acted, peer, room, output, ptyRoom, child, slave, due>>
    BY <1>6 DEF handle_malformed, Acting
  <2> QED
    BY <2>1, TypedStays
<1>7. CASE step_terminated
  <2>1. UNCHANGED <<pending, backlog, journal, draining, delivered_end, ended, pty_open, child_exit,
                   accept_paused, sigPipe, sigterm, descriptors, status, sent, received,
                   acted, peer, room, output, ptyRoom, child, slave, due>>
    BY <1>7 DEF step_terminated
  <2>2. result' \in {None, "Shutdown", "Terminated"}
    BY <1>7 DEF step_terminated
  <2> QED
    BY <1>a, <1>b, <1>c, <1>d, <1>e, <2>1, <2>2 DEF Typed
<1>8. CASE step_ended
  <2>1. UNCHANGED <<pending, backlog, journal, draining, delivered_end, ended, pty_open, child_exit,
                   accept_paused, sigPipe, sigterm, descriptors, sent, received, acted,
                   peer, room, output, ptyRoom, child, slave>>
    BY <1>8 DEF step_ended
  <2>2. result' \in {None, "Shutdown", "Terminated"}
    BY <1>8, <1>b DEF step_ended
  <2>3. status' \in [Conns -> Statuses]
    <3>1. status' = status \/ (client # None /\ status' = [status EXCEPT ![client.conn] = "late"])
      BY <1>8 DEF step_ended, drop_client, FlushOver
    <3>2. "late" \in Statuses
      BY DEF Statuses
    <3> QED
      BY <1>d, <3>1, <3>2, StatusTyped
  <2>4. due' \subseteq {"flush", "drain", "pause"} \cup Conns
    BY <1>8, <1>e DEF step_ended, drop_client
  <2> QED
    BY <1>a, <1>b, <1>c, <1>d, <1>e, <2>1, <2>2, <2>3, <2>4 DEF Typed
<1>9. CASE step_begin
  <2>1. UNCHANGED <<pending, backlog, journal, draining, delivered_end, ended, result, pty_open,
                   child_exit, sigPipe, sigterm, descriptors, sent, received, acted, peer,
                   room, output, ptyRoom, child, slave>>
    BY <1>9 DEF step_begin
  <2>2. status' \in [Conns -> Statuses]
    <3>1. status' = status \/ (client # None /\ status' = [status EXCEPT ![client.conn] = "late"])
      BY <1>9 DEF step_begin, drop_client, FlushOver
    <3>2. "late" \in Statuses
      BY DEF Statuses
    <3> QED
      BY <1>d, <3>1, <3>2, StatusTyped
  <2>3. accept_paused' \in BOOLEAN
    BY <1>9 DEF step_begin
  <2>4. due' \subseteq {"flush", "drain", "pause"} \cup Conns
    BY <1>9, <1>e DEF step_begin
  <2> QED
    BY <1>a, <1>b, <1>c, <1>d, <1>e, <2>1, <2>2, <2>3, <2>4 DEF Typed
<1>10. CASE drain_signal_pipe
  <2>1. UNCHANGED <<pending, backlog, journal, draining, delivered_end, ended, result, pty_open,
                   child_exit, accept_paused, sigterm, descriptors, status, sent, received,
                   acted, peer, room, output, ptyRoom, child, slave, due>>
    BY <1>10 DEF drain_signal_pipe
  <2>2. sigPipe' \in BOOLEAN
    BY <1>10 DEF drain_signal_pipe
  <2> QED
    BY <1>a, <1>b, <1>c, <1>d, <1>e, <2>1, <2>2 DEF Typed
<1>11. CASE reap_child
  <2>1. UNCHANGED <<pending, backlog, journal, delivered_end, ended, result, pty_open,
                   accept_paused, sigPipe, sigterm, descriptors, status, sent, received,
                   acted, peer, room, output, ptyRoom, slave, due>>
    BY <1>11 DEF reap_child
  <2>2. child' \in {"running", "zombie", "reaped"}
    BY <1>11, <1>e DEF reap_child
  <2>3. child_exit' \in BOOLEAN
    <3>1. child_exit' = TRUE \/ child_exit' = child_exit
      BY <1>11 DEF reap_child
    <3> QED
      BY <1>c, <3>1
  <2>4. draining' \in (Nat \cup {None})
    BY <1>11, <1>a DEF reap_child
  <2> QED
    BY <1>a, <1>b, <1>c, <1>d, <1>e, <2>1, <2>2, <2>3, <2>4 DEF Typed
<1>12. CASE read_pty
  <2>1. UNCHANGED <<pending, backlog, delivered_end, ended, result, child_exit, accept_paused,
                   sigPipe, sigterm, descriptors, status, sent, received, acted, peer, room,
                   ptyRoom, child, slave, due>>
    BY <1>12 DEF read_pty
  <2>2. journal' \in Seq({"child", "other", "resized", "exited", "exited_early"})
    <3> DEFINE n == IF ~ pty_open THEN 0
                    ELSE IF Len(output) < READ_BUDGET THEN Len(output) ELSE READ_BUDGET
               more == SubSeq(output, 1, n)
               K == {"child", "other", "resized", "exited", "exited_early"}
    <3>1. journal' = Then(journal, more)
      BY <1>12 DEF read_pty, Then
    <3>2. Len(output) \in Nat
      BY <1>e
    <3>3. n \in 0 .. Len(output)
      BY <3>2, HostConstants
    <3> HIDE DEF n
    <3>4. more \in Seq({"child", "other"})
      BY <1>e, <3>3, FrontAndRest
    <3> HIDE DEF more
    <3>5. more \in Seq(K) /\ journal \in Seq(K)
      BY <1>a, <3>4
    <3> HIDE DEF K
    <3>6. Then(journal, more) \in Seq(K)
      BY <3>5, ThenAt
    <3> QED
      BY <3>1, <3>6 DEF K
  <2>3. output' \in Seq({"child", "other"})
    <3> DEFINE n == IF ~ pty_open THEN 0
                    ELSE IF Len(output) < READ_BUDGET THEN Len(output) ELSE READ_BUDGET
    <3>1. output' = SubSeq(output, n + 1, Len(output))
      BY <1>12 DEF read_pty
    <3>2. Len(output) \in Nat
      BY <1>e
    <3>3. n \in 0 .. Len(output)
      BY <3>2, HostConstants
    <3> HIDE DEF n
    <3> QED
      BY <1>e, <3>1, <3>3, FrontAndRest
  <2>4. draining' \in (Nat \cup {None})
    <3> DEFINE n == IF ~ pty_open THEN 0
                    ELSE IF Len(output) < READ_BUDGET THEN Len(output) ELSE READ_BUDGET
    <3>1. draining' = IF draining = None THEN None ELSE draining + n
      BY <1>12 DEF read_pty
    <3>2. Len(output) \in Nat
      BY <1>e
    <3>3. n \in Nat
      BY <3>2, HostConstants
    <3> HIDE DEF n
    <3> QED
      BY <1>a, <3>1, <3>3
  <2>5. pty_open' \in BOOLEAN
    BY <1>12 DEF read_pty
  <2> QED
    BY <1>a, <1>b, <1>c, <1>d, <1>e, <2>1, <2>2, <2>3, <2>4, <2>5 DEF Typed
<1>13. CASE finish_drain
  <2>1. UNCHANGED <<pending, backlog, delivered_end, ended, result, pty_open, child_exit,
                   accept_paused, sigPipe, sigterm, descriptors, status, sent, received,
                   acted, peer, room, output, ptyRoom, child, slave>>
    BY <1>13 DEF finish_drain
  <2>2. journal' \in Seq({"child", "other", "resized", "exited", "exited_early"})
    <3> DEFINE K == {"child", "other", "resized", "exited", "exited_early"}
    <3>1. journal' = journal \/ \E kind \in K : journal' = Append(journal, kind)
      BY <1>13 DEF finish_drain
    <3>2. journal \in Seq(K)
      BY <1>a
    <3> HIDE DEF K
    <3>3. journal' \in Seq(K)
      BY <3>1, <3>2
    <3> QED
      BY <3>3 DEF K
  <2>3. draining' \in (Nat \cup {None})
    BY <1>13, <1>a DEF finish_drain
  <2>4. due' \subseteq {"flush", "drain", "pause"} \cup Conns
    BY <1>13, <1>e DEF finish_drain
  <2>5. pending' \in Seq(Conns) /\ backlog' \in Seq(Conns) /\ delivered_end' \in Nat
    BY <1>a, <2>1
  <2>6. /\ ended' \in {None, "Shutdown"} /\ result' \in {None, "Shutdown", "Terminated"}
        /\ pty_open' \in BOOLEAN /\ child_exit' \in BOOLEAN /\ accept_paused' \in BOOLEAN
        /\ sigPipe' \in BOOLEAN /\ sigterm' \in BOOLEAN /\ descriptors' \in BOOLEAN
    BY <1>b, <1>c, <2>1
  <2>7. /\ status' \in [Conns -> Statuses] /\ sent' \in [Conns -> Seq(Hellos \cup Frames)]
        /\ received' \in [Conns -> Nat] /\ acted' \in [Conns -> Nat]
        /\ peer' \in [Conns -> {"open", "half", "closed"}] /\ room' \in [Conns -> 0 .. SOCKET_ROOM]
    BY <1>d, <2>1
  <2>8. /\ output' \in Seq({"child", "other"}) /\ ptyRoom' \in 0 .. PTY_ROOM
        /\ child' \in {"running", "zombie", "reaped"} /\ slave' \subseteq {"child", "other"}
    BY <1>e, <2>1
  <2> QED
    BY <2>2, <2>3, <2>4, <2>5, <2>6, <2>7, <2>8 DEF Typed
<1>14. CASE write_input
  <2>1. UNCHANGED <<pending, backlog, journal, draining, delivered_end, ended, result, pty_open,
                   child_exit, accept_paused, sigPipe, sigterm, descriptors, status, sent,
                   received, acted, peer, room, output, child, slave, due>>
    BY <1>14 DEF write_input
  <2>2. ptyRoom' \in 0 .. PTY_ROOM
    BY <1>14, InputLeft
  <2> QED
    BY <1>a, <1>b, <1>c, <1>d, <1>e, <2>1, <2>2 DEF Typed
<1>15. CASE write_client
  <2>1. UNCHANGED <<pending, backlog, journal, draining, ended, result, pty_open, child_exit,
                   accept_paused, sigPipe, sigterm, descriptors, sent, received, acted,
                   peer, output, ptyRoom, child, slave>>
    BY <1>15 DEF write_client
  <2>2. status' \in [Conns -> Statuses]
    <3>1. status' = status \/ (client # None /\ status' = [status EXCEPT ![client.conn] = "flushed"])
      BY <1>15 DEF write_client, drop_client, FlushOver
    <3>2. "flushed" \in Statuses
      BY DEF Statuses
    <3> QED
      BY <1>d, <3>1, <3>2, StatusTyped
  <2>3. due' \subseteq {"flush", "drain", "pause"} \cup Conns
    BY <1>15, <1>e DEF write_client, drop_client
  <2>4. delivered_end' \in Nat
    <3>1. CASE client = None \/ client.outgoing = <<>> \/ peer[client.conn] = "closed"
      BY <1>15, <1>a, <3>1 DEF write_client
    <3>2. CASE client # None /\ client.outgoing # <<>> /\ peer[client.conn] # "closed"
      BY <1>15, <3>2, FrontWritten
    <3> QED
      BY <3>1, <3>2
  <2>5. room' \in [Conns -> 0 .. SOCKET_ROOM]
    <3>1. CASE client = None \/ client.outgoing = <<>> \/ peer[client.conn] = "closed"
      BY <1>15, <1>d, <3>1 DEF write_client
    <3>2. CASE client # None /\ client.outgoing # <<>> /\ peer[client.conn] # "closed"
      BY <1>15, <3>2, FrontWritten
    <3> QED
      BY <3>1, <3>2
  <2> QED
    BY <1>a, <1>b, <1>c, <1>d, <1>e, <2>1, <2>2, <2>3, <2>4, <2>5 DEF Typed
<1>16. CASE read_client
  <2>1. UNCHANGED <<pending, backlog, journal, draining, delivered_end, ended, result, pty_open,
                   child_exit, accept_paused, sigPipe, sigterm, descriptors, status, sent,
                   acted, peer, room, output, ptyRoom, child, slave, due>>
    BY <1>16 DEF read_client
  <2>2. received' \in [Conns -> Nat]
    <3>1. CASE client = None
      BY <1>16, <1>d, <3>1 DEF read_client
    <3>2. CASE client # None
      <4> DEFINE c == client.conn
                 n == Received(c, RECEIVE_LIMIT)
      <4>1. received' = [received EXCEPT ![c] = n]
        BY <1>16, <3>2 DEF read_client
      <4>2. c \in Conns /\ RECEIVE_LIMIT \in Nat
        BY <3>2, ClientType, HostConstants DEF TypeOK
      <4>3. n \in Nat
        BY <4>2, ReceivedIs
      <4> HIDE DEF c, n
      <4> QED
        BY <1>d, <4>1, <4>2, <4>3
    <3> QED
      BY <3>1, <3>2
  <2> QED
    BY <1>a, <1>b, <1>c, <1>d, <1>e, <2>1, <2>2 DEF Typed
<1>17. CASE close_receive
  <2>1. UNCHANGED <<pending, backlog, journal, draining, delivered_end, ended, result, pty_open,
                   child_exit, accept_paused, sigPipe, sigterm, descriptors, status, sent,
                   acted, peer, room, output, ptyRoom, child, slave, due>>
    BY <1>17 DEF close_receive
  <2>2. received' \in [Conns -> Nat]
    <3> DEFINE c == client.conn
               limit == Buffered(c) + RECEIVE_LIMIT
               n == Received(c, limit)
    <3>1. received' = received \/ received' = [received EXCEPT ![c] = n]
      BY <1>17 DEF close_receive
    <3>2. client # None
      <4>1. todo[1].op = "close_receive" /\ todo # <<>> /\ todo \in Seq(Entry)
        BY <1>17, ReturnedBusy DEF AgendaOK, close_receive
      <4>2. 1 \in DOMAIN todo
        BY <4>1
      <4>3. "close_drop" \in OpsOf(todo)
        BY <4>1, <4>2 DEF AgendaOK
      <4> QED
        BY <4>3 DEF Closing
    <3>3. c \in Conns /\ RECEIVE_LIMIT \in Nat
      BY <3>2, ClientType, HostConstants DEF TypeOK
    <3> HIDE DEF c
    <3>4. limit \in Nat
      <4>1. received[c] - acted[c] \in Nat
        BY <3>3, ReceivedIs
      <4> QED
        BY <3>3, <4>1 DEF Buffered
    <3> HIDE DEF limit
    <3>5. n \in Nat
      BY <3>3, <3>4, ReceivedIs
    <3> HIDE DEF n
    <3> QED
      BY <1>d, <3>1, <3>3, <3>5
  <2> QED
    BY <1>a, <1>b, <1>c, <1>d, <1>e, <2>1, <2>2 DEF Typed
<1>18. CASE close_drop
  <2>1. UNCHANGED <<pending, backlog, journal, draining, delivered_end, ended, result, pty_open,
                   child_exit, accept_paused, sigPipe, sigterm, descriptors, sent, received,
                   acted, peer, room, output, ptyRoom, child, slave>>
    BY <1>18 DEF close_drop
  <2>2. status' \in [Conns -> Statuses]
    <3>1. status' = status \/ (client # None /\ status' = [status EXCEPT ![client.conn] = "gone"])
      BY <1>18 DEF close_drop, drop_client, FlushOver
    <3>2. "gone" \in Statuses
      BY DEF Statuses
    <3> QED
      BY <1>d, <3>1, <3>2, StatusTyped
  <2>3. due' \subseteq {"flush", "drain", "pause"} \cup Conns
    BY <1>18, <1>e DEF close_drop, drop_client
  <2> QED
    BY <1>a, <1>b, <1>c, <1>d, <1>e, <2>1, <2>2, <2>3 DEF Typed
<1>19. CASE handle_hello
  <2>1. UNCHANGED <<pending, backlog, journal, draining, delivered_end, ended, result, pty_open,
                   child_exit, accept_paused, sigPipe, sigterm, descriptors, status, sent,
                   received, peer, room, output, ptyRoom, child, slave, due>>
    BY <1>19 DEF handle_hello, Acting
  <2>2. acted' \in [Conns -> Nat]
    <3>1. Handling /\ TakeFrame
      BY <1>19 DEF handle_hello, Handling
    <3>2. client.conn \in Conns /\ acted[client.conn] \in Nat
      BY <3>1, FrameFound
    <3> QED
      BY <1>d, <3>1, <3>2 DEF TakeFrame
  <2> QED
    BY <1>a, <1>b, <1>c, <1>d, <1>e, <2>1, <2>2 DEF Typed
<1>20. CASE handle_info_snapshot
  <2>1. UNCHANGED <<pending, backlog, journal, draining, delivered_end, ended, result, pty_open,
                   child_exit, accept_paused, sigPipe, sigterm, descriptors, status, sent,
                   received, peer, room, output, ptyRoom, child, slave, due>>
    BY <1>20 DEF handle_info_snapshot, Acting
  <2>2. acted' \in [Conns -> Nat]
    <3>1. Handling /\ TakeFrame
      BY <1>20 DEF handle_info_snapshot, Handling
    <3>2. client.conn \in Conns /\ acted[client.conn] \in Nat
      BY <3>1, FrameFound
    <3> QED
      BY <1>d, <3>1, <3>2 DEF TakeFrame
  <2> QED
    BY <1>a, <1>b, <1>c, <1>d, <1>e, <2>1, <2>2 DEF Typed
<1>21. CASE handle_read
  <2>1. UNCHANGED <<pending, backlog, journal, draining, delivered_end, ended, result, pty_open,
                   child_exit, accept_paused, sigPipe, sigterm, descriptors, status, sent,
                   received, peer, room, output, ptyRoom, child, slave, due>>
    BY <1>21 DEF handle_read, Acting
  <2>2. acted' \in [Conns -> Nat]
    <3>1. Handling /\ TakeFrame
      BY <1>21 DEF handle_read, Handling
    <3>2. client.conn \in Conns /\ acted[client.conn] \in Nat
      BY <3>1, FrameFound
    <3> QED
      BY <1>d, <3>1, <3>2 DEF TakeFrame
  <2> QED
    BY <1>a, <1>b, <1>c, <1>d, <1>e, <2>1, <2>2 DEF Typed
<1>22. CASE handle_input
  <2>1. UNCHANGED <<pending, backlog, journal, draining, delivered_end, ended, result, pty_open,
                   child_exit, accept_paused, sigPipe, sigterm, descriptors, status, sent,
                   received, peer, room, output, ptyRoom, child, slave, due>>
    BY <1>22 DEF handle_input, Acting
  <2>2. acted' \in [Conns -> Nat]
    <3>1. Handling /\ TakeFrame
      BY <1>22 DEF handle_input, Handling
    <3>2. client.conn \in Conns /\ acted[client.conn] \in Nat
      BY <3>1, FrameFound
    <3> QED
      BY <1>d, <3>1, <3>2 DEF TakeFrame
  <2> QED
    BY <1>a, <1>b, <1>c, <1>d, <1>e, <2>1, <2>2 DEF Typed
<1>23. CASE handle_resize
  <2>1. UNCHANGED <<pending, backlog, draining, delivered_end, ended, result, pty_open, child_exit,
                   accept_paused, sigPipe, sigterm, descriptors, status, sent, received,
                   peer, room, output, ptyRoom, child, slave, due>>
    BY <1>23 DEF handle_resize, Acting
  <2>2. acted' \in [Conns -> Nat]
    <3>1. Handling /\ TakeFrame
      BY <1>23 DEF handle_resize, Handling
    <3>2. client.conn \in Conns /\ acted[client.conn] \in Nat
      BY <3>1, FrameFound
    <3> QED
      BY <1>d, <3>1, <3>2 DEF TakeFrame
  <2>3. journal' \in Seq({"child", "other", "resized", "exited", "exited_early"})
    BY <1>23, <1>a DEF handle_resize
  <2> QED
    BY <1>a, <1>b, <1>c, <1>d, <1>e, <2>1, <2>2, <2>3 DEF Typed
<1>24. CASE handle_shutdown
  <2>1. UNCHANGED <<backlog, journal, draining, delivered_end, result, pty_open, child_exit,
                   accept_paused, sigPipe, sigterm, descriptors, sent, received, peer, room,
                   output, ptyRoom, child, slave>>
    BY <1>24 DEF handle_shutdown, Acting
  <2>2. acted' \in [Conns -> Nat]
    <3>1. Handling /\ TakeFrame
      BY <1>24 DEF handle_shutdown, Handling
    <3>2. client.conn \in Conns /\ acted[client.conn] \in Nat
      BY <3>1, FrameFound
    <3> QED
      BY <1>d, <3>1, <3>2 DEF TakeFrame
  <2>3. pending' \in Seq(Conns)
    BY <1>24 DEF handle_shutdown
  <2>4. ended' \in {None, "Shutdown"}
    BY <1>24 DEF handle_shutdown
  <2>5. status' \in [Conns -> Statuses]
    <3>1. "closed" \in Statuses
      BY DEF Statuses
    <3>2. status' = [c \in Conns |-> IF c \in Range(pending) THEN "closed" ELSE status[c]]
      BY <1>24 DEF handle_shutdown
    <3> QED
      BY <1>d, <3>1, <3>2
  <2>6. due' \subseteq {"flush", "drain", "pause"} \cup Conns
    BY <1>24, <1>e DEF handle_shutdown
  <2> QED
    BY <1>a, <1>b, <1>c, <1>d, <1>e, <2>1, <2>2, <2>3, <2>4, <2>5, <2>6 DEF Typed
<1>25. CASE read_pending
  <2>1. UNCHANGED <<backlog, journal, draining, delivered_end, ended, result, pty_open, child_exit,
                   accept_paused, sigPipe, sigterm, descriptors, sent, peer, room, output,
                   ptyRoom, child, slave>>
    BY <1>25 DEF read_pending
  <2>2. pending' \in Seq(Conns)
    <3>1. pending' = pending \/ pending' = Keep(pending, Conns \ {Head(todo).conn})
      BY <1>25 DEF read_pending, Waiting
    <3>2. \A S : Keep(pending, S) \in Seq(Conns)
      BY <1>a, KeepType
    <3> QED
      BY <1>a, <3>1, <3>2
  <2>3. status' \in [Conns -> Statuses]
    <3> DEFINE c == Head(todo).conn
               w == [d \in Conns |-> IF d = c THEN "client"
                                    ELSE IF status[d] = "client" THEN "displaced" ELSE status[d]]
    <3>1. CASE ended # None
      BY <1>25, <1>d, <3>1 DEF read_pending
    <3>2. CASE ended = None
      <4>1. c \in Conns
        BY <1>25, <3>2, WaitingIs
      <4>2. {"rejected", "busy", "client", "displaced"} \subseteq Statuses
        BY DEF Statuses
      <4>3. \/ status' = status
            \/ \E fate \in {"rejected", "busy"} : status' = [status EXCEPT ![c] = fate]
            \/ status' = w
        BY <1>25, <3>2 DEF read_pending
      <4> HIDE DEF c
      <4>4. w \in [Conns -> Statuses]
        BY <1>d, <4>2
      <4> HIDE DEF w
      <4> QED
        BY <1>d, <4>1, <4>2, <4>3, <4>4
    <3> QED
      BY <3>1, <3>2
  <2>4. due' \subseteq {"flush", "drain", "pause"} \cup Conns
    <3>1. due' \subseteq due
      BY <1>25 DEF read_pending
    <3> QED
      BY <1>e, <3>1
  <2>5. received' \in [Conns -> Nat]
    <3> DEFINE c == Head(todo).conn
               n == Received(c, MAX_BEFORE_HELLO)
    <3>1. CASE ended # None
      BY <1>25, <1>d, <3>1 DEF read_pending
    <3>2. CASE ended = None
      <4>1. c \in Conns /\ n \in Nat
        BY <1>25, <3>2, WaitingIs
      <4>2. received' = [received EXCEPT ![c] = n]
        BY <1>25, <3>2 DEF read_pending
      <4> HIDE DEF c, n
      <4> QED
        BY <1>d, <4>1, <4>2
    <3> QED
      BY <3>1, <3>2
  <2>6. acted' \in [Conns -> Nat]
    <3> DEFINE c == Head(todo).conn
               f == acted
               g == acted'
    <3>1. g = f \/ g = [f EXCEPT ![c] = 1]
      BY <1>25 DEF read_pending
    <3>2. f \in [Conns -> Nat]
      BY <1>d
    <3> HIDE DEF c, f, g
    <3>3. g \in [Conns -> Nat]
      BY <3>1, <3>2
    <3> QED
      BY <3>3 DEF g
  <2>7. /\ pending' \in Seq(Conns) /\ backlog' \in Seq(Conns)
        /\ journal' \in Seq({"child", "other", "resized", "exited", "exited_early"})
        /\ draining' \in (Nat \cup {None}) /\ delivered_end' \in Nat
    BY <1>a, <2>1, <2>2
  <2>8. /\ ended' \in {None, "Shutdown"} /\ result' \in {None, "Shutdown", "Terminated"}
        /\ pty_open' \in BOOLEAN /\ child_exit' \in BOOLEAN /\ accept_paused' \in BOOLEAN
        /\ sigPipe' \in BOOLEAN /\ sigterm' \in BOOLEAN /\ descriptors' \in BOOLEAN
    BY <1>b, <1>c, <2>1
  <2>9. /\ sent' \in [Conns -> Seq(Hellos \cup Frames)]
        /\ peer' \in [Conns -> {"open", "half", "closed"}] /\ room' \in [Conns -> 0 .. SOCKET_ROOM]
    BY <1>d, <2>1
  <2>10. /\ output' \in Seq({"child", "other"}) /\ ptyRoom' \in 0 .. PTY_ROOM
         /\ child' \in {"running", "zombie", "reaped"} /\ slave' \subseteq {"child", "other"}
    BY <1>e, <2>1
  <2> QED
    BY <2>3, <2>4, <2>5, <2>6, <2>7, <2>8, <2>9, <2>10 DEF Typed
<1>26. CASE expire_pending
  <2>1. UNCHANGED <<backlog, journal, draining, delivered_end, ended, result, pty_open, child_exit,
                   accept_paused, sigPipe, sigterm, descriptors, sent, received, acted,
                   peer, room, output, ptyRoom, child, slave>>
    BY <1>26 DEF expire_pending
  <2>2. pending' \in Seq(Conns)
    <3>1. \A S : Keep(pending, S) \in Seq(Conns)
      BY <1>a, KeepType
    <3> QED
      BY <1>26, <3>1 DEF expire_pending
  <2>3. status' \in [Conns -> Statuses]
    <3>1. "expired" \in Statuses
      BY DEF Statuses
    <3>2. status' = [c \in Conns |-> IF c \in Range(pending) \cap due THEN "expired" ELSE status[c]]
      BY <1>26 DEF expire_pending
    <3> QED
      BY <1>d, <3>1, <3>2
  <2>4. due' \subseteq {"flush", "drain", "pause"} \cup Conns
    BY <1>26, <1>e DEF expire_pending
  <2> QED
    BY <1>a, <1>b, <1>c, <1>d, <1>e, <2>1, <2>2, <2>3, <2>4 DEF Typed
<1>27. CASE accept
  <2>1. UNCHANGED <<journal, draining, delivered_end, ended, result, pty_open, child_exit, sigPipe,
                   sigterm, descriptors, sent, received, acted, peer, room, output, ptyRoom,
                   child, slave>>
    BY <1>27 DEF accept
  <2>2. pending' \in Seq(Conns)
    <3> DEFINE stop == ended # None \/ Head(todo).n = 0 \/ backlog = <<>> \/ ~ descriptors
               c == Head(backlog)
    <3>1. CASE stop
      BY <1>27, <1>a, <3>1 DEF accept
    <3>2. CASE ~ stop
      <4>1. c \in Conns
        BY <1>a, <3>2
      <4>2. pending' = pending \/ pending' = Append(pending, c) \/ (Len(pending) >= MAX_PENDING_CONNECTIONS /\ pending' = Append(Tail(pending), c))
        BY <1>27, <3>2 DEF accept
      <4>3. Len(pending) >= MAX_PENDING_CONNECTIONS => pending # <<>>
        BY <1>a, HostConstants
      <4>4. pending # <<>> => Tail(pending) \in Seq(Conns)
        BY <1>a
      <4> HIDE DEF c
      <4>5. \A seq \in Seq(Conns) : Append(seq, c) \in Seq(Conns)
        BY <4>1
      <4> QED
        BY <1>a, <4>2, <4>3, <4>4, <4>5
    <3> HIDE DEF stop
    <3> QED
      BY <3>1, <3>2
  <2>3. backlog' \in Seq(Conns)
    <3> DEFINE stop == ended # None \/ Head(todo).n = 0 \/ backlog = <<>> \/ ~ descriptors
               c == Head(backlog)
    <3>1. CASE stop
      BY <1>27, <1>a, <3>1 DEF accept
    <3>2. CASE ~ stop
      <4>1. backlog' = Tail(backlog) /\ backlog # <<>>
        BY <1>27, <3>2 DEF accept
      <4> QED
        BY <1>a, <4>1
    <3> HIDE DEF stop
    <3> QED
      BY <3>1, <3>2
  <2>4. status' \in [Conns -> Statuses]
    <3> DEFINE stop == ended # None \/ Head(todo).n = 0 \/ backlog = <<>> \/ ~ descriptors
               c == Head(backlog)
    <3>1. CASE stop
      BY <1>27, <1>d, <3>1 DEF accept
    <3>2. CASE ~ stop
      <4>1. {"rejected", "pending", "evicted"} \subseteq Statuses
        BY DEF Statuses
      <4>2. \E evicted : status' = [d \in Conns |-> IF d = c THEN IF c \in Foreign THEN "rejected" ELSE "pending"
                                                  ELSE IF d \in evicted THEN "evicted"
                                                  ELSE status[d]]
        BY <1>27, <3>2 DEF accept
      <4> QED
        BY <1>d, <4>1, <4>2
    <3> HIDE DEF stop
    <3> QED
      BY <3>1, <3>2
  <2>5. due' \subseteq {"flush", "drain", "pause"} \cup Conns
    <3>1. due' \subseteq due
      BY <1>27 DEF accept
    <3> QED
      BY <1>e, <3>1
  <2>6. accept_paused' \in BOOLEAN
    <3>1. accept_paused' = TRUE \/ accept_paused' = accept_paused
      BY <1>27 DEF accept
    <3> QED
      BY <1>c, <3>1
  <2> QED
    BY <1>a, <1>b, <1>c, <1>d, <1>e, <2>1, <2>2, <2>3, <2>4, <2>5, <2>6 DEF Typed
<1>28. CASE \E c \in Conns : connect(c)
  <2>1. UNCHANGED <<pending, journal, draining, delivered_end, ended, result, pty_open, child_exit,
                   accept_paused, sigPipe, sigterm, descriptors, sent, received, acted,
                   peer, room, output, ptyRoom, child, slave, due>>
    BY <1>28 DEF connect
  <2>2. status' \in [Conns -> Statuses]
    <3>1. "backlog" \in Statuses
      BY DEF Statuses
    <3> QED
      BY <1>28, <1>d, <3>1 DEF connect
  <2>3. backlog' \in Seq(Conns)
    BY <1>28, <1>a DEF connect
  <2> QED
    BY <1>a, <1>b, <1>c, <1>d, <1>e, <2>1, <2>2, <2>3 DEF Typed
<1>29. CASE \E c \in Conns : \E frame \in Hellos \cup Frames : peer_sends(c, frame)
  <2>1. UNCHANGED <<pending, backlog, journal, draining, delivered_end, ended, result, pty_open,
                   child_exit, accept_paused, sigPipe, sigterm, descriptors, status,
                   received, acted, peer, room, output, ptyRoom, child, slave, due>>
    BY <1>29 DEF peer_sends
  <2>2. sent' \in [Conns -> Seq(Hellos \cup Frames)]
    <3>1. PICK c \in Conns : \E frame \in Hellos \cup Frames : sent' = [sent EXCEPT ![c] = Append(@, frame)]
      BY <1>29 DEF peer_sends
    <3> DEFINE E == Hellos \cup Frames
    <3>2. PICK frame \in E : sent' = [sent EXCEPT ![c] = Append(@, frame)]
      BY <3>1
    <3> HIDE DEF E
    <3>3. sent \in [Conns -> Seq(E)]
      BY <1>d DEF E
    <3>4. Append(sent[c], frame) \in Seq(E)
      BY <3>3
    <3>5. sent' \in [Conns -> Seq(E)]
      BY <3>2, <3>3, <3>4
    <3> QED
      BY <3>5 DEF E
  <2> QED
    BY <1>a, <1>b, <1>c, <1>d, <1>e, <2>1, <2>2 DEF Typed
<1>30. CASE \E c \in Conns : \E how \in {"half", "closed"} : peer_closes(c, how)
  <2>1. UNCHANGED <<pending, backlog, journal, draining, delivered_end, ended, result, pty_open,
                   child_exit, accept_paused, sigPipe, sigterm, descriptors, status, sent,
                   received, acted, room, output, ptyRoom, child, slave, due>>
    BY <1>30 DEF peer_closes
  <2>2. peer' \in [Conns -> {"open", "half", "closed"}]
    BY <1>30, <1>d DEF peer_closes
  <2> QED
    BY <1>a, <1>b, <1>c, <1>d, <1>e, <2>1, <2>2 DEF Typed
<1>31. CASE \E c \in Conns : peer_takes(c)
  <2>1. UNCHANGED <<pending, backlog, journal, draining, delivered_end, ended, result, pty_open,
                   child_exit, accept_paused, sigPipe, sigterm, descriptors, status, sent,
                   received, acted, peer, output, ptyRoom, child, slave, due>>
    BY <1>31 DEF peer_takes
  <2>2. room' \in [Conns -> 0 .. SOCKET_ROOM]
    BY <1>31, <1>d, HostConstants DEF peer_takes
  <2> QED
    BY <1>a, <1>b, <1>c, <1>d, <1>e, <2>1, <2>2 DEF Typed
<1>32. CASE \E who \in {"child", "other"} : program_writes(who)
  <2>1. UNCHANGED <<pending, backlog, journal, draining, delivered_end, ended, result, pty_open,
                   child_exit, accept_paused, sigPipe, sigterm, descriptors, status, sent,
                   received, acted, peer, room, ptyRoom, child, slave, due>>
    BY <1>32 DEF program_writes
  <2>2. output' \in Seq({"child", "other"})
    BY <1>32, <1>e DEF program_writes
  <2> QED
    BY <1>a, <1>b, <1>c, <1>d, <1>e, <2>1, <2>2 DEF Typed
<1>33. CASE program_takes
  <2>1. UNCHANGED <<pending, backlog, journal, draining, delivered_end, ended, result, pty_open,
                   child_exit, accept_paused, sigPipe, sigterm, descriptors, status, sent,
                   received, acted, peer, room, output, child, slave, due>>
    BY <1>33 DEF program_takes
  <2>2. ptyRoom' \in 0 .. PTY_ROOM
    BY <1>33, HostConstants DEF program_takes
  <2> QED
    BY <1>a, <1>b, <1>c, <1>d, <1>e, <2>1, <2>2 DEF Typed
<1>34. CASE child_exits
  <2>1. UNCHANGED <<pending, backlog, journal, draining, delivered_end, ended, result, pty_open,
                   child_exit, accept_paused, sigterm, descriptors, status, sent, received,
                   acted, peer, room, output, ptyRoom, due>>
    BY <1>34 DEF child_exits
  <2>2. child' \in {"running", "zombie", "reaped"}
    BY <1>34 DEF child_exits
  <2>3. slave' \subseteq {"child", "other"}
    BY <1>34, <1>e DEF child_exits
  <2>4. sigPipe' \in BOOLEAN
    BY <1>34 DEF child_exits
  <2> QED
    BY <1>a, <1>b, <1>c, <1>d, <1>e, <2>1, <2>2, <2>3, <2>4 DEF Typed
<1>35. CASE sigterm_arrives
  <2>1. UNCHANGED <<pending, backlog, journal, draining, delivered_end, ended, result, pty_open,
                   child_exit, accept_paused, descriptors, status, sent, received, acted,
                   peer, room, output, ptyRoom, child, slave, due>>
    BY <1>35 DEF sigterm_arrives
  <2>2. sigterm' \in BOOLEAN
    BY <1>35 DEF sigterm_arrives
  <2>3. sigPipe' \in BOOLEAN
    BY <1>35 DEF sigterm_arrives
  <2> QED
    BY <1>a, <1>b, <1>c, <1>d, <1>e, <2>1, <2>2, <2>3 DEF Typed
<1>36. CASE \E who \in {"child", "other"} : let_go(who)
  <2>1. UNCHANGED <<pending, backlog, journal, draining, delivered_end, ended, result, pty_open,
                   child_exit, accept_paused, sigPipe, sigterm, descriptors, status, sent,
                   received, acted, peer, room, output, ptyRoom, child, due>>
    BY <1>36 DEF let_go
  <2>2. slave' \subseteq {"child", "other"}
    BY <1>36, <1>e DEF let_go
  <2> QED
    BY <1>a, <1>b, <1>c, <1>d, <1>e, <2>1, <2>2 DEF Typed
<1>37. CASE \E d \in {"flush", "drain", "pause"} \cup Conns : deadline_passes(d)
  <2>1. UNCHANGED <<pending, backlog, journal, draining, delivered_end, ended, result, pty_open,
                   child_exit, accept_paused, sigPipe, sigterm, descriptors, status, sent,
                   received, acted, peer, room, output, ptyRoom, child, slave>>
    BY <1>37 DEF deadline_passes
  <2>2. due' \subseteq {"flush", "drain", "pause"} \cup Conns
    BY <1>37, <1>e DEF deadline_passes
  <2> QED
    BY <1>a, <1>b, <1>c, <1>d, <1>e, <2>1, <2>2 DEF Typed
<1>38. CASE descriptors_change
  <2>1. UNCHANGED <<pending, backlog, journal, draining, delivered_end, ended, result, pty_open,
                   child_exit, accept_paused, sigPipe, sigterm, status, sent, received,
                   acted, peer, room, output, ptyRoom, child, slave, due>>
    BY <1>38 DEF descriptors_change
  <2>2. descriptors' \in BOOLEAN
    BY <1>38 DEF descriptors_change
  <2> QED
    BY <1>a, <1>b, <1>c, <1>d, <1>e, <2>1, <2>2 DEF Typed
<1> QED
  BY <1>1, <1>2, <1>3, <1>4, <1>5, <1>6, <1>7, <1>8, <1>9, <1>10, <1>11, <1>12, <1>13, <1>14, <1>15, <1>16, <1>17, <1>18, <1>19, <1>20, <1>21, <1>22, <1>23, <1>24, <1>25, <1>26, <1>27, <1>28, <1>29, <1>30, <1>31, <1>32, <1>33, <1>34, <1>35, <1>36, <1>37, <1>38 DEF Next, HostStep, EnvironmentStep

-----------------------------------------------------------------------------
(* The invariant.                                                          *)

LEMMA InitIndInv == Init => IndInv
<1> SUFFICES ASSUME Init PROVE IndInv
  OBVIOUS
<1>1. /\ todo = <<>> /\ client = None /\ pending = <<>> /\ journal = <<>> /\ backlog = <<>>
      /\ output = <<>> /\ draining = None /\ ended = None /\ result = None /\ child = "running"
      /\ pty_open = TRUE /\ child_exit = FALSE /\ sigPipe = FALSE /\ sigterm = FALSE
  BY DEF Init
<1>2. 1 .. Len(<<>>) = {} /\ DOMAIN <<>> = {} /\ Range(<<>>) = {} /\ Len(<<>>) = 0 /\ 2 .. 0 = {}
  BY DEF Range
<1>3. SOCKET_ROOM \in 0 .. SOCKET_ROOM /\ PTY_ROOM \in 0 .. PTY_ROOM
  BY HostConstants
<1>4. \A c \in Conns : /\ status[c] = "none" /\ sent[c] = <<>> /\ received[c] = 0 /\ acted[c] = 0
  BY DEF Init
<1>5. AgendaOK(todo) /\ OpsOf(todo) = {}
  BY <1>1, AsleepOps
<1>6. TypeOK
  <2>1. todo \in Seq(Entry)
    BY <1>5 DEF AgendaOK
  <2>2. /\ client \in Clients \cup {None} /\ draining \in Nat \cup {None}
        /\ ended \in {None, "Shutdown"} /\ result \in {None, "Shutdown", "Terminated"}
    BY <1>1
  <2>3. /\ pending \in Seq(Conns) /\ backlog \in Seq(Conns)
        /\ journal \in Seq({"child", "other", "resized", "exited", "exited_early"})
        /\ output \in Seq({"child", "other"}) /\ delivered_end \in Nat
        /\ child \in {"running", "zombie", "reaped"} /\ slave \subseteq {"child", "other"}
        /\ due \subseteq {"flush", "drain", "pause"} \cup Conns
    BY DEF Init
  <2>4. /\ pty_open \in BOOLEAN /\ child_exit \in BOOLEAN /\ accept_paused \in BOOLEAN
        /\ sigPipe \in BOOLEAN /\ sigterm \in BOOLEAN /\ descriptors \in BOOLEAN
    BY DEF Init
  <2>5. /\ status \in [Conns -> Statuses] /\ peer \in [Conns -> {"open", "half", "closed"}]
        /\ received \in [Conns -> Nat] /\ acted \in [Conns -> Nat]
        /\ sent \in [Conns -> Seq(Hellos \cup Frames)]
    BY DEF Init, Statuses
  <2>6. room \in [Conns -> 0 .. SOCKET_ROOM] /\ ptyRoom \in 0 .. PTY_ROOM
    BY <1>3 DEF Init
  <2>7. \A b \in {pty_open, child_exit, accept_paused, sigPipe, sigterm, descriptors} : b \in BOOLEAN
    BY <2>4
  <2> QED
    BY <2>1, <2>2, <2>3, <2>5, <2>6, <2>7 DEF TypeOK
<1>7. Woken
  <2>1. todo # <<Do("poll")>>
    BY <1>1
  <2>2. Stops
    BY <1>1 DEF Stops
  <2> QED
    BY <1>1, <1>5, <2>1, <2>2 DEF Woken
<1>8. Exits
  <2>1. ExitAfterOutput
    BY <1>1, <1>2 DEF ExitAfterOutput
  <2> QED
    BY <1>1, <1>2, <2>1 DEF Exits
<1>9. Connections
  <2>1. Counted
    <3> SUFFICES ASSUME NEW c \in Conns
                 PROVE  /\ acted[c] <= received[c] /\ received[c] <= Len(sent[c])
                        /\ Len(sent[c]) <= received[c] + RECEIVE_LIMIT
                        /\ \A i \in 1 .. Len(sent[c]) : sent[c][i] \in IF i = 1 THEN Hellos ELSE Frames
                        /\ status[c] \in {"none", "backlog", "pending"} => acted[c] = 0
      BY DEF Counted
    <3>1. 0 <= 0 + RECEIVE_LIMIT /\ 0 <= 0
      BY HostConstants
    <3> QED
      BY <1>2, <1>4, <3>1
  <2>2. ConnectionsPlaced
    <3>1. 0 <= MAX_PENDING_CONNECTIONS
      BY HostConstants
    <3> QED
      BY <1>1, <1>2, <1>4, <3>1 DEF ConnectionsPlaced
  <2>3. Met /\ Injective(pending) /\ Injective(backlog) /\ Pointed
    BY <1>1, <1>2 DEF Met, Injective, Pointed
  <2> QED
    BY <2>1, <2>2, <2>3 DEF Connections
<1>10. Closing
  <2>1. CloseActsOnEverything
    BY <1>4 DEF CloseActsOnEverything
  <2> QED
    BY <1>1, <1>2, <1>4, <1>5, <2>1 DEF Closing
<1>11. Served
  BY <1>1 DEF Served
<1> QED
  BY <1>5, <1>6, <1>7, <1>8, <1>9, <1>10, <1>11 DEF IndInv

LEMMA NextIndInv == IndInv /\ [Next]_vars => IndInv'
<1> SUFFICES ASSUME IndInv, [Next]_vars PROVE IndInv'
  OBVIOUS
<1>1. TypeOK /\ AgendaOK(todo) /\ Woken /\ Exits /\ Connections /\ Closing /\ Served
  BY DEF IndInv
<1>2. Injective(pending)
  BY <1>1 DEF Connections
<1>3. AgendaOK(todo')
  BY <1>1, <1>2, AgendaStep
<1>4. Woken'
  BY <1>1, <1>3, WokenStep
<1>5. Exits'
  BY <1>1, ExitsStep
<1>6. Connections'
  BY <1>1, ConnectionsStep
<1>7. Closing'
  BY <1>1, <1>3, ClosingStep
<1>8. Served'
  BY <1>1, ServedStep
<1>9. Typed
  BY <1>1, TypedStep
<1>10. TypeOK'
  BY <1>3, <1>8, <1>9, TypedIsTypeOK
<1> QED
  BY <1>3, <1>4, <1>5, <1>6, <1>7, <1>8, <1>10 DEF IndInv

-----------------------------------------------------------------------------
(* Input at the end of output.                                             *)

\* A host that read the end of output starts no Input.
Unstarted == ~ pty_open /\ client # None /\ client.input # <<>> => client.input[1] = 0

LEMMA UnstartedKept ==
    ASSUME Unstarted, UNCHANGED pty_open,
           \/ client' = None
           \/ client' = client
           \/ client'.input = <<>>
           \/ client # None /\ client'.input = client.input
    PROVE  Unstarted'
BY DEF Unstarted

LEMMA UnstartedStep ==
    ASSUME TypeOK, AgendaOK(todo), Connections, Closing, Served, Unstarted, [Next]_vars
    PROVE  Unstarted'
<1> USE DEF Environment, hostVars, connVars, kernelVars
<1>1. CASE EnvironmentStep
  <2>1. UNCHANGED <<pty_open, client>>
    BY <1>1 DEF EnvironmentStep, connect, peer_sends, peer_closes, peer_takes, program_writes,
                program_takes, child_exits, sigterm_arrives, let_go, deadline_passes,
                descriptors_change
  <2> QED
    BY <2>1, UnstartedKept
<1>2. CASE UNCHANGED vars
  <2>1. UNCHANGED <<pty_open, client>>
    BY <1>2 DEF vars
  <2> QED
    BY <2>1, UnstartedKept
<1>3. CASE step_terminated \/ poll \/ poll_interrupted \/ drain_signal_pipe \/ reap_child
           \/ finish_drain \/ read_client \/ close_receive \/ act_on_buffered \/ expire_pending
           \/ accept
  <2>1. UNCHANGED <<pty_open, client>>
    BY <1>3 DEF step_terminated, poll, poll_interrupted, drain_signal_pipe, reap_child,
                finish_drain, read_client, close_receive, act_on_buffered, expire_pending, accept
  <2> QED
    BY <2>1, UnstartedKept
<1>4. CASE handle_resize
  <2>1. UNCHANGED <<pty_open, client>>
    BY <1>4 DEF handle_resize, Acting
  <2> QED
    BY <2>1, UnstartedKept
<1>5. CASE step_ended \/ step_begin \/ close_drop
  <2>1. UNCHANGED pty_open /\ (client' = None \/ client' = client)
    BY <1>5 DEF step_ended, step_begin, close_drop, drop_client
  <2> QED
    BY <2>1, UnstartedKept
<1>6. CASE read_pty
  <2>0. pty_open \in BOOLEAN
    BY DEF TypeOK
  <2>1. UNCHANGED <<pty_open, client>> \/ client' = discard_input(client)
    <3>1. PICK endOfOutput \in BOOLEAN :
              /\ pty_open' = (pty_open /\ ~ endOfOutput)
              /\ client' = IF endOfOutput THEN discard_input(client) ELSE client
      BY <1>6 DEF read_pty
    <3> QED
      BY <2>0, <3>1
  <2>2. CASE UNCHANGED <<pty_open, client>>
    BY <2>2, UnstartedKept
  <2>3. CASE client' = discard_input(client) /\ client # None
    <3>1. client'.input = <<>>
      BY <2>3, DiscardInput DEF Served
    <3> QED
      BY <3>1 DEF Unstarted
  <2>4. CASE client' = discard_input(client) /\ client = None
    <3>1. client' = None
      BY <2>4 DEF discard_input
    <3> QED
      BY <3>1 DEF Unstarted
  <2> QED
    BY <2>1, <2>2, <2>3, <2>4
<1>7. CASE write_input
  <2>1. UNCHANGED pty_open
    BY <1>7 DEF write_input
  <2>2. CASE pty_open
    BY <2>1, <2>2 DEF Unstarted
  <2>3. CASE client = None
    <3>1. client' = client
      BY <1>7, <2>3 DEF write_input
    <3> QED
      BY <2>1, <3>1, UnstartedKept
  <2>4. CASE client # None /\ ~ pty_open
    <3>1. client' = discard_input(client)
      BY <1>7, <2>4 DEF write_input
    <3>2. client'.input = <<>>
      BY <2>4, <3>1, DiscardInput DEF Served
    <3> QED
      BY <2>1, <3>2, UnstartedKept
  <2> QED
    BY <2>2, <2>3, <2>4
<1>8. CASE refill_outgoing
  <2>1. UNCHANGED pty_open
    BY <1>8 DEF refill_outgoing
  <2>2. CASE CanRefill
    <3>1. client # None /\ client'.input = client.input
      BY <1>8, <2>2, Refilled
    <3> QED
      BY <2>1, <3>1, UnstartedKept
  <2>3. CASE ~ CanRefill
    <3>1. client' = client
      BY <1>8, <2>3 DEF refill_outgoing
    <3> QED
      BY <2>1, <3>1, UnstartedKept
  <2> QED
    BY <2>2, <2>3
<1>9. CASE write_client
  <2>1. UNCHANGED pty_open
    BY <1>9 DEF write_client
  <2>2. CASE client # None /\ client.outgoing # <<>> /\ peer[client.conn] # "closed"
    <3>1. client'.input = client.input
      BY <1>9, <2>2, FrontWritten
    <3> QED
      BY <2>1, <2>2, <3>1, UnstartedKept
  <2>3. CASE ~ (client # None /\ client.outgoing # <<>> /\ peer[client.conn] # "closed")
    <3>1. client' = None \/ client' = client
      BY <1>9, <2>3 DEF write_client, drop_client
    <3> QED
      BY <2>1, <3>1, UnstartedKept
  <2> QED
    BY <2>2, <2>3
<1>10. CASE close_client
  <2>1. UNCHANGED pty_open
    BY <1>10 DEF close_client
  <2>2. CASE client = None
    <3>1. client' = client
      BY <1>10, <2>2 DEF close_client
    <3> QED
      BY <2>1, <3>1, UnstartedKept
  <2>3. CASE client # None
    <3>1. ClientOK(client') /\ client'.gone = TRUE
      BY <1>10, <2>3, ClosedClient
    <3>2. client'.input = <<>>
      BY <3>1 DEF ClientOK, Inputs
    <3> QED
      BY <2>1, <3>2, UnstartedKept
  <2> QED
    BY <2>2, <2>3
<1>11. ASSUME Handling, NEW kind \in LastFrames, client' = end_connection(client, kind)
       PROVE  client'.input = <<>>
  <2>1. ClientOK(client') /\ client'.closing = TRUE
    BY <1>11, Ended
  <2> QED
    BY <2>1 DEF ClientOK, Inputs
<1>12. CASE handle_malformed \/ handle_hello \/ handle_shutdown
  <2>1. UNCHANGED pty_open /\ Handling
    BY <1>12 DEF handle_malformed, handle_hello, handle_shutdown, Acting, Handling
  <2>2. \E kind \in LastFrames : client' = end_connection(client, kind)
    BY <1>12 DEF handle_malformed, handle_hello, handle_shutdown, refuse_client, LastFrames
  <2>3. client'.input = <<>>
    BY <1>11, <2>1, <2>2
  <2> QED
    BY <2>1, <2>3, UnstartedKept
<1>13. CASE handle_info_snapshot
  <2>1. UNCHANGED pty_open
    BY <1>13 DEF handle_info_snapshot, Acting
  <2>2. client # None /\ client'.input = client.input
    BY <1>13, Answered, FrameFound DEF Handling
  <2> QED
    BY <2>1, <2>2, UnstartedKept
<1>14. CASE handle_read
  <2>1. UNCHANGED pty_open /\ Handling
    BY <1>14 DEF handle_read, Acting, Handling
  <2>2. client # None
    BY <2>1, FrameFound
  <2>3. CASE client.reading
    <3>1. client' = end_connection(client, "Error")
      BY <1>14, <2>3 DEF handle_read, refuse_client
    <3>2. client'.input = <<>>
      BY <1>11, <2>1, <3>1 DEF LastFrames
    <3> QED
      BY <2>1, <3>2, UnstartedKept
  <2>4. CASE ~ client.reading
    <3>1. client'.input = client.input
      BY <1>14, <2>4, ReadTaken
    <3> QED
      BY <2>1, <2>2, <3>1, UnstartedKept
  <2> QED
    BY <2>3, <2>4
<1>15. CASE handle_input
  <2>1. UNCHANGED pty_open
    BY <1>15 DEF handle_input, Acting
  <2>2. client # None /\ ~ client.closing
    BY <1>15, FrameFound DEF Handling
  <2>3. CASE client.gone
    <3>1. client' = client
      BY <1>15, <2>3 DEF handle_input
    <3> QED
      BY <2>1, <3>1, UnstartedKept
  <2>4. CASE ~ client.gone
    <3>1. client \in Clients /\ client.input \in Seq(0 .. (INPUT_LEN - 1))
      BY <2>2, ClientType DEF TypeOK, Written
    <3>2. client'.input = Append(client.input, 0)
      <4>1. client' = [client EXCEPT !.input = Append(@, 0),
                                     !.input_cost = @ + INPUT_LEN + INPUT_COST]
        BY <1>15, <2>4 DEF handle_input
      <4> QED
        BY <3>1, <4>1 DEF Clients
    <3>3. CASE client.input = <<>>
      <4>1. client'.input[1] = 0
        BY <3>2, <3>3
      <4> QED
        BY <4>1 DEF Unstarted
    <3>4. CASE client.input # <<>>
      <4>1. client'.input[1] = client.input[1]
        BY <3>1, <3>2, <3>4
      <4> QED
        BY <2>1, <2>2, <3>4, <4>1 DEF Unstarted
    <3> QED
      BY <3>3, <3>4
  <2> QED
    BY <2>3, <2>4
<1>16. CASE read_pending
  <2>1. UNCHANGED pty_open
    BY <1>16 DEF read_pending
  <2>2. client' = client \/ client' = NewClient(Head(todo).conn)
    BY <1>16 DEF read_pending
  <2>3. NewClient(Head(todo).conn).input = <<>>
    BY DEF NewClient
  <2> QED
    BY <2>1, <2>2, <2>3, UnstartedKept
<1> QED
  BY <1>1, <1>2, <1>3, <1>4, <1>5, <1>6, <1>7, <1>8, <1>9, <1>10, <1>12, <1>13, <1>14, <1>15, <1>16
     DEF Next, HostStep

LEMMA UnstartedAlways == Spec => []Unstarted
<1>1. Init => Unstarted
  BY DEF Init, Unstarted
<1>2. IndInv /\ Unstarted /\ [Next]_vars => Unstarted'
  BY UnstartedStep DEF IndInv
<1>3. Init => IndInv
  BY InitIndInv
<1>4. IndInv /\ [Next]_vars => IndInv'
  BY NextIndInv
<1> QED
  BY <1>1, <1>2, <1>3, <1>4, PTL DEF Spec

-----------------------------------------------------------------------------
(* What the invariant says of the queues.                                  *)

\* Two acknowledgements follow each other only at the front.
Spaced(q) == \A i \in 1 .. (Len(q) - 1) : IsAck(q[i]) /\ IsAck(q[i + 1]) => i = 1

OthersIn(q) == Len(OfKind(q, Others))

\* So that a queue has at most two more of them than of the others, or one
\* more when its last frame is not one.
LEMMA AcksBounded ==
    ASSUME NEW q \in Seq(Framed), Spaced(q)
    PROVE  Len(Acks(q)) <= OthersIn(q) + 2
<1> DEFINE Few(t) == /\ Len(Acks(t)) <= OthersIn(t) + 2
                     /\ t # <<>> /\ ~ IsAck(t[Len(t)]) => Len(Acks(t)) <= OthersIn(t) + 1
           R == {n \in Nat : \A t \in Seq(Framed) : Len(t) = n /\ Spaced(t) => Few(t)}
<1>1. 0 \in R
  <2>1. \A t \in Seq(Framed) : Len(t) = 0 => t = <<>>
    OBVIOUS
  <2>2. Acks(<<>>) = <<>> /\ OthersIn(<<>>) = 0
    BY OfKindOfNone DEF Acks, OthersIn
  <2>3. Few(<<>>)
    BY <2>2
  <2> QED
    BY <2>1, <2>3
<1>2. ASSUME NEW n \in Nat, n \in R PROVE n + 1 \in R
  <2>1. SUFFICES ASSUME NEW t \in Seq(Framed), Len(t) = n + 1, Spaced(t) PROVE Few(t)
    OBVIOUS
  <2> DEFINE u == Front(t)
             x == Last(t)
  <2>2. t # <<>>
    BY <2>1
  <2>3. u \in Seq(Framed) /\ x \in Framed /\ Len(u) = Len(t) - 1 /\ t = Append(u, x)
    BY <2>1, <2>2, LastOf
  <2> HIDE DEF u, x
  <2>4. Len(u) = n /\ t[n + 1] = x /\ \A i \in 1 .. n : t[i] = u[i]
    BY <2>1, <2>3
  <2>5. Spaced(u)
    <3>1. \A i \in 1 .. (n - 1) : i \in 1 .. n /\ i + 1 \in 1 .. n /\ i \in 1 .. ((n + 1) - 1)
      OBVIOUS
    <3> QED
      BY <2>1, <2>4, <3>1 DEF Spaced
  <2>6. Few(u)
    BY <1>2, <2>3, <2>4, <2>5
  <2> HIDE DEF R
  <2>7. x.kind \in Others <=> ~ IsAck(x)
    BY <2>3, FrameType DEF Others, IsAck
  <2>8. Acks(u) \in Seq(Framed) /\ OfKind(u, Others) \in Seq(Framed)
    BY <2>3, OfKindType DEF Acks
  <2> DEFINE a == Len(Acks(u))
             o == OthersIn(u)
             A == Len(Acks(t))
             O == OthersIn(t)
  <2>9. a \in Nat /\ o \in Nat
    BY <2>8 DEF OthersIn
  <2>10. IsAck(x) => A = a + 1 /\ O = o
    <3>1. x.kind \in {"InputAck"} <=> IsAck(x)
      BY DEF IsAck
    <3> QED
      BY <2>3, <2>7, <2>8, <3>1, OfKindOfAppend DEF Acks, OthersIn
  <2>11. ~ IsAck(x) => A = a /\ O = o + 1
    <3>1. x.kind \in {"InputAck"} <=> IsAck(x)
      BY DEF IsAck
    <3>2. ~ IsAck(x) => Acks(t) = Acks(u)
      BY <2>3, <3>1, OfKindOfAppend DEF Acks
    <3>3. ~ IsAck(x) => OfKind(t, Others) = Append(OfKind(u, Others), x)
      BY <2>3, <2>7, OfKindOfAppend
    <3> QED
      BY <2>8, <3>2, <3>3 DEF OthersIn
  <2>12. a <= o + 2 /\ (u # <<>> /\ ~ IsAck(u[n]) => a <= o + 1)
    BY <2>4, <2>6
  <2>13. IsAck(x) => a <= o + 1
    <3>1. CASE n = 0
      <4>1. u = <<>>
        BY <2>3, <2>4, <3>1
      <4>2. a = 0
        BY <4>1, OfKindOfNone DEF Acks
      <4> QED
        BY <2>9, <4>2
    <3>2. CASE n # 0 /\ IsAck(x) /\ IsAck(u[n])
      <4>1. n \in 1 .. n /\ n \in 1 .. (Len(t) - 1)
        BY <2>1, <3>2
      <4>2. IsAck(t[n]) /\ IsAck(t[n + 1])
        BY <2>4, <3>2, <4>1
      <4>3. n = 1
        BY <2>1, <4>1, <4>2 DEF Spaced
      <4>4. a <= 1
        <5>1. Len(Acks(u)) <= Len(u)
          BY <2>3, KeepType DEF Acks, OfKind
        <5> QED
          BY <2>4, <4>3, <5>1
      <4> QED
        BY <2>9, <4>4
    <3>3. CASE n # 0 /\ ~ IsAck(u[n])
      <4>1. u # <<>>
        BY <2>4, <3>3
      <4> QED
        BY <2>12, <3>3, <4>1
    <3> QED
      BY <3>1, <3>2, <3>3
  <2>14. t[Len(t)] = x
    BY <2>1, <2>4
  <2> HIDE DEF a, o
  <2>15. CASE IsAck(x)
    <3>1. A <= O + 2
      BY <2>9, <2>10, <2>13, <2>15
    <3> QED
      BY <2>14, <2>15, <3>1
  <2>16. CASE ~ IsAck(x)
    <3>1. A <= O + 1 /\ A <= O + 2
      BY <2>9, <2>11, <2>12, <2>16
    <3> QED
      BY <3>1
  <2> QED
    BY <2>15, <2>16
<1> HIDE DEF R
<1>3. Len(q) \in R
  BY <1>1, <1>2, NatSetInduction
<1> QED
  BY <1>3 DEF R

\* Where the acknowledgements of a queue are in it.
LEMMA AcksEmbed ==
    ASSUME NEW q \in Seq(Framed)
    PROVE  /\ Acks(q) \in Seq(Framed)
           /\ \E e : /\ \A i \in 1 .. Len(Acks(q)) :
                            e[i] \in 1 .. Len(q) /\ Acks(q)[i] = q[e[i]] /\ IsAck(q[e[i]])
                     /\ \A i, j \in 1 .. Len(Acks(q)) : i < j => e[i] < e[j]
                     /\ \A k \in 1 .. Len(q) : IsAck(q[k]) => \E i \in 1 .. Len(Acks(q)) : e[i] = k
<1> DEFINE S == [kind : {"InputAck"}, value : Nat, written : 0 .. (FRAME - 1)]
           A == Keep(q, S)
           n == Len(A)
           m == Len(q)
<1>1. A = Acks(q)
  BY DEF Acks, OfKind
<1>2. \A x \in Framed : x \in S <=> IsAck(x)
  BY KindIs DEF IsAck
<1>3. \A i \in 1 .. m : q[i] \in Framed
  OBVIOUS
<1> HIDE DEF S
<1>q. q \in Seq(Framed)
  OBVIOUS
<1>4. \E e \in [1 .. n -> 1 .. m] :
          /\ \A i \in 1 .. n : A[i] = q[e[i]]
          /\ \A i, j \in 1 .. n : i < j => e[i] < e[j]
          /\ \A k \in 1 .. m : q[k] \in S => \E i \in 1 .. n : e[i] = k
  BY KeepEmbeds
<1>5. A \in Seq(Framed) /\ \A i \in 1 .. n : A[i] \in S
  BY KeepType
<1> HIDE DEF A, n, m
<1>6. PICK e \in [1 .. n -> 1 .. m] :
          /\ \A i \in 1 .. n : A[i] = q[e[i]]
          /\ \A i, j \in 1 .. n : i < j => e[i] < e[j]
          /\ \A k \in 1 .. m : q[k] \in S => \E i \in 1 .. n : e[i] = k
  BY <1>4
<1>7. \A i \in 1 .. n : e[i] \in 1 .. m /\ A[i] = q[e[i]] /\ IsAck(q[e[i]])
  BY <1>2, <1>3, <1>5, <1>6
<1>8. \A k \in 1 .. m : IsAck(q[k]) => \E i \in 1 .. n : e[i] = k
  BY <1>2, <1>3, <1>6
<1>9. \E f : /\ \A i \in 1 .. n : f[i] \in 1 .. m /\ A[i] = q[f[i]] /\ IsAck(q[f[i]])
             /\ \A i, j \in 1 .. n : i < j => f[i] < f[j]
             /\ \A k \in 1 .. m : IsAck(q[k]) => \E i \in 1 .. n : f[i] = k
  BY <1>6, <1>7, <1>8
<1> QED
  BY <1>1, <1>5, <1>9 DEF n, m

LEMMA FirstThen ==
    ASSUME NEW x \in Nat, NEW v \in Seq(Nat)
    PROVE  /\ Len(Then(<<x>>, v)) = Len(v) + 1 /\ Then(<<x>>, v)[1] = x
           /\ \A i \in 1 .. Len(v) : Then(<<x>>, v)[i + 1] = v[i]
<1> DEFINE t == <<x>> \o v
<1>1. Len(t) = Len(v) + 1 /\ t[1] = x
  OBVIOUS
<1>2. \A i \in 1 .. Len(v) : t[i + 1] = v[i]
  OBVIOUS
<1> QED
  BY <1>1, <1>2 DEF Then

\* A total told first, and greater ones after it.
LEMMA TellsMore ==
    ASSUME NEW v \in Seq(Nat), NEW ack \in Nat,
           \A i \in 1 .. Len(v) : ack < v[i],
           \A i, j \in 1 .. Len(v) : i < j => v[i] < v[j]
    PROVE  /\ Len(Then(<<ack>>, v)) = Len(v) + 1 /\ Then(<<ack>>, v)[1] = ack
           /\ \A i \in 1 .. Len(v) : Then(<<ack>>, v)[i + 1] = v[i]
           /\ \A i \in 2 .. (Len(v) + 1) : Then(<<ack>>, v)[i - 1] < Then(<<ack>>, v)[i]
<1> DEFINE n == Len(v)
           s == <<ack>>
           told == Then(s, v)
<1>2. n \in Nat /\ \A i \in 1 .. n : v[i] \in Nat
  OBVIOUS
<1> HIDE DEF s
<1>3. /\ Len(Then(s, v)) = Len(v) + 1 /\ Then(s, v)[1] = ack
      /\ \A i \in 1 .. Len(v) : Then(s, v)[i + 1] = v[i]
  BY FirstThen DEF s
<1>4. (\A i \in 1 .. n : ack < v[i]) /\ (\A i, j \in 1 .. n : i < j => v[i] < v[j])
  OBVIOUS
<1> HIDE DEF n, told
<1>5. Len(told) = n + 1 /\ told[1] = ack
  BY <1>3 DEF n, told
<1>6. \A i \in 1 .. n : told[i + 1] = v[i]
  BY <1>3 DEF n, told
<1>7. ASSUME NEW i \in 2 .. (n + 1) PROVE told[i - 1] < told[i]
  <2>1. i - 1 \in 1 .. n /\ (i - 1) + 1 = i
    BY <1>2
  <2>2. told[i] = v[i - 1]
    BY <1>6, <2>1
  <2>3. CASE i = 2
    <3>1. i - 1 = 1
      BY <2>3
    <3> QED
      BY <1>4, <1>5, <2>1, <2>2, <3>1
  <2>4. CASE i # 2
    <3>1. i - 2 \in 1 .. n /\ (i - 2) + 1 = i - 1 /\ i - 2 < i - 1
      BY <1>2, <2>4
    <3>2. told[i - 1] = v[i - 2]
      BY <1>6, <3>1
    <3> QED
      BY <1>4, <2>1, <2>2, <3>1, <3>2
  <2> QED
    BY <2>3, <2>4
<1> QED
  BY <1>5, <1>6, <1>7 DEF n, told, s

\* The last of them tells of all, when one does or nothing is left to tell.
LEMMA LastTellsAll ==
    ASSUME NEW n \in Nat, NEW v, NEW ack \in Nat, NEW all \in Nat,
           \A i \in 1 .. n : v[i] \in Nat,
           \A i \in 1 .. n : ack < v[i],
           \A i \in 1 .. n : v[i] <= all,
           \A i, j \in 1 .. n : i < j => v[i] < v[j],
           ack = all \/ \E k \in 1 .. n : v[k] = all
    PROVE  \/ n = 0 /\ ack = all
           \/ n \in 1 .. n /\ v[n] = all
<1>1. CASE ack = all
  <2>1. \A i \in 1 .. n : FALSE
    <3> TAKE i \in 1 .. n
    <3>1. v[i] \in Nat /\ ack < v[i] /\ v[i] <= all
      OBVIOUS
    <3> QED
      BY <1>1, <3>1
  <2>2. n # 0 => 1 \in 1 .. n
    OBVIOUS
  <2> QED
    BY <1>1, <2>1, <2>2
<1>2. CASE \E k \in 1 .. n : v[k] = all
  <2>1. PICK k \in 1 .. n : v[k] = all
    BY <1>2
  <2>2. n \in 1 .. n /\ (k = n \/ k < n)
    OBVIOUS
  <2>3. CASE k < n
    <3>1. v[k] < v[n] /\ v[n] <= all /\ v[n] \in Nat
      BY <2>2, <2>3
    <3> QED
      BY <2>1, <3>1
  <2> QED
    BY <2>1, <2>2, <2>3
<1> QED
  BY <1>1, <1>2

\* The acknowledgements handed and queued tell of more and more, and of all.
LEMMA TellsProgress ==
    ASSUME NEW q \in Seq(Framed), NEW ack \in Nat, NEW all \in Nat, Told(q, ack, all),
           NEW v \in Seq(Nat), Len(v) = Len(Acks(q)),
           \A i \in 1 .. Len(v) : v[i] = Acks(q)[i].value
    PROVE  /\ \A i \in 2 .. Len(Then(<<ack>>, v)) : Then(<<ack>>, v)[i - 1] < Then(<<ack>>, v)[i]
           /\ ToldAll(q, ack, all) => Then(<<ack>>, v)[Len(Then(<<ack>>, v))] = all
<1> DEFINE A == Acks(q)
           n == Len(v)
           m == Len(q)
           told == Then(<<ack>>, v)
<1>1. n \in Nat /\ Len(A) = n /\ \A i \in 1 .. n : v[i] \in Nat /\ v[i] = A[i].value
  OBVIOUS
<1>2. \E e : /\ \A i \in 1 .. n : e[i] \in 1 .. m /\ A[i] = q[e[i]] /\ IsAck(q[e[i]])
             /\ \A i, j \in 1 .. n : i < j => e[i] < e[j]
             /\ \A k \in 1 .. m : IsAck(q[k]) => \E i \in 1 .. n : e[i] = k
  <2>1. Len(A) = n
    BY <1>1
  <2> HIDE DEF A, n, m
  <2>2. \E e : /\ \A i \in 1 .. Len(Acks(q)) :
                      e[i] \in 1 .. Len(q) /\ Acks(q)[i] = q[e[i]] /\ IsAck(q[e[i]])
               /\ \A i, j \in 1 .. Len(Acks(q)) : i < j => e[i] < e[j]
               /\ \A k \in 1 .. Len(q) : IsAck(q[k]) => \E i \in 1 .. Len(Acks(q)) : e[i] = k
    BY AcksEmbed
  <2>3. A = Acks(q) /\ m = Len(q)
    BY DEF A, m
  <2>4. Len(Acks(q)) = n
    BY <2>1, <2>3
  <2>5. PICK e : /\ \A i \in 1 .. Len(Acks(q)) :
                       e[i] \in 1 .. Len(q) /\ Acks(q)[i] = q[e[i]] /\ IsAck(q[e[i]])
                 /\ \A i, j \in 1 .. Len(Acks(q)) : i < j => e[i] < e[j]
                 /\ \A k \in 1 .. Len(q) : IsAck(q[k]) => \E i \in 1 .. Len(Acks(q)) : e[i] = k
    BY <2>2
  <2>6. \A i \in 1 .. n : e[i] \in 1 .. m /\ A[i] = q[e[i]] /\ IsAck(q[e[i]])
    BY <2>3, <2>4, <2>5
  <2>7. \A i, j \in 1 .. n : i < j => e[i] < e[j]
    BY <2>4, <2>5
  <2>8. ASSUME NEW k \in 1 .. m, IsAck(q[k]) PROVE \E i \in 1 .. n : e[i] = k
    <3>1. k \in 1 .. Len(q)
      BY <2>3
    <3>2. PICK i \in 1 .. Len(Acks(q)) : e[i] = k
      BY <2>5, <2>8, <3>1
    <3>3. i \in 1 .. n
      BY <2>4
    <3> QED
      BY <3>2, <3>3
  <2> QED
    BY <2>6, <2>7, <2>8
<1>3. /\ \A i \in 1 .. m : IsAck(q[i]) => ack < q[i].value /\ q[i].value <= all
      /\ \A i, j \in 1 .. m : i < j /\ IsAck(q[i]) /\ IsAck(q[j]) => q[i].value < q[j].value
  BY DEF Told
<1> HIDE DEF A, n, m, told
<1>4. PICK e : /\ \A i \in 1 .. n : e[i] \in 1 .. m /\ A[i] = q[e[i]] /\ IsAck(q[e[i]])
               /\ \A i, j \in 1 .. n : i < j => e[i] < e[j]
               /\ \A k \in 1 .. m : IsAck(q[k]) => \E i \in 1 .. n : e[i] = k
  BY <1>2
<1>5. \A i \in 1 .. n : v[i] = q[e[i]].value
  BY <1>1, <1>4
<1>6. \A i \in 1 .. n : ack < v[i]
  BY <1>3, <1>4, <1>5
<1>7. \A i \in 1 .. n : v[i] <= all
  BY <1>3, <1>4, <1>5
<1>8. ASSUME NEW i \in 1 .. n, NEW j \in 1 .. n, i < j PROVE v[i] < v[j]
  <2>1. e[i] < e[j]
    BY <1>4, <1>8
  <2>2. /\ e[i] \in 1 .. m /\ e[j] \in 1 .. m
        /\ IsAck(q[e[i]]) /\ IsAck(q[e[j]])
    BY <1>4
  <2>3. q[e[i]].value < q[e[j]].value
    BY <1>3, <2>1, <2>2
  <2>4. v[i] = q[e[i]].value /\ v[j] = q[e[j]].value
    BY <1>5
  <2> QED
    BY <2>3, <2>4
<1>9. /\ Len(told) = n + 1 /\ told[1] = ack
      /\ \A i \in 1 .. n : told[i + 1] = v[i]
      /\ \A i \in 2 .. (n + 1) : told[i - 1] < told[i]
  BY <1>6, <1>8, TellsMore DEF n, told
<1>10. ASSUME ToldAll(q, ack, all) PROVE told[n + 1] = all
  <2>1. ack = all \/ \E k \in 1 .. n : v[k] = all
    <3>1. ack = all \/ \E i \in 1 .. m : IsAck(q[i]) /\ q[i].value = all
      BY <1>10 DEF ToldAll, m
    <3> QED
      BY <1>4, <1>5, <3>1
  <2>2. \/ n = 0 /\ ack = all
        \/ n \in 1 .. n /\ v[n] = all
    <3>1. n \in Nat
      BY <1>1
    <3>2. \A i \in 1 .. n : v[i] \in Nat
      BY <1>1
    <3>3. \A i, j \in 1 .. n : i < j => v[i] < v[j]
      BY <1>8
    <3>4. ack \in Nat /\ all \in Nat
      OBVIOUS
    <3> QED
      BY ONLY <1>6, <1>7, <2>1, <3>1, <3>2, <3>3, <3>4, LastTellsAll
  <2>3. CASE n = 0 /\ ack = all
    BY <1>9, <2>3
  <2>4. CASE n \in 1 .. n /\ v[n] = all
    BY <1>9, <2>4
  <2> QED
    BY <2>2, <2>3, <2>4
<1> QED
  BY <1>9, <1>10 DEF told

-----------------------------------------------------------------------------
(* What the invariant says of each property.                               *)

\* poll is all there is to do when it runs.
LEMMA AtPoll ==
    ASSUME AgendaOK(todo), Running("poll")
    PROVE  todo = <<Do("poll")>> /\ Asleep(todo) /\ "poll" \in OpsOf(todo) /\ "finish_drain" \notin OpsOf(todo)
           /\ "reap_child" \notin OpsOf(todo)
<1>1. todo = <<Do("poll")>>
  <2> DEFINE r == Tail(todo)
  <2>1. r = Tail(todo)
    OBVIOUS
  <2> HIDE DEF r
  <2> QED
    BY <2>1, Returned
<1>2. Asleep(todo)
  BY <1>1 DEF Asleep
<1>3. OpsOf(todo) = {"poll"}
  <2> DEFINE a == Do("poll")
             t == <<a>>
  <2>1. a.op = "poll"
    BY DEF Do
  <2> HIDE DEF a
  <2>2. DOMAIN t = {1} /\ t[1] = a
    OBVIOUS
  <2>3. todo = t
    BY <1>1 DEF a
  <2> HIDE DEF t
  <2> QED
    BY <2>1, <2>2, <2>3 DEF OpsOf
<1> QED
  BY <1>1, <1>2, <1>3

LEMMA NoLostWakeupHolds == IndInv /\ Unstarted => NoLostWakeup
<1> SUFFICES ASSUME TypeOK, AgendaOK(todo), Woken, ConnectionsPlaced, Served, Unstarted, Running("poll")
             PROVE  /\ Stops
                    /\ ~ CanRefill
                    /\ client # None /\ client.input # <<>> =>
                           PtyOut \/ (~ pty_open /\ \A i \in 1 .. Len(client.input) : client.input[i] = 0)
                    /\ draining # None => PtyInReady
                    /\ child = "zombie" \/ sigterm => sigPipe
                    /\ client # None /\ client.closing => "flush" \in Deadlines
                    /\ ended = None /\ ~ Listening => "pause" \in Deadlines
                    /\ \A c \in Conns : status[c] = "pending" => c \in Deadlines
  BY DEF IndInv, Connections, NoLostWakeup
<1>1. /\ todo = <<Do("poll")>> /\ Asleep(todo) /\ "poll" \in OpsOf(todo)
      /\ "finish_drain" \notin OpsOf(todo) /\ "reap_child" \notin OpsOf(todo)
  BY AtPoll
<1>2. Stops
  BY <1>1 DEF Woken
<1>3. ~ CanRefill
  BY <1>1 DEF Woken
<1>4. ASSUME client # None, client.input # <<>>, ~ PtyOut
      PROVE  ~ pty_open /\ \A i \in 1 .. Len(client.input) : client.input[i] = 0
  <2>1. ~ pty_open
    BY <1>4 DEF PtyOut
  <2>2. client.input[1] = 0
    BY <1>4, <2>1 DEF Unstarted
  <2>3. \A i \in 2 .. Len(client.input) : client.input[i] = 0
    BY <1>4 DEF Served, ClientOK, Inputs
  <2>4. client.input \in Seq(0 .. (INPUT_LEN - 1))
    BY <1>4, ClientType DEF TypeOK, Written
  <2>5. Len(client.input) \in Nat
    BY <2>4
  <2>6. \A i \in 1 .. Len(client.input) : i = 1 \/ i \in 2 .. Len(client.input)
    BY <2>5
  <2> QED
    BY <2>1, <2>2, <2>3, <2>6
<1>5. draining # None => PtyInReady
  BY <1>1 DEF Woken, PtyInReady
<1>6. child = "zombie" => sigPipe
  BY <1>1 DEF Woken
<1>7. sigterm => sigPipe
  BY <1>1 DEF Woken
<1>8. client # None /\ client.closing => "flush" \in Deadlines
  BY DEF Deadlines
<1>9. ended = None /\ ~ Listening => "pause" \in Deadlines
  BY DEF Deadlines, Listening
<1>10. \A c \in Conns : status[c] = "pending" => c \in Deadlines
  BY DEF ConnectionsPlaced, Deadlines
<1> QED
  BY <1>2, <1>3, <1>4, <1>5, <1>6, <1>7, <1>8, <1>9, <1>10

LEMMA OutputInOrderHolds == IndInv => OutputInOrder
<1> SUFFICES ASSUME Served, Exits PROVE StreamInOrder /\ ExitAfterOutput
  BY DEF IndInv, OutputInOrder
<1>1. ASSUME client # None, ~ client.gone, ~ client.closing
      PROVE  LET records == OfKind(client.outgoing, {"Record"})
             IN  /\ \A i \in 1 .. Len(records) : records[i].value = client.record + i
                 /\ client.cursor = client.record + Len(records)
                 /\ \A i \in 1 .. client.record : journal[i] \in {"child", "other"} => delivered_end >= i
  <2>1. Streamed(client.outgoing, client.record, client.cursor)
    BY <1>1 DEF Served, ClientOK, Records
  <2>2. \A i \in 1 .. client.record : journal[i] \in {"child", "other"} => delivered_end >= i
    BY <1>1 DEF Served
  <2> QED
    BY <2>1, <2>2 DEF Streamed
<1>2. StreamInOrder
  BY <1>1 DEF StreamInOrder
<1> QED
  BY <1>2 DEF Exits

LEMMA AcksAccountedHolds == IndInv => AcksAccounted
<1> SUFFICES ASSUME AgendaOK(todo), Closing, Served PROVE InputAccounted /\ AcksTellProgress
  BY DEF IndInv, AcksAccounted
<1>1. InputAccounted
  <2>1. SUFFICES ASSUME client # None, ~ client.closing, ~ client.gone
                 PROVE  /\ client.written + client.discarded
                               = INPUT_LEN * (InputsActedOn(client.conn) - Len(client.input))
                        /\ client.input_cost =
                               Sum([i \in DOMAIN client.input |-> (INPUT_LEN - client.input[i]) + INPUT_COST])
                        /\ client.input_cost <= MAX_PENDING_INPUT
                        /\ \A i \in 2 .. Len(client.input) : client.input[i] = 0
    BY DEF InputAccounted
  <2>2. Inputs(client)
    BY <2>1 DEF Served, ClientOK
  <2>3. client.written + client.discarded
            = INPUT_LEN * (InputsActedOn(client.conn) - Len(client.input))
    BY <2>1 DEF Served
  <2>4. client.input_cost = Sum([i \in DOMAIN client.input |-> (INPUT_LEN - client.input[i]) + INPUT_COST])
    BY <2>2 DEF Inputs, Costs
  <2> QED
    BY <2>2, <2>3, <2>4 DEF Inputs
<1>2. AcksTellProgress
  <2> DEFINE q == client.outgoing
             ack == client.ack
             all == client.written + client.discarded
             v == [i \in 1 .. Len(Acks(q)) |-> Acks(q)[i].value]
             told == <<ack>> \o v
  <2>1. SUFFICES ASSUME client # None
                 PROVE  /\ \A i \in 2 .. Len(told) : told[i - 1] < told[i]
                        /\ Running("poll") /\ ~ client.closing => told[Len(told)] = all
    BY DEF AcksTellProgress
  <2>2. client \in Clients /\ Acknowledgements(client)
    BY <2>1 DEF Served, ClientOK
  <2>3. q \in Seq(Framed) /\ ack \in Nat /\ all \in Nat
    <3>1. client.outgoing \in Seq(Framed) /\ client.ack \in Nat
          /\ client.written \in Nat /\ client.discarded \in Nat
      BY <2>2, ClientType
    <3> QED
      BY <3>1
  <2>4. Told(q, ack, all)
    BY <2>2 DEF Acknowledgements
  <2>5. Running("poll") /\ ~ client.closing => ToldAll(q, ack, all)
    <3>1. SUFFICES ASSUME Running("poll"), ~ client.closing PROVE ToldAll(q, ack, all)
      OBVIOUS
    <3>2. ~ client.gone
      BY <2>1, <3>1, NotGone
    <3> QED
      BY <2>2, <3>1, <3>2 DEF Acknowledgements
  <2> HIDE DEF q, ack, all
  <2>6. v \in Seq(Nat) /\ Len(v) = Len(Acks(q)) /\ \A i \in 1 .. Len(v) : v[i] = Acks(q)[i].value
    <3> DEFINE A == Acks(q)
               n == Len(A)
    <3>1. A \in Seq(Framed)
      BY <2>3, AcksEmbed
    <3>2. n \in Nat /\ \A i \in 1 .. n : A[i] \in Framed
      BY <3>1
    <3>3. \A i \in 1 .. n : A[i].value \in Nat
      BY <3>2, FrameType
    <3> HIDE DEF A, n
    <3> DEFINE w == [i \in 1 .. n |-> A[i].value]
    <3>4. w \in Seq(Nat) /\ Len(w) = n /\ \A i \in 1 .. n : w[i] = A[i].value
      BY <3>2, <3>3
    <3>5. w = v
      BY DEF A, n
    <3> HIDE DEF w, v
    <3>6. v \in Seq(Nat) /\ Len(v) = n /\ \A i \in 1 .. n : v[i] = A[i].value
      BY <3>4, <3>5
    <3> QED
      BY <3>6 DEF A, n
  <2> HIDE DEF v
  <2>7. /\ \A i \in 2 .. Len(Then(<<ack>>, v)) : Then(<<ack>>, v)[i - 1] < Then(<<ack>>, v)[i]
        /\ ToldAll(q, ack, all) => Then(<<ack>>, v)[Len(Then(<<ack>>, v))] = all
    BY <2>3, <2>4, <2>6, TellsProgress
  <2>8. told = Then(<<ack>>, v)
    BY DEF Then
  <2> HIDE DEF told
  <2> QED
    BY <2>5, <2>7, <2>8
<1> QED
  BY <1>1, <1>2

LEMMA ConsistentHolds == IndInv => Consistent
<1> SUFFICES ASSUME TypeOK, Served, Connections
             PROVE  TypeOK /\ QueueBounded /\ FramesInOrder /\ ConnectionsPlaced
  BY DEF IndInv, Consistent
<1>1. client # None => client.outgoing \in Seq(Framed) /\ Queue(client)
  BY ClientType DEF Served, ClientOK
<1>2. QueueBounded
  <2> DEFINE q == client.outgoing
             others == OfKind(q, Kinds \ {"InputAck"})
  <2>1. SUFFICES ASSUME client # None
                 PROVE  /\ client.unsent = Unsent(q)
                        /\ Unsent(others) <= Max({OUTGOING_HIGH_WATER, FRAME}) + FRAME
                        /\ Len(Acks(q)) <= Len(others) + 2
    BY DEF QueueBounded
  <2>2. q \in Seq(Framed) /\ Queue(client)
    BY <1>1, <2>1
  <2>3. others = OfKind(q, Others)
    BY DEF Others
  <2>4. client.unsent = Unsent(q) /\ Unsent(OfKind(q, Others)) <= Bound /\ Shape(q, client.closing)
    BY <2>2 DEF Queue
  <2>5. Spaced(q)
    BY <2>4 DEF Shape, Spaced, IsAck
  <2> HIDE DEF q, others
  <2>6. Len(Acks(q)) <= OthersIn(q) + 2
    BY <2>2, <2>5, AcksBounded
  <2>7. Unsent(others) <= Max({OUTGOING_HIGH_WATER, FRAME}) + FRAME
    BY <2>3, <2>4 DEF Bound
  <2> QED
    BY <2>3, <2>4, <2>6, <2>7 DEF OthersIn
<1>3. FramesInOrder
  <2> DEFINE q == client.outgoing
             n == Len(q)
  <2>1. SUFFICES ASSUME client # None, ~ client.gone
                 PROVE  /\ client.first \in {None, "Welcome"}
                        /\ (client.first = None) <=> (n > 0 /\ q[1].kind = "Welcome")
                        /\ \A i \in 2 .. n : q[i].kind # "Welcome" /\ q[i].written = 0
                        /\ \A i \in 1 .. n : (q[i].kind \in LastFrames) <=> (client.closing /\ i = n)
                        /\ client.last \in LastFrames => client.closing /\ n = 0
    BY DEF FramesInOrder
  <2>2. Queue(client)
    BY <1>1, <2>1
  <2>3. client.last \in LastFrames => client.closing /\ n = 0
    <3>1. client.last \in LastFrames => client.closing /\ q = <<>>
      BY <2>1, <2>2 DEF Queue
    <3>2. Len(<<>>) = 0
      OBVIOUS
    <3> HIDE DEF q
    <3> QED
      BY <3>1, <3>2
  <2> QED
    BY <2>1, <2>2, <2>3 DEF Queue, Shape
<1> QED
  BY <1>2, <1>3 DEF Connections

-----------------------------------------------------------------------------
(* The theorems.                                                           *)

\* Whatever the connections, the pty, signals and time do between the handlers
\* of host.rs, the agenda, the connections, the client and its queues fit
\* together as IndInv says.
THEOREM IndInvHolds == Spec => []IndInv
<1>1. Init => IndInv
  BY InitIndInv
<1>2. IndInv /\ [Next]_vars => IndInv'
  BY NextIndInv
<1> QED
  BY <1>1, <1>2, PTL DEF Spec

\* Host::step never goes to sleep with a frame it could act on, a record it
\* could send, a child to reap or a SIGTERM to act on that nothing announces, or
\* with input pending that it does not wait to write, but for Inputs not started
\* when there is no pty left to write them to.
THEOREM NothingSleptOn == Spec => []NoLostWakeup
<1>1. IndInv /\ Unstarted => NoLostWakeup
  BY NoLostWakeupHolds
<1> QED
  BY <1>1, IndInvHolds, UnstartedAlways, PTL

\* close_client acts on everything its peer sent before the connection is gone,
\* held input and what was still in the socket included.
THEOREM NothingLostAtClose == Spec => []CloseActsOnEverything
<1>1. IndInv => CloseActsOnEverything
  BY DEF IndInv, Closing
<1> QED
  BY <1>1, IndInvHolds, PTL

\* refill_outgoing and write_client hand a client the journal's records once
\* each and in order, and finish_drain journals the exit after the child's output.
THEOREM StreamedInOrder == Spec => []OutputInOrder
<1>1. IndInv => OutputInOrder
  BY OutputInOrderHolds
<1> QED
  BY <1>1, IndInvHolds, PTL

\* The totals acknowledge queues are those of the Inputs acted on, written or
\* discarded, and the client is told of all of them before the host sleeps.
THEOREM InputAcknowledged == Spec => []AcksAccounted
<1>1. IndInv => AcksAccounted
  BY AcksAccountedHolds
<1> QED
  BY <1>1, IndInvHolds, PTL

\* No way of ending a connection leaves Host's running totals, its queue of
\* frames or its lists of connections wrong.
THEOREM HostConsistent == Spec => []Consistent
<1>1. IndInv => Consistent
  BY ConsistentHolds
<1> QED
  BY <1>1, IndInvHolds, PTL

===============================================================================

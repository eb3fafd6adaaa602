-------------------------- MODULE TerminalHostLemmas --------------------------
(***************************************************************************)
(* The invariant of a terminal host in one run, and what its parts are     *)
(* carried by: what the loops over its queues compute, what each operation *)
(* on the client keeps of it, and what a call put on the agenda leaves of  *)
(* the agenda.                                                             *)
(*                                                                         *)
(* The invariant says what the agenda can look like (AgendaOK), what each  *)
(* point of it has established (Woken, Exits, Closing), where the          *)
(* connections are (Connections) and what the client's queues hold         *)
(* (ClientOK, Served).                                                     *)
(***************************************************************************)
EXTENDS TerminalHost, TLAPS, FiniteSetTheorems

-----------------------------------------------------------------------------
(* The agenda.                                                             *)

OpsOf(t) == {t[i].op : i \in DOMAIN t}

\* Between the last look at what the client sent and the next poll.
Asleep(t) ==
    \/ t = <<>>
    \/ t = <<Do("refill_outgoing")>>
    \/ t = <<Do("refill_outgoing"), Do("poll")>>
    \/ t = <<Do("poll")>>

\* The last look is still ahead.
Busy(t) ==
    /\ Len(t) >= 2
    /\ t[Len(t) - 1] = Do("act_on_buffered")
    /\ t[Len(t)] = Do("refill_outgoing")
    /\ "poll" \notin OpsOf(t)

\* What finish_drain comes after.
Drains == {"drain_signal_pipe", "reap_child", "read_pty"}

\* What may be left to do after a, in one iteration.
Before(a, b) ==
    /\ a.op = "reap_child" => b.op # "drain_signal_pipe"
    /\ a.op = "finish_drain" => b.op \notin Drains \cup {"finish_drain"}
    /\ a.op \in {"read_pending", "expire_pending", "accept"} => b.op # "close_client"
    /\ a.op \in {"expire_pending", "accept"} => b.op # "read_pending"
    /\ a.op = "read_pending" /\ b.op = "read_pending" => a.conn # b.conn
    /\ b.op = "close_receive" => a.op = "act_on_buffered"
    /\ b.op = "close_drop" => a.op \in {"act_on_buffered", "close_receive"}

Ordered(t) == \A i, j \in DOMAIN t : i < j => Before(t[i], t[j])

AgendaOK(t) ==
    /\ t \in Seq(Entry)
    /\ Asleep(t) \/ Busy(t)
    /\ Ordered(t)
    /\ OpsOf(t) \cap Drains # {} => "finish_drain" \in OpsOf(t)
    /\ "drain_signal_pipe" \in OpsOf(t) => "reap_child" \in OpsOf(t)
    /\ \A i \in DOMAIN t : t[i].op = "close_receive" =>
           /\ i + 1 \in DOMAIN t /\ t[i + 1].op = "act_on_buffered"
           /\ "close_drop" \in OpsOf(t)

-----------------------------------------------------------------------------
(* What each point of the agenda has established.                          *)

\* What would not wake the loop again has been seen to.
Woken ==
    /\ Asleep(todo) => Stops
    /\ todo = <<Do("poll")>> => ~ CanRefill
    /\ "finish_drain" \notin OpsOf(todo) /\ draining # None => pty_open /\ output # <<>>
    /\ child = "zombie" => (sigPipe \/ "reap_child" \in OpsOf(todo))
    /\ sigterm /\ "poll" \in OpsOf(todo) => sigPipe

\* The child, its exit, and the pty it wrote to.
Exits ==
    /\ child_exit <=> (child = "reaped")
    /\ child # "running" => "child" \notin slave
    /\ draining # None => child_exit
    /\ ~ pty_open => output = <<>> /\ slave = {}
    /\ \A i \in 1 .. Len(journal) : journal[i] = "exited" =>
           child_exit /\ draining = None
    /\ ExitAfterOutput

Injective(seq) == \A i, j \in DOMAIN seq : seq[i] = seq[j] => i = j

\* What was sent, received and acted on of each connection.
Counted ==
    \A c \in Conns :
        /\ acted[c] <= received[c] /\ received[c] <= Len(sent[c])
        /\ Len(sent[c]) <= received[c] + RECEIVE_LIMIT
        /\ \A i \in 1 .. Len(sent[c]) : sent[c][i] \in IF i = 1 THEN Hellos ELSE Frames
        /\ status[c] \in {"none", "backlog", "pending"} => acted[c] = 0

Met == client # None => acted[client.conn] >= 1

\* What a handler left to run was put on the agenda for.
PointsAt(e, over, waiting, cl, ends) ==
    /\ e.op = "read_pending" => e.conn \in Conns /\ (over = None => e.conn \in Range(waiting))
    /\ e.op = "close_client" /\ cl # None => ends[cl.conn] # "open"

Pointed == \A i \in DOMAIN todo : PointsAt(todo[i], ended, pending, client, peer)

\* What was sent, received and acted on, and where every connection is.
Connections ==
    /\ Counted /\ Met
    /\ ConnectionsPlaced
    /\ Injective(pending) /\ Injective(backlog)
    /\ Pointed

\* A frame was found after which a connection takes nothing more.
Refused(c) ==
    \/ acted[c] < Len(sent[c]) /\ sent[c][acted[c] + 1] = "Malformed"
    \/ \E j \in 2 .. acted[c] : sent[c][j] \in {"Hello", "Malformed", "Shutdown"}
    \/ \E j, k \in 2 .. acted[c] : j # k /\ sent[c][j] = "Read" /\ sent[c][k] = "Read"

\* How far a close has come.
Closing ==
    /\ (client # None /\ client.gone) <=> "close_drop" \in OpsOf(todo)
    /\ client # None =>
           LET c == client.conn
           IN  /\ client.closing => Refused(c)
               /\ client.reading => \E j \in 2 .. acted[c] : sent[c][j] = "Read"
               /\ client.gone => peer[c] # "open"
               /\ client.gone /\ "close_receive" \notin OpsOf(todo) =>
                      client.closing \/ received[c] = Len(sent[c])
               /\ Running("close_drop") => client.closing \/ acted[c] = Len(sent[c])
    /\ \A c \in Conns : \A j \in 2 .. acted[c] : sent[c][j] = "Shutdown" => ended = "Shutdown"
    /\ CloseActsOnEverything

-----------------------------------------------------------------------------
(* The client's queues.                                                    *)

Framed == [kind : Kinds, value : Nat, written : 0 .. (FRAME - 1)]

Others == Kinds \ {"InputAck"}

\* Which frames come where, and which may be started.
Shape(q, closing) ==
    /\ \A i \in 2 .. Len(q) : q[i].kind # "Welcome" /\ q[i].written = 0
    /\ \A i \in 1 .. Len(q) : (q[i].kind \in LastFrames) <=> (closing /\ i = Len(q))
    /\ \A i \in 1 .. (Len(q) - 1) : q[i].kind = "InputAck" /\ q[i + 1].kind = "InputAck" =>
           i = 1 /\ q[i].written > 0

Bound == Max({OUTGOING_HIGH_WATER, FRAME}) + FRAME

\* The frames queued, and what they add up to.
Queue(cl) ==
    LET q == cl.outgoing
    IN  /\ Shape(q, cl.closing)
        /\ cl.unsent = Unsent(q)
        /\ Unsent(OfKind(q, Others)) <= Bound
        /\ cl.gone => q = <<>>
        /\ ~ cl.gone =>
               /\ cl.first \in {None, "Welcome"}
               /\ (cl.first = None) <=> (Len(q) > 0 /\ q[1].kind = "Welcome")
               /\ cl.last \in LastFrames => cl.closing /\ q = <<>>

IsAck(out) == out.kind = "InputAck"

\* The acknowledgements among them tell of more and more of all.
Told(q, ack, all) ==
    /\ ack <= all
    /\ \A i \in 1 .. Len(q) : IsAck(q[i]) => ack < q[i].value /\ q[i].value <= all
    /\ \A i, j \in 1 .. Len(q) : i < j /\ IsAck(q[i]) /\ IsAck(q[j]) => q[i].value < q[j].value

\* And of all of it.
ToldAll(q, ack, all) ==
    ack = all \/ \E i \in 1 .. Len(q) : IsAck(q[i]) /\ q[i].value = all

Acknowledgements(cl) ==
    /\ Told(cl.outgoing, cl.ack, cl.written + cl.discarded)
    /\ ~ cl.closing /\ ~ cl.gone => ToldAll(cl.outgoing, cl.ack, cl.written + cl.discarded)

\* The records among them are those after the last one handed over.
Streamed(q, record, cursor) ==
    LET records == OfKind(q, {"Record"})
    IN  /\ \A i \in 1 .. Len(records) : records[i].value = record + i
        /\ cursor = record + Len(records)

Records(cl) == ~ cl.gone /\ ~ cl.closing => Streamed(cl.outgoing, cl.record, cl.cursor)

Costs(input) == Sum([i \in DOMAIN input |-> (INPUT_LEN - input[i]) + INPUT_COST])

\* The Inputs pending.
Inputs(cl) ==
    /\ \A i \in 2 .. Len(cl.input) : cl.input[i] = 0
    /\ cl.input_cost = Costs(cl.input)
    /\ cl.input_cost <= MAX_PENDING_INPUT
    /\ cl.closing \/ cl.gone => cl.input = <<>>
    /\ cl.closing => ~ cl.reading

ClientOK(cl) ==
    /\ cl \in Clients
    /\ Queue(cl) /\ Acknowledgements(cl) /\ Records(cl) /\ Inputs(cl)

\* What the client was told, of what it sent and of what was journaled.
Served ==
    client # None =>
        /\ ClientOK(client)
        /\ ~ client.closing /\ ~ client.gone =>
               client.written + client.discarded
                   = INPUT_LEN * (InputsActedOn(client.conn) - Len(client.input))
        /\ client.cursor <= Len(journal)
        /\ ~ client.closing /\ ~ client.gone =>
               \A i \in 1 .. client.record : journal[i] \in {"child", "other"} => delivered_end >= i

IndInv == TypeOK /\ AgendaOK(todo) /\ Woken /\ Exits /\ Connections /\ Closing /\ Served

-----------------------------------------------------------------------------
(* The loops of the host over its queues.                                  *)

Add(p, n, m) == n + m
Sift(S, kept, x) == IF x \in S THEN Append(kept, x) ELSE kept
ResolveOne(p, cl, w) == resolve(cl, w)
OfferOne(p, at, w) == OfferInput(at, w)

Sums == INSTANCE FoldRuns WITH Op <- Add
Keeps == INSTANCE FoldRuns WITH Op <- Sift
Resolves == INSTANCE FoldRuns WITH Op <- ResolveOne
Offers == INSTANCE FoldRuns WITH Op <- OfferOne

LEMMA NatSetInduction ==
    ASSUME NEW S, 0 \in S, \A n \in Nat : n \in S => n + 1 \in S
    PROVE  \A n \in Nat : n \in S
<1> DEFINE R == OpToRel(<, Nat)
           T == Nat \ S
<1>1. IsWellFoundedOn(R, Nat)
  BY NatLessThanWellFounded
<1>2. SUFFICES ASSUME T # {} PROVE FALSE
  OBVIOUS
<1>3. T \subseteq Nat
  OBVIOUS
<1> HIDE DEF R, T
<1>4. PICK m \in T : \A y \in T : ~(<<y, m>> \in R)
  BY <1>1, <1>2, <1>3, WFMin
<1> USE DEF R, T
<1>5. m \in Nat /\ m # 0
  BY <1>4
<1>6. m - 1 \in Nat /\ m - 1 < m
  BY <1>5
<1>7. <<m - 1, m>> \in R
  BY <1>5, <1>6 DEF OpToRel
<1>8. m - 1 \in S
  BY <1>4, <1>6, <1>7
<1>9. (m - 1) + 1 \in S
  BY <1>6, <1>8
<1>10. (m - 1) + 1 = m
  BY <1>5
<1>11. m \in S
  BY <1>9, <1>10
<1> QED
  BY <1>11

\* What the loops' runs are shown by.
LEMMA LoopsInduct ==
    Sums!Induction /\ Keeps!Induction /\ Resolves!Induction /\ Offers!Induction
BY NatSetInduction DEF Sums!Induction, Keeps!Induction, Resolves!Induction, Offers!Induction

\* A sequence that is not empty has a last element.
LEMMA LastOf ==
    ASSUME NEW X, NEW s \in Seq(X), s # <<>>
    PROVE  /\ Front(s) \in Seq(X) /\ Last(s) \in X
           /\ Len(Front(s)) = Len(s) - 1
           /\ s = Append(Front(s), Last(s))
<1>1. Len(s) \in Nat /\ Len(s) - 1 \in Nat /\ Len(s) \in 1 .. Len(s)
  OBVIOUS
<1>2. Front(s) \in Seq(X) /\ Len(Front(s)) = Len(s) - 1
  BY <1>1 DEF Front
<1>3. Last(s) \in X
  BY <1>1 DEF Last
<1>4. s = Append(Front(s), Last(s))
  BY <1>1 DEF Front, Last
<1> QED
  BY <1>2, <1>3, <1>4

\* What comes first and what comes last do not touch.
LEMMA ConsAndAppend ==
    ASSUME NEW X, NEW x \in X, NEW s \in Seq(X), NEW y \in X
    PROVE  /\ Cons(x, s) \in Seq(X)
           /\ Append(Cons(x, s), y) = Cons(x, Append(s, y))
<1>1. Append(<<x>> \o s, y) \in Seq(X) /\ <<x>> \o Append(s, y) \in Seq(X)
  OBVIOUS
<1>2. Len(Append(<<x>> \o s, y)) = Len(<<x>> \o Append(s, y))
  OBVIOUS
<1>3. \A i \in 1 .. Len(<<x>> \o Append(s, y)) :
          Append(<<x>> \o s, y)[i] = (<<x>> \o Append(s, y))[i]
  OBVIOUS
<1>4. Append(<<x>> \o s, y) = <<x>> \o Append(s, y)
  BY <1>1, <1>2, <1>3
<1>5. <<x>> \o s \in Seq(X)
  OBVIOUS
<1> QED
  BY <1>4, <1>5 DEF Cons

LEMMA ConsOfTail ==
    ASSUME NEW X, NEW s \in Seq(X), s # <<>>
    PROVE  s[1] \in X /\ Tail(s) \in Seq(X) /\ s = Cons(s[1], Tail(s))
<1>1. s[1] \in X /\ Tail(s) \in Seq(X)
  OBVIOUS
<1>2. s = <<s[1]>> \o Tail(s)
  OBVIOUS
<1> QED
  BY <1>1, <1>2 DEF Cons

LEMMA ConsOfNone ==
    ASSUME NEW x
    PROVE  Cons(x, <<>>) = Append(<<>>, x)
<1>1. <<x>> \o <<>> = Append(<<>>, x)
  OBVIOUS
<1> QED
  BY <1>1 DEF Cons

LEMMA SumFold == \A s : Sum(s) = Sums!Fold(0, 0, s)
BY DEF Sum, Add, Sums!Fold, FoldLeft, Sums!MapThenFoldSet, MapThenFoldSet,
       Sums!Max, Max

LEMMA SumOfNone == Sum(<<>>) = 0
BY SumFold, Sums!FoldOfNone, LoopsInduct

LEMMA SumOfAppend ==
    ASSUME NEW s \in Seq(Int), NEW x \in Int
    PROVE  Sum(Append(s, x)) = Sum(s) + x
<1>1. Sums!Fold(0, 0, Append(s, x)) = Add(0, Sums!Fold(0, 0, s), x)
  BY Sums!FoldOfAppend, LoopsInduct
<1> QED
  BY <1>1, SumFold DEF Add

LEMMA SumType ==
    ASSUME NEW s \in Seq(Int)
    PROVE  Sum(s) \in Int
<1> DEFINE S == {n \in Nat : \A t \in Seq(Int) : Len(t) = n => Sum(t) \in Int}
<1>1. 0 \in S
  <2>1. \A t \in Seq(Int) : Len(t) = 0 => t = <<>>
    OBVIOUS
  <2> QED
    BY <2>1, SumOfNone
<1>2. ASSUME NEW n \in Nat, n \in S PROVE n + 1 \in S
  <2>1. SUFFICES ASSUME NEW t \in Seq(Int), Len(t) = n + 1 PROVE Sum(t) \in Int
    OBVIOUS
  <2> DEFINE u == Front(t)
             x == Last(t)
  <2>2. t # <<>>
    BY <2>1
  <2>0. u \in Seq(Int) /\ x \in Int /\ Len(u) = Len(t) - 1 /\ t = Append(u, x)
    BY <2>1, <2>2, LastOf, Zenon
  <2> HIDE DEF u, x
  <2>3. u \in Seq(Int) /\ x \in Int /\ Len(u) = n /\ t = Append(u, x)
    BY <2>1, <2>0
  <2>4. Sum(u) \in Int
    BY <1>2, <2>3
  <2> QED
    BY <2>3, <2>4, SumOfAppend
<1> HIDE DEF S
<1>3. Len(s) \in S
  BY <1>1, <1>2, NatSetInduction
<1> QED
  BY <1>3 DEF S

\* The sum of what is not negative is not negative.
LEMMA SumOfNats ==
    ASSUME NEW s \in Seq(Nat)
    PROVE  Sum(s) \in Nat
<1> DEFINE S == {n \in Nat : \A t \in Seq(Nat) : Len(t) = n => Sum(t) \in Nat}
<1>1. 0 \in S
  <2>1. \A t \in Seq(Nat) : Len(t) = 0 => t = <<>>
    OBVIOUS
  <2> QED
    BY <2>1, SumOfNone
<1>2. ASSUME NEW n \in Nat, n \in S PROVE n + 1 \in S
  <2>1. SUFFICES ASSUME NEW t \in Seq(Nat), Len(t) = n + 1 PROVE Sum(t) \in Nat
    OBVIOUS
  <2> DEFINE u == Front(t)
             x == Last(t)
  <2>2. t # <<>>
    BY <2>1
  <2>0. u \in Seq(Nat) /\ x \in Nat /\ Len(u) = Len(t) - 1 /\ t = Append(u, x)
    BY <2>1, <2>2, LastOf, Zenon
  <2> HIDE DEF u, x
  <2>3. u \in Seq(Nat) /\ x \in Nat /\ Len(u) = n /\ t = Append(u, x)
    BY <2>1, <2>0
  <2>4. Sum(u) \in Nat
    BY <1>2, <2>3
  <2>5. u \in Seq(Int) /\ x \in Int
    BY <2>3
  <2>6. Sum(t) = Sum(u) + x
    BY <2>3, <2>5, SumOfAppend
  <2>7. x \in Nat
    BY <2>3
  <2> QED
    BY ONLY <2>4, <2>6, <2>7
<1> HIDE DEF S
<1>3. Len(s) \in S
  BY <1>1, <1>2, NatSetInduction
<1> QED
  BY <1>3 DEF S

LEMMA SumFromFirst ==
    ASSUME NEW x \in Int, NEW s \in Seq(Int)
    PROVE  Sum(Cons(x, s)) = x + Sum(s)
<1> DEFINE S == {n \in Nat : \A t \in Seq(Int) : Len(t) = n => Sum(Cons(x, t)) = x + Sum(t)}
<1>1. 0 \in S
  <2>1. <<>> \in Seq(Int)
    OBVIOUS
  <2>2. Sum(Append(<<>>, x)) = Sum(<<>>) + x
    BY <2>1, SumOfAppend
  <2>3. Sum(Cons(x, <<>>)) = x + Sum(<<>>)
    BY <2>2, SumOfNone, ConsOfNone
  <2>4. \A t \in Seq(Int) : Len(t) = 0 => t = <<>>
    OBVIOUS
  <2> QED
    BY <2>3, <2>4
<1>2. ASSUME NEW n \in Nat, n \in S PROVE n + 1 \in S
  <2>1. SUFFICES ASSUME NEW t \in Seq(Int), Len(t) = n + 1 PROVE Sum(Cons(x, t)) = x + Sum(t)
    OBVIOUS
  <2> DEFINE u == Front(t)
             y == Last(t)
  <2>2. t # <<>>
    BY <2>1
  <2>3. u \in Seq(Int) /\ y \in Int /\ Len(u) = Len(t) - 1 /\ t = Append(u, y)
    BY <2>1, <2>2, LastOf, Zenon
  <2> HIDE DEF u, y
  <2>4. Len(u) = n
    BY <2>1, <2>3
  <2>5. Sum(Cons(x, u)) = x + Sum(u)
    BY <1>2, <2>3, <2>4
  <2>6. Cons(x, u) \in Seq(Int) /\ Append(Cons(x, u), y) = Cons(x, Append(u, y))
    <3> DEFINE X == Int
    <3>1. u \in Seq(X) /\ y \in X /\ x \in X
      BY <2>3
    <3> HIDE DEF X
    <3>2. Cons(x, u) \in Seq(X) /\ Append(Cons(x, u), y) = Cons(x, Append(u, y))
      BY <3>1, ConsAndAppend
    <3> QED
      BY <3>2 DEF X
  <2>7. Sum(Append(Cons(x, u), y)) = Sum(Cons(x, u)) + y
    BY <2>3, <2>6, SumOfAppend
  <2>8. Sum(Append(u, y)) = Sum(u) + y
    BY <2>3, SumOfAppend
  <2>9. Sum(u) \in Int
    BY <2>3, SumType
  <2>10. Sum(Cons(x, t)) = Sum(Cons(x, u)) + y
    BY <2>3, <2>6, <2>7
  <2>11. Sum(t) = Sum(u) + y
    BY <2>3, <2>8
  <2>12. x \in Int /\ y \in Int
    BY <2>3
  <2> QED
    BY ONLY <2>5, <2>9, <2>10, <2>11, <2>12
<1> HIDE DEF S
<1>3. Len(s) \in S
  BY <1>1, <1>2, NatSetInduction
<1> QED
  BY <1>3 DEF S

-----------------------------------------------------------------------------
LEMMA KeepFold == \A s, S : Keep(s, S) = Keeps!Fold(S, <<>>, s)
BY DEF Keep, Sift, Keeps!Fold, FoldLeft, Keeps!MapThenFoldSet, MapThenFoldSet,
       Keeps!Max, Max

LEMMA KeepOfNone == \A S : Keep(<<>>, S) = <<>>
BY KeepFold, Keeps!FoldOfNone, LoopsInduct

LEMMA KeepOfAppend ==
    ASSUME NEW X, NEW s \in Seq(X), NEW x \in X, NEW S
    PROVE  Keep(Append(s, x), S) = IF x \in S THEN Append(Keep(s, S), x) ELSE Keep(s, S)
<1>1. Keeps!Fold(S, <<>>, Append(s, x)) = Sift(S, Keeps!Fold(S, <<>>, s), x)
  BY Keeps!FoldOfAppend, LoopsInduct
<1> QED
  BY <1>1, KeepFold DEF Sift

\* What is kept is a sequence of the elements that are in S.
LEMMA KeepType ==
    ASSUME NEW X, NEW s \in Seq(X), NEW S
    PROVE  /\ Keep(s, S) \in Seq(X)
           /\ Len(Keep(s, S)) <= Len(s)
           /\ \A i \in 1 .. Len(Keep(s, S)) : Keep(s, S)[i] \in S
<1> DEFINE Good(t) == /\ Keep(t, S) \in Seq(X)
                      /\ Len(Keep(t, S)) <= Len(t)
                      /\ \A i \in 1 .. Len(Keep(t, S)) : Keep(t, S)[i] \in S
           R == {n \in Nat : \A t \in Seq(X) : Len(t) = n => Good(t)}
<1>1. 0 \in R
  <2>1. \A t \in Seq(X) : Len(t) = 0 => t = <<>>
    OBVIOUS
  <2>2. Keep(<<>>, S) = <<>> /\ <<>> \in Seq(X) /\ Len(<<>>) = 0
    BY KeepOfNone
  <2>3. 1 .. Len(Keep(<<>>, S)) = {} /\ Len(Keep(<<>>, S)) <= Len(<<>>)
    BY <2>2
  <2>4. Good(<<>>)
    BY <2>2, <2>3, Zenon
  <2> QED
    BY <2>1, <2>4
<1>2. ASSUME NEW n \in Nat, n \in R PROVE n + 1 \in R
  <2>1. SUFFICES ASSUME NEW t \in Seq(X), Len(t) = n + 1 PROVE Good(t)
    OBVIOUS
  <2> DEFINE u == Front(t)
             x == Last(t)
  <2>2. t # <<>>
    BY <2>1
  <2>3. u \in Seq(X) /\ x \in X /\ Len(u) = Len(t) - 1 /\ t = Append(u, x)
    BY <2>1, <2>2, LastOf
  <2> HIDE DEF u, x
  <2>4. Good(u)
    BY <1>2, <2>1, <2>3
  <2>5. Keep(t, S) = IF x \in S THEN Append(Keep(u, S), x) ELSE Keep(u, S)
    BY <2>3, KeepOfAppend
  <2>6. CASE x \in S
    BY <2>1, <2>3, <2>4, <2>5, <2>6
  <2>7. CASE x \notin S
    BY <2>1, <2>3, <2>4, <2>5, <2>7
  <2> QED
    BY <2>6, <2>7
<1> HIDE DEF R
<1>3. Len(s) \in R
  BY <1>1, <1>2, NatSetInduction
<1> QED
  BY <1>3 DEF R

\* Where each kept element was, in order; and everything in S was kept.
LEMMA KeepEmbeds ==
    ASSUME NEW X, NEW s \in Seq(X), NEW S
    PROVE  \E e \in [1 .. Len(Keep(s, S)) -> 1 .. Len(s)] :
               /\ \A i \in 1 .. Len(Keep(s, S)) : Keep(s, S)[i] = s[e[i]]
               /\ \A i, j \in 1 .. Len(Keep(s, S)) : i < j => e[i] < e[j]
               /\ \A k \in 1 .. Len(s) : s[k] \in S => \E i \in 1 .. Len(Keep(s, S)) : e[i] = k
<1> DEFINE Embeds(e, t) ==
               /\ \A i \in 1 .. Len(Keep(t, S)) : Keep(t, S)[i] = t[e[i]]
               /\ \A i, j \in 1 .. Len(Keep(t, S)) : i < j => e[i] < e[j]
               /\ \A k \in 1 .. Len(t) : t[k] \in S => \E i \in 1 .. Len(Keep(t, S)) : e[i] = k
           R == {n \in Nat : \A t \in Seq(X) : Len(t) = n =>
                     \E e \in [1 .. Len(Keep(t, S)) -> 1 .. Len(t)] : Embeds(e, t)}
<1>1. 0 \in R
  <2>1. \A t \in Seq(X) : Len(t) = 0 => t = <<>>
    OBVIOUS
  <2>2. Len(Keep(<<>>, S)) = 0 /\ Len(<<>>) = 0 /\ 1 .. 0 = {}
    BY KeepOfNone
  <2>3. <<>> \in [1 .. 0 -> 1 .. 0]
    OBVIOUS
  <2>4. \E e \in [1 .. Len(Keep(<<>>, S)) -> 1 .. Len(<<>>)] : Embeds(e, <<>>)
    BY <2>2, <2>3
  <2> QED
    BY <2>1, <2>4
<1>2. ASSUME NEW n \in Nat, n \in R PROVE n + 1 \in R
  <2> HIDE DEF Embeds
  <2>1. SUFFICES ASSUME NEW t \in Seq(X), Len(t) = n + 1
                 PROVE  \E e \in [1 .. Len(Keep(t, S)) -> 1 .. Len(t)] : Embeds(e, t)
    OBVIOUS
  <2> USE DEF Embeds
  <2> DEFINE u == Front(t)
             x == Last(t)
             m == Len(Keep(u, S))
  <2>2. t # <<>>
    BY <2>1
  <2>3. u \in Seq(X) /\ x \in X /\ Len(u) = Len(t) - 1 /\ t = Append(u, x)
    BY <2>1, <2>2, LastOf
  <2> HIDE DEF u, x
  <2>4. Keep(t, S) = IF x \in S THEN Append(Keep(u, S), x) ELSE Keep(u, S)
    BY <2>3, KeepOfAppend
  <2>5. Keep(u, S) \in Seq(X) /\ m \in Nat /\ Len(u) = n
    BY <2>1, <2>3, KeepType
  <2>6. t[n + 1] = x /\ \A k \in 1 .. n : t[k] = u[k]
    BY <2>1, <2>3, <2>5
  <2>7. \E e \in [1 .. Len(Keep(u, S)) -> 1 .. Len(u)] : Embeds(e, u)
    <3>1. \A v \in Seq(X) : Len(v) = n =>
              \E e \in [1 .. Len(Keep(v, S)) -> 1 .. Len(v)] : Embeds(e, v)
      BY <1>2
    <3> HIDE DEF R, Embeds
    <3> QED
      BY <2>3, <2>5, <3>1, Zenon
  <2>8. PICK e \in [1 .. m -> 1 .. n] : Embeds(e, u)
    BY <2>5, <2>7
  <2>9. \A i \in 1 .. m : e[i] \in 1 .. n /\ Keep(u, S)[i] = t[e[i]]
    BY <2>6, <2>8
  <2>10. \A i, j \in 1 .. m : i < j => e[i] < e[j]
    BY <2>8
  <2>11. \A k \in 1 .. n : t[k] \in S => \E i \in 1 .. m : e[i] = k
    BY <2>5, <2>6, <2>8
  <2> HIDE DEF R, m
  <2>12. CASE x \in S
    <3> DEFINE f == [i \in 1 .. (m + 1) |-> IF i = m + 1 THEN n + 1 ELSE e[i]]
    <3>1. Keep(t, S) = Append(Keep(u, S), x)
      BY <2>4, <2>12
    <3>2. /\ Len(Keep(t, S)) = m + 1 /\ Keep(t, S)[m + 1] = x
          /\ \A i \in 1 .. m : Keep(t, S)[i] = Keep(u, S)[i]
      BY <2>5, <3>1 DEF m
    <3>3. \A i \in 1 .. m : f[i] = e[i]
      BY <2>5
    <3>4. f[m + 1] = n + 1
      BY <2>5
    <3>5. \A i \in 1 .. (m + 1) : i = m + 1 \/ i \in 1 .. m
      BY <2>5
    <3>6. f \in [1 .. (m + 1) -> 1 .. (n + 1)]
      BY <2>5, <2>9
    <3> HIDE DEF f
    <3>7. \A i \in 1 .. (m + 1) : Keep(t, S)[i] = t[f[i]]
      BY <2>6, <2>9, <3>2, <3>3, <3>4, <3>5
    <3>8. \A i, j \in 1 .. (m + 1) : i < j => f[i] < f[j]
      <4>1. TAKE i, j \in 1 .. (m + 1)
      <4>2. HAVE i < j
      <4>3. i \in 1 .. m
        BY <2>5, <4>2
      <4>4. f[i] = e[i] /\ e[i] \in 1 .. n
        BY <2>9, <3>3, <4>3
      <4>5. CASE j = m + 1
        BY <3>4, <4>4, <4>5
      <4>6. CASE j \in 1 .. m
        BY <2>10, <3>3, <4>2, <4>3, <4>6
      <4> QED
        BY <3>5, <4>5, <4>6
    <3>9. \A k \in 1 .. (n + 1) : t[k] \in S => \E i \in 1 .. (m + 1) : f[i] = k
      <4>1. TAKE k \in 1 .. (n + 1)
      <4>2. HAVE t[k] \in S
      <4>3. CASE k = n + 1
        <5>1. m + 1 \in 1 .. (m + 1)
          BY <2>5
        <5> QED
          BY <3>4, <4>3, <5>1
      <4>4. CASE k \in 1 .. n
        <5>1. PICK i \in 1 .. m : e[i] = k
          BY <2>11, <4>2, <4>4
        <5>2. i \in 1 .. (m + 1) /\ f[i] = k
          BY <2>5, <3>3, <5>1
        <5> QED
          BY <5>2
      <4> QED
        BY <4>3, <4>4
    <3>10. Embeds(f, t)
      BY <2>1, <3>2, <3>7, <3>8, <3>9
    <3>11. f \in [1 .. Len(Keep(t, S)) -> 1 .. Len(t)]
      BY <2>1, <3>2, <3>6
    <3> HIDE DEF Embeds
    <3> QED
      BY <3>10, <3>11, Zenon
  <2>13. CASE x \notin S
    <3>1. Keep(t, S) = Keep(u, S)
      BY <2>4, <2>13
    <3>2. e \in [1 .. m -> 1 .. (n + 1)]
      BY <2>9
    <3>3. \A k \in 1 .. (n + 1) : t[k] \in S => \E i \in 1 .. m : e[i] = k
      BY <2>6, <2>11, <2>13
    <3>4. Len(Keep(t, S)) = m
      BY <3>1 DEF m
    <3>5. Embeds(e, t)
      BY <2>1, <2>9, <2>10, <3>1, <3>3, <3>4
    <3>6. e \in [1 .. Len(Keep(t, S)) -> 1 .. Len(t)]
      BY <2>1, <3>2, <3>4
    <3> HIDE DEF Embeds
    <3> QED
      BY <3>5, <3>6, Zenon
  <2> QED
    BY <2>12, <2>13
<1> HIDE DEF R
<1>3. Len(s) \in R
  BY <1>1, <1>2, NatSetInduction
<1> QED
  BY <1>3 DEF R

\* What was kept is where it was, in order, from the first to the last.
LEMMA KeepFromFirst ==
    ASSUME NEW X, NEW x \in X, NEW s \in Seq(X), NEW S
    PROVE  Keep(Cons(x, s), S) = IF x \in S THEN Cons(x, Keep(s, S)) ELSE Keep(s, S)
<1> DEFINE Splits(t) ==
               Keep(Cons(x, t), S) = IF x \in S THEN Cons(x, Keep(t, S)) ELSE Keep(t, S)
           R == {n \in Nat : \A t \in Seq(X) : Len(t) = n => Splits(t)}
<1>1. 0 \in R
  <2>1. \A t \in Seq(X) : Len(t) = 0 => t = <<>>
    OBVIOUS
  <2>2. <<>> \in Seq(X)
    OBVIOUS
  <2>3. Keep(<<>>, S) = <<>>
    BY KeepOfNone
  <2>4. Keep(Append(<<>>, x), S) = IF x \in S THEN Append(<<>>, x) ELSE <<>>
    BY <2>2, <2>3, KeepOfAppend
  <2>5. Splits(<<>>)
    BY <2>3, <2>4, ConsOfNone
  <2> QED
    BY <2>1, <2>5
<1>2. ASSUME NEW n \in Nat, n \in R PROVE n + 1 \in R
  <2>1. SUFFICES ASSUME NEW t \in Seq(X), Len(t) = n + 1 PROVE Splits(t)
    OBVIOUS
  <2> DEFINE u == Front(t)
             y == Last(t)
  <2>2. t # <<>>
    BY <2>1
  <2>3. u \in Seq(X) /\ y \in X /\ Len(u) = Len(t) - 1 /\ t = Append(u, y)
    BY <2>1, <2>2, LastOf
  <2> HIDE DEF u, y
  <2>4. Splits(u)
    BY <1>2, <2>1, <2>3
  <2> HIDE DEF R
  <2>5. Cons(x, u) \in Seq(X) /\ Append(Cons(x, u), y) = Cons(x, Append(u, y))
    BY <2>3, ConsAndAppend
  <2>6. Keep(Append(Cons(x, u), y), S) =
            IF y \in S THEN Append(Keep(Cons(x, u), S), y) ELSE Keep(Cons(x, u), S)
    BY <2>3, <2>5, KeepOfAppend
  <2>7. Keep(t, S) = IF y \in S THEN Append(Keep(u, S), y) ELSE Keep(u, S)
    BY <2>3, KeepOfAppend
  <2>8. Keep(u, S) \in Seq(X)
    BY <2>3, KeepType
  <2>9. Append(Cons(x, Keep(u, S)), y) = Cons(x, Append(Keep(u, S), y))
    BY <2>3, <2>8, ConsAndAppend
  <2> QED
    BY <2>3, <2>4, <2>5, <2>6, <2>7, <2>9
<1> HIDE DEF R
<1>3. Len(s) \in R
  BY <1>1, <1>2, NatSetInduction
<1> QED
  BY <1>3 DEF R

\* The range of what is kept is what of the range is in S.
LEMMA KeepRange ==
    ASSUME NEW X, NEW s \in Seq(X), NEW S
    PROVE  Range(Keep(s, S)) = Range(s) \cap S
<1>1. /\ Keep(s, S) \in Seq(X)
      /\ \A i \in 1 .. Len(Keep(s, S)) : Keep(s, S)[i] \in S
  BY KeepType
<1>2. PICK e \in [1 .. Len(Keep(s, S)) -> 1 .. Len(s)] :
          /\ \A i \in 1 .. Len(Keep(s, S)) : Keep(s, S)[i] = s[e[i]]
          /\ \A k \in 1 .. Len(s) : s[k] \in S => \E i \in 1 .. Len(Keep(s, S)) : e[i] = k
  BY KeepEmbeds
<1>3. DOMAIN Keep(s, S) = 1 .. Len(Keep(s, S)) /\ DOMAIN s = 1 .. Len(s)
  BY <1>1
<1>4. ASSUME NEW y \in Range(Keep(s, S)) PROVE y \in Range(s) \cap S
  <2>1. PICK i \in 1 .. Len(Keep(s, S)) : y = Keep(s, S)[i]
    BY <1>3 DEF Range
  <2>2. e[i] \in 1 .. Len(s) /\ y = s[e[i]]
    BY <1>2, <2>1
  <2> QED
    BY <1>1, <1>3, <2>1, <2>2 DEF Range
<1>5. ASSUME NEW y \in Range(s) \cap S PROVE y \in Range(Keep(s, S))
  <2>1. PICK k \in 1 .. Len(s) : y = s[k]
    BY <1>3 DEF Range
  <2>2. PICK i \in 1 .. Len(Keep(s, S)) : e[i] = k
    BY <1>2, <2>1
  <2>3. y = Keep(s, S)[i]
    BY <1>2, <2>1, <2>2
  <2> QED
    BY <1>3, <2>3 DEF Range
<1> QED
  BY <1>4, <1>5

\* If nothing after the first is in S, at most the first is kept.
LEMMA KeepFirst ==
    ASSUME NEW X, NEW s \in Seq(X), NEW S, \A i \in 2 .. Len(s) : s[i] \notin S
    PROVE  Keep(s, S) = IF s # <<>> /\ s[1] \in S THEN <<s[1]>> ELSE <<>>
<1>1. CASE s = <<>>
  BY <1>1, KeepOfNone
<1>2. CASE s # <<>>
  <2> DEFINE x == s[1]
             t == Tail(s)
  <2>1. x \in X /\ t \in Seq(X) /\ s = Cons(x, t)
    BY <1>2, ConsOfTail
  <2>2. \A i \in 1 .. Len(t) : t[i] \notin S
    BY <1>2
  <2> HIDE DEF x, t
  <2>3. Keep(t, S) \in Seq(X) /\ Range(Keep(t, S)) = Range(t) \cap S
    BY <2>1, KeepType, KeepRange
  <2>4. Range(t) \cap S = {}
    BY <2>1, <2>2 DEF Range
  <2>5. Keep(t, S) = <<>>
    BY <2>3, <2>4 DEF Range
  <2>6. Keep(Cons(x, t), S) = IF x \in S THEN Cons(x, Keep(t, S)) ELSE Keep(t, S)
    BY <2>1, KeepFromFirst
  <2>7. Cons(x, <<>>) = <<x>>
    BY ConsOfNone
  <2>8. Keep(s, S) = IF x \in S THEN <<x>> ELSE <<>>
    BY <2>1, <2>5, <2>6, <2>7
  <2> QED
    BY <1>2, <2>8 DEF x
<1> QED
  BY <1>1, <1>2

-----------------------------------------------------------------------------
(* What queues of frames and of Inputs add up to.                          *)

LEMMA ConsAt ==
    ASSUME NEW X, NEW x \in X, NEW s \in Seq(X)
    PROVE  /\ Cons(x, s) \in Seq(X)
           /\ Len(Cons(x, s)) = Len(s) + 1
           /\ Cons(x, s)[1] = x
           /\ \A i \in 1 .. Len(s) : Cons(x, s)[i + 1] = s[i]
<1> DEFINE c == <<x>> \o s
<1>1. c \in Seq(X) /\ Len(c) = Len(s) + 1
  OBVIOUS
<1>2. c[1] = x
  OBVIOUS
<1>3. \A i \in 1 .. Len(s) : c[i + 1] = s[i]
  OBVIOUS
<1> QED
  BY <1>1, <1>2, <1>3 DEF Cons

LEMMA ConsIs ==
    ASSUME NEW z \in Int, NEW m \in Seq(Int), NEW k \in Seq(Int), Len(k) = Len(m) + 1,
           k[1] = z, \A i \in 1 .. Len(m) : k[i + 1] = m[i]
    PROVE  k = Cons(z, m)
<1> DEFINE c == <<z>> \o m
<1>1. c \in Seq(Int) /\ Len(c) = Len(m) + 1 /\ c[1] = z
  OBVIOUS
<1>2. \A i \in 1 .. Len(m) : c[i + 1] = m[i]
  OBVIOUS
<1> HIDE DEF c
<1>3. ASSUME NEW i \in 1 .. (Len(m) + 1) PROVE k[i] = c[i]
  <2>1. CASE i = 1
    BY <1>1, <2>1
  <2>2. CASE i # 1
    <3>1. i - 1 \in 1 .. Len(m) /\ (i - 1) + 1 = i
      BY <2>2
    <3> QED
      BY <1>2, <3>1
  <2> QED
    BY <2>1, <2>2
<1>4. k = c
  BY <1>1, <1>3
<1> QED
  BY <1>4 DEF Cons, c

LEMMA FrameType ==
    ASSUME NEW x \in Framed
    PROVE  x.kind \in Kinds /\ x.value \in Nat /\ x.written \in 0 .. (FRAME - 1)
              /\ FRAME - x.written \in Nat /\ FRAME - x.written > 0
BY HostConstants DEF Framed

\* Where the frames of a queue are, by its first.
LEMMA FramesAt ==
    ASSUME NEW h \in Framed, NEW t \in Seq(Framed)
    PROVE  /\ Len(t) \in Nat /\ Len(Cons(h, t)) = Len(t) + 1
           /\ Cons(h, t)[1] = h
           /\ \A i \in 1 .. Len(t) : Cons(h, t)[i + 1] = t[i]
<1>1. Len(t) \in Nat
  OBVIOUS
<1>2. Len(Cons(h, t)) = Len(t) + 1
  BY ConsAt
<1>3. Cons(h, t)[1] = h
  BY ConsAt
<1>4. \A i \in 1 .. Len(t) : Cons(h, t)[i + 1] = t[i]
  BY ConsAt
<1> QED
  BY <1>1, <1>2, <1>3, <1>4

LEMMA UnsentOfNone == Unsent(<<>>) = 0
<1>1. [i \in DOMAIN <<>> |-> FRAME - (<<>>)[i].written] = <<>>
  OBVIOUS
<1> QED
  BY <1>1, SumOfNone DEF Unsent

LEMMA UnsentOfAppend ==
    ASSUME NEW q \in Seq(Framed), NEW x \in Framed
    PROVE  Unsent(Append(q, x)) = Unsent(q) + (FRAME - x.written)
<1> DEFINE m == [i \in DOMAIN q |-> FRAME - q[i].written]
           k == [i \in DOMAIN Append(q, x) |-> FRAME - Append(q, x)[i].written]
           z == FRAME - x.written
<1>1. \A y \in Framed : FRAME - y.written \in Int
  BY FrameType
<1>2. m \in Seq(Int) /\ Len(m) = Len(q) /\ z \in Int
  BY <1>1
<1>3. k \in Seq(Int) /\ Len(k) = Len(q) + 1
  BY <1>1
<1>4. \A i \in 1 .. Len(q) : k[i] = m[i]
  OBVIOUS
<1>5. k[Len(q) + 1] = z
  OBVIOUS
<1> HIDE DEF m, k, z
<1>6. k = Append(m, z)
  BY <1>2, <1>3, <1>4, <1>5
<1>7. Sum(Append(m, z)) = Sum(m) + z
  BY <1>2, SumOfAppend
<1> QED
  BY <1>6, <1>7 DEF Unsent, m, k, z

LEMMA UnsentFromFirst ==
    ASSUME NEW q \in Seq(Framed), NEW x \in Framed
    PROVE  Unsent(Cons(x, q)) = (FRAME - x.written) + Unsent(q)
<1>0. /\ Cons(x, q) \in Seq(Framed)
      /\ Len(Cons(x, q)) = Len(q) + 1
      /\ Cons(x, q)[1] = x
      /\ \A i \in 1 .. Len(q) : Cons(x, q)[i + 1] = q[i]
  <2>1. Cons(x, q) \in Seq(Framed)
    BY ConsAt
  <2>2. Len(Cons(x, q)) = Len(q) + 1
    BY ConsAt
  <2>3. Cons(x, q)[1] = x
    BY ConsAt
  <2>4. \A i \in 1 .. Len(q) : Cons(x, q)[i + 1] = q[i]
    BY ConsAt
  <2> QED
    BY <2>1, <2>2, <2>3, <2>4
<1> DEFINE m == [i \in DOMAIN q |-> FRAME - q[i].written]
           k == [i \in DOMAIN Cons(x, q) |-> FRAME - Cons(x, q)[i].written]
           z == FRAME - x.written
<1>1. \A y \in Framed : FRAME - y.written \in Int
  BY FrameType
<1>2. m \in Seq(Int) /\ Len(m) = Len(q) /\ z \in Int
  BY <1>1
<1>4. k \in Seq(Int) /\ Len(k) = Len(q) + 1
  BY <1>1, <1>0
<1>5. DOMAIN Cons(x, q) = 1 .. (Len(q) + 1)
  BY <1>0
<1>6. k[1] = z
  BY <1>0, <1>5
<1>7. \A i \in 1 .. Len(q) : k[i + 1] = m[i]
  BY <1>0, <1>5
<1> HIDE DEF m, k, z
<1>8. k = Cons(z, m)
  BY <1>2, <1>4, <1>6, <1>7, ConsIs
<1>9. Sum(Cons(z, m)) = z + Sum(m)
  BY <1>2, SumFromFirst
<1> QED
  BY <1>8, <1>9 DEF Unsent, m, k, z

LEMMA UnsentType ==
    ASSUME NEW q \in Seq(Framed)
    PROVE  Unsent(q) \in Nat
<1>1. \A y \in Framed : FRAME - y.written \in Nat
  BY FrameType
<1>2. [i \in DOMAIN q |-> FRAME - q[i].written] \in Seq(Nat)
  BY <1>1
<1> QED
  BY <1>2, SumOfNats DEF Unsent

\* What is kept adds up to no more.
LEMMA UnsentOfKept ==
    ASSUME NEW q \in Seq(Framed), NEW S
    PROVE  Unsent(Keep(q, S)) <= Unsent(q)
<1> DEFINE R == {n \in Nat : \A t \in Seq(Framed) : Len(t) = n => Unsent(Keep(t, S)) <= Unsent(t)}
<1>1. 0 \in R
  <2>1. \A t \in Seq(Framed) : Len(t) = 0 => t = <<>>
    OBVIOUS
  <2> QED
    BY <2>1, KeepOfNone, UnsentOfNone
<1>2. ASSUME NEW n \in Nat, n \in R PROVE n + 1 \in R
  <2>1. SUFFICES ASSUME NEW t \in Seq(Framed), Len(t) = n + 1
                 PROVE  Unsent(Keep(t, S)) <= Unsent(t)
    OBVIOUS
  <2> DEFINE u == Front(t)
             x == Last(t)
  <2>2. t # <<>>
    BY <2>1
  <2>3. u \in Seq(Framed) /\ x \in Framed /\ Len(u) = Len(t) - 1 /\ t = Append(u, x)
    BY <2>1, <2>2, LastOf
  <2> HIDE DEF u, x
  <2>4. Unsent(Keep(u, S)) <= Unsent(u)
    BY <1>2, <2>1, <2>3
  <2> HIDE DEF R
  <2>5. Keep(u, S) \in Seq(Framed)
    BY <2>3, KeepType
  <2>6. Unsent(u) \in Nat /\ Unsent(Keep(u, S)) \in Nat /\ FRAME - x.written \in Nat
    BY <2>3, <2>5, UnsentType, FrameType
  <2>7. Unsent(t) = Unsent(u) + (FRAME - x.written)
    BY <2>3, UnsentOfAppend
  <2>8. Keep(t, S) = IF x \in S THEN Append(Keep(u, S), x) ELSE Keep(u, S)
    BY <2>3, KeepOfAppend
  <2>9. Unsent(Append(Keep(u, S), x)) = Unsent(Keep(u, S)) + (FRAME - x.written)
    BY <2>3, <2>5, UnsentOfAppend
  <2> QED
    BY <2>4, <2>6, <2>7, <2>8, <2>9
<1> HIDE DEF R
<1>3. Len(q) \in R
  BY <1>1, <1>2, NatSetInduction
<1> QED
  BY <1>3 DEF R

LEMMA OfKindType ==
    ASSUME NEW q \in Seq(Framed), NEW kinds
    PROVE  OfKind(q, kinds) \in Seq(Framed)
BY KeepType DEF OfKind

LEMMA KindIs ==
    ASSUME NEW x \in Framed, NEW kinds
    PROVE  x \in [kind : kinds, value : Nat, written : 0 .. (FRAME - 1)] <=> x.kind \in kinds
BY DEF Framed

LEMMA OfKindOfNone == \A kinds : OfKind(<<>>, kinds) = <<>>
BY KeepOfNone DEF OfKind

LEMMA OfKindOfAppend ==
    ASSUME NEW q \in Seq(Framed), NEW x \in Framed, NEW kinds
    PROVE  OfKind(Append(q, x), kinds) =
               IF x.kind \in kinds THEN Append(OfKind(q, kinds), x) ELSE OfKind(q, kinds)
<1> DEFINE S == [kind : kinds, value : Nat, written : 0 .. (FRAME - 1)]
<1>1. x \in S <=> x.kind \in kinds
  BY KindIs
<1> HIDE DEF S
<1>2. Keep(Append(q, x), S) = IF x \in S THEN Append(Keep(q, S), x) ELSE Keep(q, S)
  BY KeepOfAppend
<1> QED
  BY <1>1, <1>2 DEF OfKind, S

LEMMA OfKindFromFirst ==
    ASSUME NEW q \in Seq(Framed), NEW x \in Framed, NEW kinds
    PROVE  OfKind(Cons(x, q), kinds) =
               IF x.kind \in kinds THEN Cons(x, OfKind(q, kinds)) ELSE OfKind(q, kinds)
<1> DEFINE S == [kind : kinds, value : Nat, written : 0 .. (FRAME - 1)]
<1>1. x \in S <=> x.kind \in kinds
  BY KindIs
<1> HIDE DEF S
<1>2. Keep(Cons(x, q), S) = IF x \in S THEN Cons(x, Keep(q, S)) ELSE Keep(q, S)
  BY KeepFromFirst
<1> QED
  BY <1>1, <1>2 DEF OfKind, S

Written == 0 .. (INPUT_LEN - 1)

LEMMA CostsOfNone == Costs(<<>>) = 0
<1>1. [i \in DOMAIN <<>> |-> (INPUT_LEN - (<<>>)[i]) + INPUT_COST] = <<>>
  OBVIOUS
<1> QED
  BY <1>1, SumOfNone DEF Costs

LEMMA CostType ==
    ASSUME NEW w \in Written
    PROVE  (INPUT_LEN - w) + INPUT_COST \in Nat
BY HostConstants DEF Written

LEMMA CostsType ==
    ASSUME NEW input \in Seq(Written)
    PROVE  Costs(input) \in Nat
<1>1. \A w \in Written : (INPUT_LEN - w) + INPUT_COST \in Nat
  BY CostType
<1>2. [i \in DOMAIN input |-> (INPUT_LEN - input[i]) + INPUT_COST] \in Seq(Nat)
  BY <1>1
<1> QED
  BY <1>2, SumOfNats DEF Costs

LEMMA CostsOfAppend ==
    ASSUME NEW input \in Seq(Written), NEW w \in Written
    PROVE  Costs(Append(input, w)) = Costs(input) + ((INPUT_LEN - w) + INPUT_COST)
<1> DEFINE m == [i \in DOMAIN input |-> (INPUT_LEN - input[i]) + INPUT_COST]
           k == [i \in DOMAIN Append(input, w) |-> (INPUT_LEN - Append(input, w)[i]) + INPUT_COST]
           z == (INPUT_LEN - w) + INPUT_COST
<1>1. \A y \in Written : (INPUT_LEN - y) + INPUT_COST \in Int
  BY CostType
<1>2. m \in Seq(Int) /\ Len(m) = Len(input) /\ z \in Int
  BY <1>1
<1>3. k \in Seq(Int) /\ Len(k) = Len(input) + 1
  BY <1>1
<1>4. \A i \in 1 .. Len(input) : k[i] = m[i]
  OBVIOUS
<1>5. k[Len(input) + 1] = z
  OBVIOUS
<1> HIDE DEF m, k, z
<1>6. k = Append(m, z)
  BY <1>2, <1>3, <1>4, <1>5
<1>7. Sum(Append(m, z)) = Sum(m) + z
  BY <1>2, SumOfAppend
<1> QED
  BY <1>6, <1>7 DEF Costs, m, k, z

LEMMA CostsFromFirst ==
    ASSUME NEW input \in Seq(Written), NEW w \in Written
    PROVE  Costs(Cons(w, input)) = ((INPUT_LEN - w) + INPUT_COST) + Costs(input)
<1> DEFINE m == [i \in DOMAIN input |-> (INPUT_LEN - input[i]) + INPUT_COST]
           k == [i \in DOMAIN Cons(w, input) |-> (INPUT_LEN - Cons(w, input)[i]) + INPUT_COST]
           z == (INPUT_LEN - w) + INPUT_COST
<1>1. \A y \in Written : (INPUT_LEN - y) + INPUT_COST \in Int
  BY CostType
<1>2. m \in Seq(Int) /\ Len(m) = Len(input) /\ z \in Int
  BY <1>1
<1>3. /\ Cons(w, input) \in Seq(Written)
      /\ Len(Cons(w, input)) = Len(input) + 1
      /\ Cons(w, input)[1] = w
      /\ \A i \in 1 .. Len(input) : Cons(w, input)[i + 1] = input[i]
  <2>1. Cons(w, input) \in Seq(Written)
    BY ConsAt
  <2>2. Len(Cons(w, input)) = Len(input) + 1
    BY ConsAt
  <2>3. Cons(w, input)[1] = w
    BY ConsAt
  <2>4. \A i \in 1 .. Len(input) : Cons(w, input)[i + 1] = input[i]
    BY ConsAt
  <2> QED
    BY <2>1, <2>2, <2>3, <2>4
<1>4. k \in Seq(Int) /\ Len(k) = Len(input) + 1
  BY <1>1, <1>3
<1>5. DOMAIN Cons(w, input) = 1 .. (Len(input) + 1)
  BY <1>3
<1>6. k[1] = z
  BY <1>3, <1>5
<1>7. \A i \in 1 .. Len(input) : k[i + 1] = m[i]
  BY <1>3, <1>5
<1> HIDE DEF m, k, z
<1>8. k = Cons(z, m)
  <2>1. Len(k) = Len(m) + 1
    BY <1>2, <1>4
  <2>2. \A i \in 1 .. Len(m) : k[i + 1] = m[i]
    BY <1>2, <1>7
  <2>3. z \in Int /\ m \in Seq(Int) /\ k \in Seq(Int) /\ k[1] = z
    BY <1>2, <1>4, <1>6
  <2> QED
    BY ONLY <2>1, <2>2, <2>3, ConsIs
<1>9. Sum(Cons(z, m)) = z + Sum(m)
  BY <1>2, SumFromFirst
<1> QED
  BY <1>8, <1>9 DEF Costs, m, k, z

-----------------------------------------------------------------------------
(* What each change of the queue keeps of its shape, of the totals its     *)
(* acknowledgements tell and of the records in it.                         *)

LEMMA ShapeOfAppend ==
    ASSUME NEW q \in Seq(Framed), NEW x \in Framed, Shape(q, FALSE), x.written = 0,
           x.kind \in Kinds \ (LastFrames \cup {"Welcome"}),
           x.kind = "InputAck" /\ q # <<>> => ~ IsAck(q[Len(q)]) \/ q[Len(q)].written > 0
    PROVE  Shape(Append(q, x), FALSE)
<1> DEFINE n == Len(q)
           r == Append(q, x)
<1>1. n \in Nat /\ Len(r) = n + 1 /\ r[n + 1] = x /\ \A i \in 1 .. n : r[i] = q[i]
  OBVIOUS
<1>2. \A i \in 1 .. n : q[i] \in Framed
  OBVIOUS
<1>3. q # <<>> <=> n # 0
  OBVIOUS
<1> HIDE DEF n, r
<1>4. \A i \in 1 .. (n + 1) : i \in 1 .. n \/ i = n + 1
  BY <1>1
<1>5. ASSUME NEW i \in 2 .. (n + 1) PROVE r[i].kind # "Welcome" /\ r[i].written = 0
  <2>1. CASE i = n + 1
    BY <1>1, <2>1
  <2>2. CASE i \in 2 .. n
    BY <1>1, <2>2 DEF Shape, n
  <2> QED
    BY <1>1, <2>1, <2>2
<1>6. ASSUME NEW i \in 1 .. (n + 1) PROVE r[i].kind \notin LastFrames
  <2>1. CASE i = n + 1
    BY <1>1, <2>1
  <2>2. CASE i \in 1 .. n
    BY <1>1, <2>2 DEF Shape, n
  <2> QED
    BY <1>4, <2>1, <2>2
<1>7. ASSUME NEW i \in 1 .. n, r[i].kind = "InputAck", r[i + 1].kind = "InputAck"
      PROVE  i = 1 /\ r[i].written > 0
  <2>1. CASE i = n
    <3>1. x.kind = "InputAck" /\ q # <<>> /\ IsAck(q[n])
      BY <1>1, <1>3, <1>7, <2>1 DEF IsAck
    <3>2. q[n].written > 0
      BY <3>1 DEF n
    <3>3. n \notin 2 .. n
      BY <3>2 DEF Shape, n
    <3> QED
      BY <1>1, <2>1, <3>2, <3>3
  <2>2. CASE i # n
    <3>1. i \in 1 .. (n - 1) /\ i + 1 \in 1 .. n
      BY <1>1, <2>2
    <3>2. r[i] = q[i] /\ r[i + 1] = q[i + 1]
      BY <1>1, <3>1
    <3> QED
      BY <1>7, <3>1, <3>2 DEF Shape, n
  <2> QED
    BY <2>1, <2>2
<1>8. Len(Append(q, x)) = n + 1 /\ (n + 1) - 1 = n
  BY <1>1 DEF r
<1> QED
  BY <1>5, <1>6, <1>7, <1>8 DEF Shape, r

LEMMA ShapeOfLast ==
    ASSUME NEW q \in Seq(Framed), NEW x \in Framed, Shape(q, FALSE), x.written = 0,
           Len(q) <= 1, x.kind \in LastFrames
    PROVE  Shape(Append(q, x), TRUE)
<1> DEFINE r == Append(q, x)
<1>1. x.kind # "Welcome" /\ x.kind # "InputAck"
  BY DEF LastFrames
<1>2. CASE Len(q) = 0
  <2>1. Len(r) = 1 /\ r[1] = x
    BY <1>2
  <2> HIDE DEF r
  <2> QED
    BY <1>1, <2>1 DEF Shape, r
<1>3. CASE Len(q) = 1
  <2>0. Append(q, x)[Len(q) + 1] = x /\ \A i \in 1 .. Len(q) : Append(q, x)[i] = q[i]
    OBVIOUS
  <2>1. Len(r) = 2 /\ r[1] = q[1] /\ r[2] = x
    <3>1. Len(r) = Len(q) + 1
      OBVIOUS
    <3>2. 1 \in 1 .. Len(q)
      BY <1>3
    <3>3. r[1] = q[1]
      BY <2>0, <3>2
    <3>4. r[2] = x
      <4>1. Len(q) + 1 = 2
        BY <1>3
      <4> QED
        BY <2>0, <4>1
    <3> HIDE DEF r
    <3> QED
      BY <1>3, <3>1, <3>3, <3>4
  <2>2. q[1].kind \notin LastFrames
    BY <1>3 DEF Shape
  <2> HIDE DEF r
  <2>3. \A i \in 2 .. Len(r) : i = 2
    BY <2>1
  <2>4. \A i \in 1 .. Len(r) : i = 1 \/ i = 2
    BY <2>1
  <2>5. \A i \in 1 .. (Len(r) - 1) : i = 1
    BY <2>1
  <2>6. \A i \in 2 .. Len(r) : r[i].kind # "Welcome" /\ r[i].written = 0
    BY <1>1, <2>1, <2>3
  <2>7. \A i \in 1 .. Len(r) : r[i].kind \in LastFrames <=> (TRUE /\ i = Len(r))
    BY <2>1, <2>2, <2>4
  <2>8. \A i \in 1 .. (Len(r) - 1) : r[i + 1].kind # "InputAck"
    BY <1>1, <2>1, <2>5
  <2> QED
    BY <2>6, <2>7, <2>8 DEF Shape, r
<1>4. Len(q) \in Nat
  OBVIOUS
<1>5. Len(q) = 0 \/ Len(q) = 1
  <2>1. \A n \in Nat : n <= 1 => n = 0 \/ n = 1
    OBVIOUS
  <2> QED
    BY <1>4, <2>1
<1> QED
  BY <1>2, <1>3, <1>5

LEMMA ShapeOfTail ==
    ASSUME NEW h \in Framed, NEW t \in Seq(Framed), NEW c \in BOOLEAN, Shape(Cons(h, t), c)
    PROVE  Shape(t, c) /\ \A i \in 1 .. Len(t) : t[i].kind # "Welcome" /\ t[i].written = 0
<1> DEFINE q == Cons(h, t)
           n == Len(t)
<1>1. n \in Nat /\ Len(q) = n + 1 /\ \A i \in 1 .. n : q[i + 1] = t[i]
  BY FramesAt
<1>2. Shape(q, c)
  OBVIOUS
<1> HIDE DEF q, n
<1>3. ASSUME NEW i \in 1 .. n
      PROVE  /\ t[i].kind # "Welcome" /\ t[i].written = 0
             /\ t[i].kind \in LastFrames <=> (c /\ i = n)
  <2>1. i + 1 \in 2 .. (n + 1) /\ i + 1 \in 1 .. (n + 1) /\ t[i] = q[i + 1]
    BY <1>1
  <2>2. t[i].kind # "Welcome" /\ t[i].written = 0
    BY <1>1, <1>2, <2>1 DEF Shape
  <2>3. q[i + 1].kind \in LastFrames <=> (c /\ i + 1 = n + 1)
    BY <1>1, <1>2, <2>1 DEF Shape
  <2>4. i + 1 = n + 1 <=> i = n
    BY <1>1
  <2> QED
    BY <2>1, <2>2, <2>3, <2>4
<1>4. ASSUME NEW i \in 1 .. (n - 1) PROVE ~ (t[i].kind = "InputAck" /\ t[i + 1].kind = "InputAck")
  <2>1. i \in 1 .. n /\ i + 1 \in 1 .. n /\ i + 1 \in 1 .. ((n + 1) - 1) /\ i + 1 # 1
    BY <1>1
  <2>2. t[i] = q[i + 1] /\ t[i + 1] = q[(i + 1) + 1]
    BY <1>1, <2>1
  <2> QED
    BY <1>1, <1>2, <2>1, <2>2 DEF Shape
<1>5. \A i \in 2 .. n : i \in 1 .. n
  BY <1>1
<1> QED
  BY <1>3, <1>4, <1>5 DEF Shape, n

\* More of the front frame was written.
LEMMA ShapeOfFront ==
    ASSUME NEW h \in Framed, NEW t \in Seq(Framed), NEW c \in BOOLEAN, Shape(Cons(h, t), c),
           NEW k \in Framed, k.kind = h.kind, k.written >= h.written
    PROVE  Shape(Cons(k, t), c)
<1> DEFINE q == Cons(h, t)
           r == Cons(k, t)
           n == Len(t)
<1>1. n \in Nat /\ Len(q) = n + 1 /\ q[1] = h /\ \A i \in 1 .. n : q[i + 1] = t[i]
  BY FramesAt
<1>2. Len(r) = n + 1 /\ r[1] = k /\ \A i \in 1 .. n : r[i + 1] = t[i]
  BY FramesAt
<1>3. Shape(q, c)
  OBVIOUS
<1>4. k.written \in Int /\ h.written \in Int
  BY FrameType
<1> HIDE DEF q, r, n
<1>5. \A i \in 2 .. (n + 1) : r[i] = q[i]
  <2> TAKE i \in 2 .. (n + 1)
  <2>1. i - 1 \in 1 .. n /\ (i - 1) + 1 = i
    BY <1>1
  <2> QED
    BY <1>1, <1>2, <2>1
<1>6. \A i \in 1 .. (n + 1) : i = 1 \/ i \in 2 .. (n + 1)
  BY <1>1
<1>7. \A i \in 1 .. (n + 1) : r[i].kind = q[i].kind
  BY <1>1, <1>2, <1>5, <1>6
<1>8. \A i \in 2 .. (n + 1) : r[i].kind # "Welcome" /\ r[i].written = 0
  BY <1>1, <1>3, <1>5 DEF Shape
<1>9. \A i \in 1 .. (n + 1) : r[i].kind \in LastFrames <=> (c /\ i = n + 1)
  BY <1>1, <1>3, <1>7 DEF Shape
<1>10. ASSUME NEW i \in 1 .. n, r[i].kind = "InputAck", r[i + 1].kind = "InputAck"
       PROVE  i = 1 /\ r[i].written > 0
  <2>1. i \in 1 .. (n + 1) /\ i + 1 \in 1 .. (n + 1) /\ i \in 1 .. (Len(q) - 1)
    BY <1>1
  <2>2. q[i].kind = "InputAck" /\ q[i + 1].kind = "InputAck"
    BY <1>7, <1>10, <2>1
  <2>3. i = 1 /\ q[i].written > 0
    BY <1>3, <2>1, <2>2 DEF Shape
  <2> QED
    BY <1>1, <1>2, <1>4, <2>3
<1>11. Len(r) - 1 = n
  BY <1>1, <1>2
<1> QED
  BY <1>2, <1>8, <1>9, <1>10, <1>11 DEF Shape, r

\* The last frame, not started, was brought up to date.
LEMMA ShapeOfUpdate ==
    ASSUME NEW q \in Seq(Framed), NEW x \in Framed, NEW y \in Framed, NEW c \in BOOLEAN,
           Shape(Append(q, x), c), x.kind = y.kind, x.written = y.written
    PROVE  Shape(Append(q, y), c)
<1> DEFINE n == Len(q)
           r == Append(q, x)
           s == Append(q, y)
<1>1. n \in Nat /\ Len(r) = n + 1 /\ r[n + 1] = x /\ \A i \in 1 .. n : r[i] = q[i]
  OBVIOUS
<1>2. Len(s) = n + 1 /\ s[n + 1] = y /\ \A i \in 1 .. n : s[i] = q[i]
  OBVIOUS
<1>3. Shape(r, c)
  OBVIOUS
<1> HIDE DEF n, r, s
<1>4. \A i \in 1 .. (n + 1) : i \in 1 .. n \/ i = n + 1
  BY <1>1
<1>5. \A i \in 1 .. (n + 1) : s[i].kind = r[i].kind /\ s[i].written = r[i].written
  BY <1>1, <1>2, <1>4
<1>6. \A i \in 2 .. (n + 1) : i \in 1 .. (n + 1)
  BY <1>1
<1>7. \A i \in 1 .. n : i \in 1 .. (n + 1) /\ i + 1 \in 1 .. (n + 1)
  BY <1>1
<1>8. Len(r) - 1 = n /\ Len(s) - 1 = n
  BY <1>1, <1>2
<1>9. \A i \in 2 .. (n + 1) : s[i].kind # "Welcome" /\ s[i].written = 0
  BY <1>1, <1>3, <1>5, <1>6 DEF Shape
<1>10. \A i \in 1 .. (n + 1) : s[i].kind \in LastFrames <=> (c /\ i = n + 1)
  BY <1>1, <1>3, <1>5 DEF Shape
<1>11. \A i \in 1 .. n : s[i].kind = "InputAck" /\ s[i + 1].kind = "InputAck" => i = 1 /\ s[i].written > 0
  BY <1>1, <1>3, <1>5, <1>7, <1>8 DEF Shape
<1> QED
  BY <1>2, <1>8, <1>9, <1>10, <1>11 DEF Shape, s

LEMMA ToldOfAppend ==
    ASSUME NEW q \in Seq(Framed), NEW x \in Framed, NEW ack \in Nat, NEW all \in Nat,
           Told(q, ack, all), ~ IsAck(x)
    PROVE  /\ Told(Append(q, x), ack, all)
           /\ ToldAll(q, ack, all) => ToldAll(Append(q, x), ack, all)
<1> DEFINE n == Len(q)
           r == Append(q, x)
<1>1. n \in Nat /\ Len(r) = n + 1 /\ r[n + 1] = x /\ \A i \in 1 .. n : r[i] = q[i]
  OBVIOUS
<1> HIDE DEF n, r
<1>2. \A i \in 1 .. (n + 1) : i \in 1 .. n \/ i = n + 1
  BY <1>1
<1>3. \A i \in 1 .. (n + 1) : IsAck(r[i]) => i \in 1 .. n /\ r[i] = q[i]
  BY <1>1, <1>2
<1>4. \A i \in 1 .. n : i \in 1 .. (n + 1)
  BY <1>1
<1>5. Told(r, ack, all)
  BY <1>1, <1>3 DEF Told, n
<1>6. ToldAll(q, ack, all) => ToldAll(r, ack, all)
  BY <1>1, <1>4 DEF ToldAll, n
<1> QED
  BY <1>5, <1>6 DEF r

\* An acknowledgement of more than before is queued.
LEMMA ToldOfAck ==
    ASSUME NEW q \in Seq(Framed), NEW x \in Framed, NEW ack \in Nat, NEW all \in Nat,
           NEW more \in Nat, Told(q, ack, all), more > all, IsAck(x), x.value = more
    PROVE  Told(Append(q, x), ack, more) /\ ToldAll(Append(q, x), ack, more)
<1> DEFINE n == Len(q)
           r == Append(q, x)
<1>1. n \in Nat /\ Len(r) = n + 1 /\ r[n + 1] = x /\ \A i \in 1 .. n : r[i] = q[i]
  OBVIOUS
<1>2. \A i \in 1 .. n : q[i].value \in Nat
  BY FrameType
<1> HIDE DEF n, r
<1>3. \A i \in 1 .. (n + 1) : i \in 1 .. n \/ i = n + 1
  BY <1>1
<1>4. n + 1 \in 1 .. (n + 1)
  BY <1>1
<1>5. ack <= all /\ ack < more
  BY DEF Told
<1>6. \A i \in 1 .. n : IsAck(r[i]) => ack < r[i].value /\ r[i].value < more
  BY <1>1, <1>2 DEF Told, n
<1>7. \A i \in 1 .. (n + 1) : IsAck(r[i]) => ack < r[i].value /\ r[i].value <= more
  BY <1>1, <1>2, <1>3, <1>5, <1>6
<1>8. ASSUME NEW i \in 1 .. (n + 1), NEW j \in 1 .. (n + 1), i < j, IsAck(r[i]), IsAck(r[j])
      PROVE  r[i].value < r[j].value
  <2>1. i \in 1 .. n
    BY <1>1, <1>8
  <2>2. CASE j = n + 1
    BY <1>1, <1>6, <1>8, <2>1, <2>2
  <2>3. CASE j \in 1 .. n
    BY <1>1, <1>8, <2>1, <2>3 DEF Told, n
  <2> QED
    BY <1>3, <2>2, <2>3
<1>9. Told(r, ack, more)
  BY <1>1, <1>5, <1>7, <1>8 DEF Told
<1>10. ToldAll(r, ack, more)
  BY <1>1, <1>4 DEF ToldAll
<1> QED
  BY <1>9, <1>10 DEF r

\* The last acknowledgement queued is brought up to date.
LEMMA ToldOfUpdate ==
    ASSUME NEW q \in Seq(Framed), NEW x \in Framed, NEW y \in Framed, NEW ack \in Nat,
           NEW all \in Nat, NEW more \in Nat, Told(Append(q, x), ack, all), more >= all,
           IsAck(x), IsAck(y), y.value = more
    PROVE  Told(Append(q, y), ack, more) /\ ToldAll(Append(q, y), ack, more)
<1> DEFINE n == Len(q)
           s == Append(q, x)
           r == Append(q, y)
<1>1. n \in Nat /\ Len(r) = n + 1 /\ r[n + 1] = y /\ \A i \in 1 .. n : r[i] = q[i]
  OBVIOUS
<1>2. Len(s) = n + 1 /\ s[n + 1] = x /\ \A i \in 1 .. n : s[i] = q[i]
  OBVIOUS
<1>3. Told(s, ack, all)
  OBVIOUS
<1>4. (\A i \in 1 .. n : q[i].value \in Nat) /\ x.value \in Nat
  BY FrameType
<1> HIDE DEF n, s, r
<1>5. \A i \in 1 .. (n + 1) : i \in 1 .. n \/ i = n + 1
  BY <1>1
<1>6. n + 1 \in 1 .. (n + 1) /\ \A i \in 1 .. n : i \in 1 .. (n + 1) /\ i < n + 1
  BY <1>1
<1>7. ack < x.value /\ x.value <= all
  BY <1>2, <1>3, <1>6 DEF Told
<1>8. \A i \in 1 .. n : IsAck(q[i]) => ack < q[i].value /\ q[i].value < x.value
  BY <1>2, <1>3, <1>6 DEF Told
<1>9. \A i \in 1 .. (n + 1) : IsAck(r[i]) => ack < r[i].value /\ r[i].value <= more
  BY <1>1, <1>4, <1>5, <1>7, <1>8
<1>10. ASSUME NEW i \in 1 .. (n + 1), NEW j \in 1 .. (n + 1), i < j, IsAck(r[i]), IsAck(r[j])
       PROVE  r[i].value < r[j].value
  <2>1. i \in 1 .. n /\ IsAck(q[i])
    BY <1>1, <1>10
  <2>2. CASE j = n + 1
    BY <1>1, <1>4, <1>7, <1>8, <2>1, <2>2
  <2>3. CASE j \in 1 .. n
    <3>1. IsAck(s[i]) /\ IsAck(s[j]) /\ i \in 1 .. Len(s) /\ j \in 1 .. Len(s)
      BY <1>1, <1>2, <1>10, <2>1, <2>3
    <3>2. s[i].value < s[j].value
      BY <1>3, <1>10, <3>1 DEF Told
    <3> QED
      BY <1>1, <1>2, <2>1, <2>3, <3>2
  <2> QED
    BY <1>5, <2>2, <2>3
<1>11. Told(r, ack, more)
  BY <1>1, <1>7, <1>9, <1>10, <1>4 DEF Told
<1>12. ToldAll(r, ack, more)
  BY <1>1, <1>6 DEF ToldAll
<1> QED
  BY <1>11, <1>12 DEF r

\* The front frame was handed over.
LEMMA ToldOfTail ==
    ASSUME NEW h \in Framed, NEW t \in Seq(Framed), NEW ack \in Nat, NEW all \in Nat,
           Told(Cons(h, t), ack, all),
           NEW now \in Nat, now = IF IsAck(h) THEN h.value ELSE ack
    PROVE  /\ Told(t, now, all)
           /\ ToldAll(Cons(h, t), ack, all) => ToldAll(t, now, all)
<1> DEFINE q == Cons(h, t)
           n == Len(t)
<1>1. n \in Nat /\ Len(q) = n + 1 /\ q[1] = h /\ \A i \in 1 .. n : q[i + 1] = t[i]
  BY FramesAt
<1>2. Told(q, ack, all)
  OBVIOUS
<1>3. h.value \in Nat /\ \A i \in 1 .. n : t[i].value \in Nat
  BY FrameType
<1> HIDE DEF q, n
<1>4. 1 \in 1 .. (n + 1) /\ \A i \in 1 .. n : i + 1 \in 1 .. (n + 1) /\ 1 < i + 1
  BY <1>1
<1>5. IsAck(h) => ack < h.value /\ h.value <= all
  BY <1>1, <1>2, <1>4 DEF Told
<1>6. ack <= all /\ now <= all
  BY <1>2, <1>5 DEF Told
<1>7. ASSUME NEW i \in 1 .. n, IsAck(t[i]) PROVE now < t[i].value /\ t[i].value <= all
  <2>1. IsAck(q[i + 1]) /\ i + 1 \in 1 .. Len(q) /\ 1 \in 1 .. Len(q) /\ 1 < i + 1
    BY <1>1, <1>4, <1>7
  <2>2. ack < t[i].value /\ t[i].value <= all
    BY <1>1, <1>2, <2>1 DEF Told
  <2>3. IsAck(h) => h.value < t[i].value
    BY <1>1, <1>2, <2>1 DEF Told
  <2> QED
    BY <2>2, <2>3
<1>8. ASSUME NEW i \in 1 .. n, NEW j \in 1 .. n, i < j, IsAck(t[i]), IsAck(t[j])
      PROVE  t[i].value < t[j].value
  <2>1. IsAck(q[i + 1]) /\ IsAck(q[j + 1]) /\ i + 1 \in 1 .. Len(q) /\ j + 1 \in 1 .. Len(q)
    BY <1>1, <1>4, <1>8
  <2>2. i + 1 < j + 1
    BY <1>8
  <2>3. q[i + 1].value < q[j + 1].value
    BY <1>2, <2>1, <2>2 DEF Told
  <2> QED
    BY <1>1, <2>3
<1>9. Told(t, now, all)
  BY <1>6, <1>7, <1>8 DEF Told, n
<1>10. ASSUME ToldAll(q, ack, all) PROVE ToldAll(t, now, all)
  <2>1. CASE ack = all
    <3>1. ~ IsAck(h)
      BY <1>3, <1>5, <2>1
    <3> QED
      BY <2>1, <3>1 DEF ToldAll
  <2>2. CASE \E i \in 1 .. Len(q) : IsAck(q[i]) /\ q[i].value = all
    <3>1. PICK i \in 1 .. (n + 1) : IsAck(q[i]) /\ q[i].value = all
      BY <1>1, <2>2
    <3>2. CASE i = 1
      BY <1>1, <3>1, <3>2 DEF ToldAll
    <3>3. CASE i # 1
      <4>1. i - 1 \in 1 .. n /\ (i - 1) + 1 = i
        BY <1>1, <3>3
      <4>2. t[i - 1] = q[i]
        BY <1>1, <4>1
      <4>3. IsAck(t[i - 1]) /\ t[i - 1].value = all
        BY <3>1, <4>2
      <4> QED
        BY <4>1, <4>3 DEF ToldAll, n
    <3> QED
      BY <3>2, <3>3
  <2> QED
    BY <1>10, <2>1, <2>2 DEF ToldAll
<1> QED
  BY <1>9, <1>10 DEF q

\* More of the front frame was written.
LEMMA ToldOfFront ==
    ASSUME NEW h \in Framed, NEW t \in Seq(Framed), NEW ack \in Nat, NEW all \in Nat,
           Told(Cons(h, t), ack, all),
           NEW k \in Framed, k.kind = h.kind, k.value = h.value
    PROVE  /\ Told(Cons(k, t), ack, all)
           /\ ToldAll(Cons(h, t), ack, all) => ToldAll(Cons(k, t), ack, all)
<1> DEFINE q == Cons(h, t)
           r == Cons(k, t)
           n == Len(t)
<1>1. n \in Nat /\ Len(q) = n + 1 /\ q[1] = h /\ \A i \in 1 .. n : q[i + 1] = t[i]
  BY FramesAt
<1>2. n \in Nat /\ Len(r) = n + 1 /\ r[1] = k /\ \A i \in 1 .. n : r[i + 1] = t[i]
  BY FramesAt
<1>3. Told(q, ack, all)
  OBVIOUS
<1> HIDE DEF q, r, n
<1>4. ASSUME NEW i \in 1 .. (n + 1) PROVE r[i].kind = q[i].kind /\ r[i].value = q[i].value
  <2>1. CASE i = 1
    BY <1>1, <1>2, <2>1
  <2>2. CASE i # 1
    <3>1. i - 1 \in 1 .. n /\ (i - 1) + 1 = i
      BY <1>1, <2>2
    <3> QED
      BY <1>1, <1>2, <3>1
  <2> QED
    BY <2>1, <2>2
<1>5. Told(r, ack, all)
  BY <1>1, <1>2, <1>3, <1>4 DEF Told, IsAck
<1>6. ToldAll(q, ack, all) => ToldAll(r, ack, all)
  BY <1>1, <1>2, <1>4 DEF ToldAll, IsAck
<1> QED
  BY <1>5, <1>6 DEF q, r

\* What is kept of the queue when the connection is ended.
LEMMA ToldOfFirst ==
    ASSUME NEW q \in Seq(Framed), NEW ack \in Nat, NEW all \in Nat, Told(q, ack, all),
           NEW r, r = <<>> \/ (q # <<>> /\ r = <<q[1]>>)
    PROVE  Told(r, ack, all)
<1>1. ack <= all
  BY DEF Told
<1>2. CASE r = <<>>
  BY <1>1, <1>2 DEF Told
<1>3. CASE q # <<>> /\ r = <<q[1]>>
  <2>1. Len(r) = 1 /\ r[1] = q[1] /\ 1 \in 1 .. Len(q)
    BY <1>3
  <2>2. IsAck(q[1]) => ack < q[1].value /\ q[1].value <= all
    BY <2>1 DEF Told
  <2> QED
    BY <1>1, <2>1, <2>2 DEF Told
<1> QED
  BY <1>2, <1>3

-----------------------------------------------------------------------------
LEMMA StreamedOfAppend ==
    ASSUME NEW q \in Seq(Framed), NEW x \in Framed, NEW record \in Nat, NEW cursor \in Nat,
           Streamed(q, record, cursor), x.kind # "Record"
    PROVE  Streamed(Append(q, x), record, cursor)
<1>1. OfKind(Append(q, x), {"Record"}) = OfKind(q, {"Record"})
  BY OfKindOfAppend
<1> QED
  BY <1>1 DEF Streamed

\* The next record is queued.
LEMMA StreamedOfRecord ==
    ASSUME NEW q \in Seq(Framed), NEW x \in Framed, NEW record \in Nat, NEW cursor \in Nat,
           Streamed(q, record, cursor), x.kind = "Record", x.value = cursor + 1
    PROVE  Streamed(Append(q, x), record, cursor + 1)
<1> DEFINE s == OfKind(q, {"Record"})
           r == Append(s, x)
<1>1. OfKind(Append(q, x), {"Record"}) = r
  BY OfKindOfAppend
<1>2. s \in Seq(Framed)
  BY OfKindType
<1>3. /\ Len(s) \in Nat /\ Len(r) = Len(s) + 1
      /\ r[Len(s) + 1] = x /\ \A i \in 1 .. Len(s) : r[i] = s[i]
  BY <1>2
<1>4. cursor = record + Len(s) /\ \A i \in 1 .. Len(s) : s[i].value = record + i
  BY DEF Streamed
<1> HIDE DEF s, r
<1>5. ASSUME NEW i \in 1 .. (Len(s) + 1) PROVE r[i].value = record + i
  <2>1. CASE i = Len(s) + 1
    BY <1>3, <1>4, <2>1
  <2>2. CASE i \in 1 .. Len(s)
    BY <1>3, <1>4, <2>2
  <2> QED
    BY <1>3, <2>1, <2>2
<1>6. cursor + 1 = record + Len(r)
  BY <1>3, <1>4
<1> QED
  BY <1>1, <1>3, <1>5, <1>6 DEF Streamed

\* The front frame was handed over.
LEMMA StreamedOfTail ==
    ASSUME NEW h \in Framed, NEW t \in Seq(Framed), NEW record \in Nat, NEW cursor \in Nat,
           Streamed(Cons(h, t), record, cursor)
    PROVE  /\ h.kind = "Record" => h.value = record + 1 /\ h.value <= cursor
                                   /\ Streamed(t, record + 1, cursor)
           /\ h.kind # "Record" => Streamed(t, record, cursor)
<1> DEFINE s == OfKind(t, {"Record"})
           r == Cons(h, s)
<1>1. OfKind(Cons(h, t), {"Record"}) = IF h.kind = "Record" THEN r ELSE s
  BY OfKindFromFirst
<1>2. s \in Seq(Framed)
  BY OfKindType
<1>3. /\ Len(s) \in Nat /\ Len(r) = Len(s) + 1
      /\ r[1] = h /\ \A i \in 1 .. Len(s) : r[i + 1] = s[i]
  BY <1>2, FramesAt
<1>4. CASE h.kind = "Record"
  <2>1. cursor = record + Len(r) /\ \A i \in 1 .. Len(r) : r[i].value = record + i
    BY <1>1, <1>4 DEF Streamed
  <2> HIDE DEF s, r
  <2>2. h.value = record + 1 /\ h.value <= cursor
    BY <1>3, <2>1
  <2>3. \A i \in 1 .. Len(s) : s[i].value = (record + 1) + i
    <3> TAKE i \in 1 .. Len(s)
    <3>1. i + 1 \in 1 .. Len(r) /\ s[i] = r[i + 1]
      BY <1>3
    <3>2. r[i + 1].value = record + (i + 1)
      BY <2>1, <3>1
    <3> QED
      BY <3>1, <3>2
  <2>4. cursor = (record + 1) + Len(s)
    BY <1>3, <2>1
  <2>5. Streamed(t, record + 1, cursor)
    BY <2>3, <2>4 DEF Streamed, s
  <2> QED
    BY <1>4, <2>2, <2>5
<1>5. CASE h.kind # "Record"
  BY <1>1, <1>5 DEF Streamed
<1> QED
  BY <1>4, <1>5

\* More of the front frame was written.
LEMMA StreamedOfFront ==
    ASSUME NEW h \in Framed, NEW t \in Seq(Framed), NEW record \in Nat, NEW cursor \in Nat,
           Streamed(Cons(h, t), record, cursor),
           NEW k \in Framed, k.kind = h.kind, k.value = h.value
    PROVE  Streamed(Cons(k, t), record, cursor)
<1> DEFINE s == OfKind(t, {"Record"})
           q == OfKind(Cons(h, t), {"Record"})
           r == OfKind(Cons(k, t), {"Record"})
<1>1. /\ q = IF h.kind = "Record" THEN Cons(h, s) ELSE s
      /\ r = IF h.kind = "Record" THEN Cons(k, s) ELSE s
  BY OfKindFromFirst
<1>2. s \in Seq(Framed)
  BY OfKindType
<1>3. /\ Len(s) \in Nat /\ Len(Cons(h, s)) = Len(s) + 1
      /\ Cons(h, s)[1] = h /\ \A i \in 1 .. Len(s) : Cons(h, s)[i + 1] = s[i]
  BY <1>2, FramesAt
<1>4. /\ Len(Cons(k, s)) = Len(s) + 1
      /\ Cons(k, s)[1] = k /\ \A i \in 1 .. Len(s) : Cons(k, s)[i + 1] = s[i]
  BY <1>2, FramesAt
<1> HIDE DEF s, q, r
<1>5. \A i \in 1 .. (Len(s) + 1) : Cons(k, s)[i].value = Cons(h, s)[i].value
  <2> TAKE i \in 1 .. (Len(s) + 1)
  <2>1. CASE i = 1
    BY <1>3, <1>4, <2>1
  <2>2. CASE i # 1
    <3>1. i - 1 \in 1 .. Len(s) /\ (i - 1) + 1 = i
      BY <1>3, <2>2
    <3> QED
      BY <1>3, <1>4, <3>1
  <2> QED
    BY <2>1, <2>2
<1>6. Len(r) = Len(q) /\ \A i \in 1 .. Len(q) : r[i].value = q[i].value
  <2>1. CASE h.kind = "Record"
    BY <1>1, <1>3, <1>4, <1>5, <2>1
  <2>2. CASE h.kind # "Record"
    BY <1>1, <2>2
  <2> QED
    BY <2>1, <2>2
<1>7. cursor = record + Len(q) /\ \A i \in 1 .. Len(q) : q[i].value = record + i
  BY DEF Streamed, q
<1>8. cursor = record + Len(r) /\ \A i \in 1 .. Len(r) : r[i].value = record + i
  BY <1>6, <1>7
<1> QED
  BY <1>8 DEF Streamed, r

-----------------------------------------------------------------------------
LEMMA MaxOfTwo ==
    ASSUME NEW a \in Nat, NEW b \in Nat
    PROVE  Max({a, b}) \in {a, b} /\ a <= Max({a, b}) /\ b <= Max({a, b})
<1>1. \E x \in {a, b} : \A y \in {a, b} : x >= y
  <2>1. CASE a >= b
    BY <2>1
  <2>2. CASE b >= a
    BY <2>2
  <2> QED
    BY <2>1, <2>2
<1>2. Max({a, b}) \in {a, b} /\ \A y \in {a, b} : Max({a, b}) >= y
  BY <1>1 DEF Max
<1> QED
  BY <1>2

LEMMA MinOfTwo ==
    ASSUME NEW a \in Int, NEW b \in Int
    PROVE  Min({a, b}) \in {a, b} /\ Min({a, b}) <= a /\ Min({a, b}) <= b
<1>1. \E x \in {a, b} : \A y \in {a, b} : x <= y
  <2>1. CASE a >= b
    BY <2>1
  <2>2. CASE b >= a
    BY <2>2
  <2> QED
    BY <2>1, <2>2
<1>2. Min({a, b}) \in {a, b} /\ \A y \in {a, b} : Min({a, b}) <= y
  BY <1>1 DEF Min
<1> QED
  BY <1>2

LEMMA BoundIs ==
    Bound \in Nat /\ OUTGOING_HIGH_WATER + FRAME <= Bound /\ FRAME + FRAME <= Bound
<1>1. OUTGOING_HIGH_WATER \in Nat /\ FRAME \in Nat
  BY HostConstants
<1>2. /\ Max({OUTGOING_HIGH_WATER, FRAME}) \in {OUTGOING_HIGH_WATER, FRAME}
      /\ OUTGOING_HIGH_WATER <= Max({OUTGOING_HIGH_WATER, FRAME})
      /\ FRAME <= Max({OUTGOING_HIGH_WATER, FRAME})
  BY <1>1, MaxOfTwo
<1> QED
  BY <1>1, <1>2 DEF Bound

OthersUnsent(q) == Unsent(OfKind(q, Others))

LEMMA OthersOfKind ==
    ASSUME NEW q \in Seq(Framed)
    PROVE  OthersUnsent(q) \in Nat /\ OthersUnsent(q) <= Unsent(q)
<1>1. OfKind(q, Others) \in Seq(Framed)
  BY OfKindType
<1>2. OthersUnsent(q) \in Nat
  BY <1>1, UnsentType DEF OthersUnsent
<1>3. OthersUnsent(q) <= Unsent(q)
  BY UnsentOfKept DEF OthersUnsent, OfKind
<1> QED
  BY <1>2, <1>3

LEMMA OthersOfAppend ==
    ASSUME NEW q \in Seq(Framed), NEW x \in Framed
    PROVE  OthersUnsent(Append(q, x)) =
               OthersUnsent(q) + IF IsAck(x) THEN 0 ELSE FRAME - x.written
<1>1. OfKind(q, Others) \in Seq(Framed)
  BY OfKindType
<1>2. x.kind \in Others <=> ~ IsAck(x)
  BY FrameType DEF Others, IsAck
<1>3. Unsent(Append(OfKind(q, Others), x)) = Unsent(OfKind(q, Others)) + (FRAME - x.written)
  BY <1>1, UnsentOfAppend
<1>4. OfKind(Append(q, x), Others) =
          IF x.kind \in Others THEN Append(OfKind(q, Others), x) ELSE OfKind(q, Others)
  BY OfKindOfAppend
<1>5. OthersUnsent(q) \in Nat
  BY OthersOfKind
<1> QED
  BY <1>2, <1>3, <1>4, <1>5 DEF OthersUnsent

LEMMA OthersFromFirst ==
    ASSUME NEW q \in Seq(Framed), NEW x \in Framed
    PROVE  OthersUnsent(Cons(x, q)) =
               OthersUnsent(q) + IF IsAck(x) THEN 0 ELSE FRAME - x.written
<1>1. OfKind(q, Others) \in Seq(Framed)
  BY OfKindType
<1>2. x.kind \in Others <=> ~ IsAck(x)
  BY FrameType DEF Others, IsAck
<1>3. Unsent(Cons(x, OfKind(q, Others))) = (FRAME - x.written) + Unsent(OfKind(q, Others))
  BY <1>1, UnsentFromFirst
<1>4. OfKind(Cons(x, q), Others) =
          IF x.kind \in Others THEN Cons(x, OfKind(q, Others)) ELSE OfKind(q, Others)
  BY OfKindFromFirst
<1>5. OthersUnsent(q) \in Nat /\ FRAME - x.written \in Nat
  BY OthersOfKind, FrameType
<1> QED
  BY <1>2, <1>3, <1>4, <1>5 DEF OthersUnsent

\* What is kept of the queue when the connection is ended is at most the front.
LEMMA DropUnstarted ==
    ASSUME NEW q \in Seq(Framed), NEW c \in BOOLEAN, Shape(q, c)
    PROVE  drop_unstarted(q) =
               IF q # <<>> /\ (q[1].written > 0 \/ q[1].kind = "Welcome") THEN <<q[1]>> ELSE <<>>
<1> DEFINE S == {out \in Range(q) : out.written > 0 \/ out.kind = "Welcome"}
<1>1. \A i \in 1 .. Len(q) : q[i] \in Range(q)
  BY DEF Range
<1>2. ASSUME NEW i \in 2 .. Len(q) PROVE q[i] \notin S
  <2>1. q[i].written = 0 /\ q[i].kind # "Welcome"
    BY DEF Shape
  <2> QED
    BY <2>1
<1>3. q # <<>> => 1 \in 1 .. Len(q)
  OBVIOUS
<1>4. q # <<>> => (q[1] \in S <=> (q[1].written > 0 \/ q[1].kind = "Welcome"))
  BY <1>1, <1>3
<1> HIDE DEF S
<1>5. Keep(q, S) = IF q # <<>> /\ q[1] \in S THEN <<q[1]>> ELSE <<>>
  BY <1>2, KeepFirst
<1>6. drop_unstarted(q) = Keep(q, S)
  BY DEF drop_unstarted, S
<1> QED
  BY <1>4, <1>5, <1>6

-----------------------------------------------------------------------------
(* What the host does to its client.                                       *)

LEMMA ClientType ==
    ASSUME NEW cl \in Clients
    PROVE  /\ cl.conn \in Conns /\ cl.outgoing \in Seq(Framed) /\ cl.unsent \in Nat
           /\ cl.reading \in BOOLEAN /\ cl.cursor \in Nat /\ cl.input \in Seq(Written)
           /\ cl.input_cost \in Nat /\ cl.written \in Nat /\ cl.discarded \in Nat
           /\ cl.closing \in BOOLEAN /\ cl.gone \in BOOLEAN /\ cl.ack \in Nat /\ cl.record \in Nat
BY DEF Clients, Framed, Written

LEMMA UpdateLast ==
    ASSUME NEW X, NEW s \in Seq(X), s # <<>>, NEW y \in X
    PROVE  [s EXCEPT ![Len(s)] = y] = Append(Front(s), y)
<1> DEFINE u == [s EXCEPT ![Len(s)] = y]
           v == Append(Front(s), y)
<1>1. Len(s) \in Nat /\ Len(s) - 1 \in Nat /\ Len(s) \in 1 .. Len(s)
  OBVIOUS
<1>0. Front(s) \in Seq(X) /\ Len(Front(s)) = Len(s) - 1
  BY LastOf
<1>2. \A i \in 1 .. (Len(s) - 1) : Front(s)[i] = s[i]
  BY <1>1 DEF Front
<1>3. u \in Seq(X) /\ Len(u) = Len(s)
  OBVIOUS
<1>4. v \in Seq(X) /\ Len(v) = Len(s)
  BY <1>0, <1>1
<1>5. ASSUME NEW i \in 1 .. Len(s) PROVE u[i] = v[i]
  <2>1. CASE i = Len(s)
    BY <1>0, <1>1, <2>1
  <2>2. CASE i # Len(s)
    <3>1. i \in 1 .. (Len(s) - 1)
      BY <2>2
    <3> QED
      BY <1>0, <1>1, <1>2, <2>2, <3>1
  <2> QED
    BY <2>1, <2>2
<1> HIDE DEF u, v
<1>6. u = v
  BY <1>3, <1>4, <1>5
<1> QED
  BY <1>6 DEF u, v

LEMMA UpdateFirst ==
    ASSUME NEW X, NEW s \in Seq(X), s # <<>>, NEW y
    PROVE  Tail([s EXCEPT ![1] = y]) = Tail(s) /\ [s EXCEPT ![1] = y] = Cons(y, Tail(s))
<1> DEFINE u == [s EXCEPT ![1] = y]
           c == <<y>> \o Tail(s)
           Y == X \cup {y}
<1>1. u \in Seq(Y) /\ Len(u) = Len(s) /\ Len(s) \in Nat /\ Len(s) # 0
  OBVIOUS
<1>2. Tail(s) \in Seq(Y) /\ Len(Tail(s)) = Len(s) - 1
      /\ \A i \in 1 .. (Len(s) - 1) : Tail(s)[i] = s[i + 1]
  <2>1. s \in Seq(Y)
    OBVIOUS
  <2> QED
    BY <2>1
<1>3. Tail(u) \in Seq(Y) /\ Len(Tail(u)) = Len(s) - 1
      /\ \A i \in 1 .. (Len(s) - 1) : Tail(u)[i] = u[i + 1]
  BY <1>1
<1>4. \A i \in 1 .. (Len(s) - 1) : u[i + 1] = s[i + 1]
  BY <1>1
<1>5. u[1] = y
  BY <1>1
<1>6. Tail(u) = Tail(s)
  BY <1>2, <1>3, <1>4
<1>7. c \in Seq(Y) /\ Len(c) = Len(s) /\ c[1] = y
  BY <1>1, <1>2
<1>8. \A i \in 1 .. (Len(s) - 1) : c[i + 1] = Tail(s)[i]
  BY <1>1, <1>2
<1> HIDE DEF c, u
<1>9. ASSUME NEW i \in 1 .. Len(s) PROVE u[i] = c[i]
  <2>1. CASE i = 1
    BY <1>5, <1>7, <2>1
  <2>2. CASE i # 1
    <3>1. i - 1 \in 1 .. (Len(s) - 1) /\ (i - 1) + 1 = i
      BY <1>1, <2>2
    <3> QED
      BY <1>2, <1>4, <1>8, <3>1
  <2> QED
    BY <2>1, <2>2
<1>10. u = c
  BY <1>1, <1>7, <1>9
<1> QED
  BY <1>6, <1>10 DEF Cons, u, c

\* What the client's input leaves alone.
SameBut(a, b) ==
    /\ a.conn = b.conn /\ a.outgoing = b.outgoing /\ a.unsent = b.unsent
    /\ a.reading = b.reading /\ a.cursor = b.cursor
    /\ a.closing = b.closing /\ a.gone = b.gone
    /\ a.first = b.first /\ a.last = b.last /\ a.ack = b.ack /\ a.record = b.record

\* One Input less is pending.
LEMMA ResolveStep ==
    ASSUME NEW cl \in Clients, cl.input # <<>>, cl.input_cost = Costs(cl.input),
           NEW w, w = cl.input[1]
    PROVE  /\ resolve(cl, w) \in Clients
           /\ SameBut(resolve(cl, w), cl)
           /\ resolve(cl, w).input = Tail(cl.input)
           /\ resolve(cl, w).input_cost = Costs(Tail(cl.input))
           /\ resolve(cl, w).input_cost <= cl.input_cost
           /\ resolve(cl, w).written + resolve(cl, w).discarded
                  = cl.written + cl.discarded + INPUT_LEN
<1> DEFINE r == resolve(cl, w)
           t == Tail(cl.input)
           cost == (INPUT_LEN - w) + INPUT_COST
<1>1. /\ cl.input \in Seq(Written) /\ cl.input_cost \in Nat /\ cl.written \in Nat
      /\ cl.discarded \in Nat
  BY ClientType
<1>2. INPUT_LEN \in Nat /\ w \in Written /\ t \in Seq(Written)
  BY <1>1, HostConstants
<1>3. w \in Nat /\ INPUT_LEN - w \in Nat /\ cost \in Nat
  BY <1>2, CostType, HostConstants DEF Written
<1>4. cl.input = Cons(w, t)
  BY <1>1, ConsOfTail
<1> HIDE DEF t
<1>5. Costs(Cons(w, t)) = cost + Costs(t)
  BY <1>2, CostsFromFirst
<1>6. Costs(t) \in Nat
  BY <1>2, CostsType
<1>7. cl.input_cost - cost = Costs(t) /\ Costs(t) <= cl.input_cost
  <2>1. cl.input_cost = cost + Costs(t)
    BY <1>4, <1>5
  <2> HIDE DEF cost
  <2> QED
    BY <1>3, <1>6, <2>1
<1>8. r = [cl EXCEPT !.input = t, !.input_cost = Costs(t),
                     !.written = cl.written + w, !.discarded = cl.discarded + (INPUT_LEN - w)]
  BY <1>7 DEF resolve, t
<1> HIDE DEF r, cost
<1>9. cl.written + w \in Nat /\ cl.discarded + (INPUT_LEN - w) \in Nat
  <2> DEFINE a == cl.written
             b == cl.discarded
             l == INPUT_LEN - w
  <2>1. a \in Nat /\ b \in Nat /\ l \in Nat /\ w \in Nat
    BY <1>1, <1>3
  <2> HIDE DEF a, b, l
  <2>2. a + w \in Nat /\ b + l \in Nat
    BY ONLY <2>1
  <2> QED
    BY <2>2 DEF a, b, l
<1>10. r \in Clients
  BY <1>2, <1>6, <1>8, <1>9 DEF Clients, Written
<1>11. SameBut(r, cl)
  BY <1>8 DEF Clients, SameBut
<1>12. /\ r.input = t /\ r.input_cost = Costs(t)
       /\ r.written = cl.written + w /\ r.discarded = cl.discarded + (INPUT_LEN - w)
  BY <1>8 DEF Clients
<1>13. r.written + r.discarded = cl.written + cl.discarded + INPUT_LEN
  <2> DEFINE a == cl.written
             b == cl.discarded
             l == INPUT_LEN
             c == r.written
             d == r.discarded
  <2>1. a \in Nat /\ b \in Nat /\ l \in Nat /\ w \in Nat
    BY <1>1, <1>2, <1>3
  <2>2. c = a + w /\ d = b + (l - w)
    BY <1>12
  <2> HIDE DEF a, b, l, c, d
  <2>3. c + d = a + b + l
    BY ONLY <2>1, <2>2
  <2> QED
    BY <2>3 DEF a, b, l, c, d
<1> QED
  BY <1>7, <1>10, <1>11, <1>12, <1>13 DEF r, t

\* All that was pending is given up.
LEMMA ResolveAll ==
    ASSUME NEW cl \in Clients, Inputs(cl)
    PROVE  LET r == FoldLeft(resolve, cl, cl.input)
           IN  /\ r \in Clients /\ SameBut(r, cl) /\ r.input = <<>> /\ r.input_cost = 0
               /\ r.written + r.discarded = cl.written + cl.discarded + INPUT_LEN * Len(cl.input)
<1> DEFINE n == Len(cl.input)
<1>1. cl.input \in Seq(Written) /\ n \in Nat /\ DOMAIN cl.input = 1 .. n
  BY ClientType
<1>2. FoldLeft(resolve, cl, cl.input) = Resolves!Fold(0, cl, cl.input)
  BY DEF ResolveOne, Resolves!Fold, FoldLeft, Resolves!MapThenFoldSet,
         MapThenFoldSet, Resolves!Max, Max
<1>3. PICK h : Resolves!Runs(h, 0, cl, cl.input, n) /\ Resolves!Fold(0, cl, cl.input) = h[n]
  <2>1. \A p0, base0, seq : \A k \in Nat : DOMAIN seq = 1 .. k =>
            \E h : Resolves!Runs(h, p0, base0, seq, k) /\ Resolves!Fold(p0, base0, seq) = h[k]
    BY Resolves!FoldGoesThrough, LoopsInduct
  <2> QED
    BY <1>1, <2>1
<1>4. h[0] = cl /\ \A k \in 1 .. n : h[k] = resolve(h[k - 1], cl.input[k])
  BY <1>3 DEF Resolves!Runs, ResolveOne
<1> DEFINE Resolved == {k \in Nat : k <= n =>
               /\ h[k] \in Clients /\ SameBut(h[k], cl) /\ h[k].input_cost = Costs(h[k].input)
               /\ Len(h[k].input) = n - k
               /\ \A i \in 1 .. (n - k) : h[k].input[i] = cl.input[k + i]
               /\ h[k].written + h[k].discarded = cl.written + cl.discarded + INPUT_LEN * k}
<1>5. 0 \in Resolved
  <2>1. INPUT_LEN * 0 = 0 /\ cl.written + cl.discarded \in Nat
    BY ClientType, HostConstants
  <2>2. SameBut(cl, cl)
    BY DEF SameBut
  <2>3. cl.input_cost = Costs(cl.input)
    BY DEF Inputs
  <2> QED
    BY <1>1, <1>4, <2>1, <2>2, <2>3
<1>6. ASSUME NEW k \in Nat, k \in Resolved PROVE k + 1 \in Resolved
  <2>1. SUFFICES ASSUME k + 1 <= n
                 PROVE  /\ h[k + 1] \in Clients /\ SameBut(h[k + 1], cl)
                        /\ h[k + 1].input_cost = Costs(h[k + 1].input)
                        /\ Len(h[k + 1].input) = n - (k + 1)
                        /\ \A i \in 1 .. (n - (k + 1)) : h[k + 1].input[i] = cl.input[(k + 1) + i]
                        /\ h[k + 1].written + h[k + 1].discarded
                               = cl.written + cl.discarded + INPUT_LEN * (k + 1)
    BY <1>6
  <2> DEFINE g == h[k]
             w == cl.input[k + 1]
  <2>2. k <= n /\ k + 1 \in 1 .. n /\ (k + 1) - 1 = k /\ 1 \in 1 .. (n - k)
    BY <1>1, <2>1
  <2>3. /\ g \in Clients /\ SameBut(g, cl) /\ g.input_cost = Costs(g.input)
        /\ Len(g.input) = n - k
        /\ \A i \in 1 .. (n - k) : g.input[i] = cl.input[k + i]
        /\ g.written + g.discarded = cl.written + cl.discarded + INPUT_LEN * k
    BY <1>6, <2>2
  <2>4. h[k + 1] = resolve(g, w)
    BY <1>4, <2>2
  <2> HIDE DEF Resolved, g, w, n
  <2>5. g.input \in Seq(Written) /\ g.written \in Nat /\ g.discarded \in Nat
    BY <2>3, ClientType
  <2>6. g.input # <<>> /\ w = g.input[1]
    BY <2>2, <2>3 DEF w
  <2>7. /\ resolve(g, w) \in Clients
        /\ SameBut(resolve(g, w), g)
        /\ resolve(g, w).input = Tail(g.input)
        /\ resolve(g, w).input_cost = Costs(Tail(g.input))
        /\ resolve(g, w).written + resolve(g, w).discarded = g.written + g.discarded + INPUT_LEN
    BY <2>3, <2>6, ResolveStep
  <2>8. SameBut(resolve(g, w), cl)
    BY <2>3, <2>7 DEF SameBut
  <2>9. Len(Tail(g.input)) = n - (k + 1)
    BY <1>1, <2>3, <2>5, <2>6
  <2>10. \A i \in 1 .. (n - (k + 1)) : Tail(g.input)[i] = cl.input[(k + 1) + i]
    <3> TAKE i \in 1 .. (n - (k + 1))
    <3>1. i + 1 \in 1 .. (n - k) /\ k + (i + 1) = (k + 1) + i
      BY <1>1, <2>2
    <3>2. Tail(g.input)[i] = g.input[i + 1]
      BY <1>1, <2>3, <2>5, <2>6, <2>9
    <3> QED
      BY <2>3, <3>1, <3>2
  <2>11. INPUT_LEN * (k + 1) = INPUT_LEN * k + INPUT_LEN /\ INPUT_LEN * k \in Nat
    BY HostConstants
  <2>12. cl.written \in Nat /\ cl.discarded \in Nat
    BY ClientType
  <2>13. resolve(g, w).written + resolve(g, w).discarded
            = cl.written + cl.discarded + INPUT_LEN * (k + 1)
    BY <2>3, <2>7, <2>11, <2>12, HostConstants
  <2> QED
    BY <2>4, <2>7, <2>8, <2>9, <2>10, <2>13
<1> HIDE DEF Resolved
<1>7. n \in Resolved
  BY <1>1, <1>5, <1>6, NatSetInduction
<1> USE DEF Resolved
<1>8. /\ h[n] \in Clients /\ SameBut(h[n], cl) /\ h[n].input_cost = Costs(h[n].input)
      /\ Len(h[n].input) = 0
      /\ h[n].written + h[n].discarded = cl.written + cl.discarded + INPUT_LEN * n
  BY <1>1, <1>7
<1>9. h[n].input = <<>>
  <2>1. h[n].input \in Seq(Written)
    BY <1>8, ClientType
  <2> QED
    BY <1>8, <2>1
<1>10. h[n].input_cost = 0
  BY <1>8, <1>9, CostsOfNone
<1> QED
  BY <1>2, <1>3, <1>8, <1>9, <1>10

LEMMA WrittenRest ==
    ASSUME NEW w \in Written
    PROVE  w \in Nat /\ INPUT_LEN - w \in Nat /\ INPUT_LEN - w > 0 /\ w + (INPUT_LEN - w) = INPUT_LEN
BY HostConstants DEF Written

LEMMA WrittenMore ==
    ASSUME NEW w \in Written, NEW n \in Nat, n < INPUT_LEN - w
    PROVE  w + n \in Written
BY HostConstants DEF Written

LEMMA CostLeft ==
    ASSUME NEW n \in Nat, NEW cost \in Nat, NEW t \in Nat, cost = (n + INPUT_COST) + t
    PROVE  (cost - n) - ((INPUT_LEN - INPUT_LEN) + INPUT_COST) = t /\ t <= cost
BY HostConstants

LEMMA TailAt ==
    ASSUME NEW X, NEW s \in Seq(X), s # <<>>
    PROVE  /\ Tail(s) \in Seq(X) /\ Len(s) \in Nat /\ Len(Tail(s)) = Len(s) - 1
           /\ \A i \in 1 .. (Len(s) - 1) : Tail(s)[i] = s[i + 1]
OBVIOUS

\* n bytes of the first Input pending are written.
Wrote(cl, n) == [cl EXCEPT !.input[1] = @ + n, !.input_cost = @ - n]

\* The first Input pending is written to its end.
LEMMA OfferWhole ==
    ASSUME NEW cl \in Clients, cl.input # <<>>, cl.input_cost = Costs(cl.input),
           NEW w, w = cl.input[1], NEW n, n = INPUT_LEN - w,
           NEW r, r = resolve(Wrote(cl, n), INPUT_LEN)
    PROVE  /\ r \in Clients
           /\ SameBut(r, cl)
           /\ r.input = Tail(cl.input)
           /\ r.input_cost = Costs(Tail(cl.input))
           /\ r.input_cost <= cl.input_cost
           /\ r.written + r.discarded = cl.written + cl.discarded + INPUT_LEN
<1> DEFINE t == Tail(cl.input)
           u == [cl.input EXCEPT ![1] = cl.input[1] + n]
<1>1. /\ cl.input \in Seq(Written) /\ cl.input_cost \in Nat /\ cl.written \in Nat
      /\ cl.discarded \in Nat
  BY ClientType
<1>2. INPUT_LEN \in Nat /\ INPUT_COST \in Nat /\ w \in Written /\ t \in Seq(Written)
  BY <1>1, HostConstants
<1>3. w \in Nat /\ n \in Nat /\ w + n = INPUT_LEN
  BY <1>2, WrittenRest
<1>4. cl.input = Cons(w, t)
  BY <1>1, ConsOfTail
<1>5. Tail(u) = t
  BY <1>1, UpdateFirst
<1> HIDE DEF t, u
<1>6. Costs(Cons(w, t)) = (n + INPUT_COST) + Costs(t)
  BY <1>2, CostsFromFirst
<1>7. Costs(t) \in Nat
  BY <1>2, CostsType
<1>8. (cl.input_cost - n) - ((INPUT_LEN - INPUT_LEN) + INPUT_COST) = Costs(t) /\ Costs(t) <= cl.input_cost
  <2>1. cl.input_cost = (n + INPUT_COST) + Costs(t)
    BY <1>4, <1>6
  <2> DEFINE cost == cl.input_cost
             left == Costs(t)
  <2>2. cost \in Nat /\ left \in Nat /\ cost = (n + INPUT_COST) + left
    BY <1>1, <1>7, <2>1
  <2> HIDE DEF cost, left
  <2>3. (cost - n) - ((INPUT_LEN - INPUT_LEN) + INPUT_COST) = left /\ left <= cost
    BY <1>3, <2>2, CostLeft
  <2> QED
    BY <2>3 DEF cost, left
<1>9. INPUT_LEN - INPUT_LEN = 0 /\ cl.discarded + 0 = cl.discarded
  BY <1>1, <1>2
<1> DEFINE wrote == [cl EXCEPT !.input = u, !.input_cost = cl.input_cost - n]
<1>10. Wrote(cl, n) = wrote
  BY DEF Clients, u, Wrote
<1>11. r = resolve(wrote, INPUT_LEN)
  BY <1>10
<1>12. /\ wrote.input = u /\ wrote.input_cost = cl.input_cost - n
       /\ wrote.written = cl.written /\ wrote.discarded = cl.discarded
  BY DEF Clients
<1> DEFINE s == [cl EXCEPT !.input = t, !.input_cost = Costs(t), !.written = cl.written + INPUT_LEN]
<1>13. [wrote EXCEPT !.input = t, !.input_cost = Costs(t), !.written = cl.written + INPUT_LEN,
                     !.discarded = cl.discarded] = s
  BY DEF Clients
<1> HIDE DEF wrote
<1>14. r = [wrote EXCEPT !.input = t, !.input_cost = Costs(t), !.written = cl.written + INPUT_LEN,
                         !.discarded = cl.discarded]
  <2>1. Tail(wrote.input) = t
    BY <1>5, <1>12
  <2>2. wrote.input_cost - ((INPUT_LEN - INPUT_LEN) + INPUT_COST) = Costs(t)
    BY <1>8, <1>12
  <2>3. wrote.written + INPUT_LEN = cl.written + INPUT_LEN
    BY <1>12
  <2>4. wrote.discarded + (INPUT_LEN - INPUT_LEN) = cl.discarded
    BY <1>9, <1>12
  <2> QED
    BY <1>11, <2>1, <2>2, <2>3, <2>4 DEF resolve
<1>15. r = s
  BY <1>13, <1>14
<1>16. cl.written + INPUT_LEN \in Nat
  BY <1>1, <1>2
<1>17. s \in Clients
  BY <1>2, <1>7, <1>16 DEF Clients, Written
<1>18. SameBut(s, cl)
  BY DEF Clients, SameBut
<1>19. /\ s.input = t /\ s.input_cost = Costs(t) /\ s.written = cl.written + INPUT_LEN
       /\ s.discarded = cl.discarded
  BY DEF Clients
<1> HIDE DEF s
<1>20. r.written + r.discarded = cl.written + cl.discarded + INPUT_LEN
  BY <1>1, <1>2, <1>15, <1>19
<1> QED
  BY <1>8, <1>15, <1>17, <1>18, <1>19, <1>20 DEF t

\* n bytes of the first Input pending are written, and not the last of them.
LEMMA OfferPart ==
    ASSUME NEW cl \in Clients, cl.input # <<>>, cl.input_cost = Costs(cl.input),
           NEW w, w = cl.input[1], NEW n \in Nat, n < INPUT_LEN - w,
           NEW r, r = Wrote(cl, n)
    PROVE  /\ r \in Clients
           /\ SameBut(r, cl)
           /\ Len(r.input) = Len(cl.input)
           /\ \A i \in 2 .. Len(cl.input) : r.input[i] = cl.input[i]
           /\ r.input_cost = Costs(r.input)
           /\ r.input_cost <= cl.input_cost
           /\ r.written = cl.written /\ r.discarded = cl.discarded
<1> DEFINE t == Tail(cl.input)
           u == [cl.input EXCEPT ![1] = cl.input[1] + n]
<1>1. cl.input \in Seq(Written) /\ cl.input_cost \in Nat
  BY ClientType
<1>2. INPUT_LEN \in Nat /\ INPUT_COST \in Nat /\ w \in Written /\ t \in Seq(Written)
  BY <1>1, HostConstants
<1>3. w \in Nat /\ w + n \in Written
  BY <1>2, WrittenRest, WrittenMore
<1>4. cl.input = Cons(w, t)
  BY <1>1, ConsOfTail
<1>5. u = Cons(w + n, t)
  BY <1>1, UpdateFirst
<1>6. u \in Seq(Written) /\ Len(u) = Len(cl.input) /\ \A i \in 2 .. Len(cl.input) : u[i] = cl.input[i]
  BY <1>1, <1>3
<1> HIDE DEF t, u
<1>7. Costs(Cons(w, t)) = ((INPUT_LEN - w) + INPUT_COST) + Costs(t)
  BY <1>2, CostsFromFirst
<1>8. Costs(Cons(w + n, t)) = ((INPUT_LEN - (w + n)) + INPUT_COST) + Costs(t)
  BY <1>2, <1>3, CostsFromFirst
<1>9. Costs(t) \in Nat
  BY <1>2, CostsType
<1>10. cl.input_cost - n = Costs(u) /\ Costs(u) <= cl.input_cost
  <2>1. cl.input_cost = ((INPUT_LEN - w) + INPUT_COST) + Costs(t)
    BY <1>4, <1>7
  <2>2. Costs(u) = ((INPUT_LEN - (w + n)) + INPUT_COST) + Costs(t)
    BY <1>5, <1>8
  <2> DEFINE x == INPUT_LEN
             y == INPUT_COST
             z == Costs(t)
             a == cl.input_cost
             b == Costs(u)
  <2>3. x \in Nat /\ y \in Nat /\ z \in Nat /\ w \in Nat /\ n \in Nat
    BY <1>2, <1>3, <1>9
  <2>4. a = ((x - w) + y) + z /\ b = ((x - (w + n)) + y) + z
    BY <2>1, <2>2
  <2> HIDE DEF x, y, z, a, b
  <2>5. a - n = b /\ b <= a
    BY ONLY <2>3, <2>4
  <2> QED
    BY <2>5 DEF a, b
<1>11. Costs(u) \in Nat
  BY <1>6, CostsType
<1>12. r = [cl EXCEPT !.input = u, !.input_cost = Costs(u)]
  <2>1. r = [cl EXCEPT !.input = u, !.input_cost = cl.input_cost - n]
    BY DEF Clients, u, Wrote
  <2> QED
    BY <1>10, <2>1
<1>13. r \in Clients
  BY <1>6, <1>11, <1>12 DEF Clients, Written
<1>14. SameBut(r, cl)
  BY <1>12 DEF Clients, SameBut
<1>15. r.input = u /\ r.input_cost = Costs(u) /\ r.written = cl.written /\ r.discarded = cl.discarded
  BY <1>12 DEF Clients
<1> QED
  BY <1>6, <1>10, <1>13, <1>14, <1>15

\* Where a round of writes of the pending Inputs has come to.
Offered(at, cl) ==
    /\ at = [cl |-> at.cl, ptyRoom |-> at.ptyRoom, full |-> at.full, resolved |-> at.resolved]
    /\ at.ptyRoom \in Nat /\ at.full \in BOOLEAN /\ at.resolved \in BOOLEAN
    /\ at.cl \in Clients /\ SameBut(at.cl, cl)
    /\ at.cl.input_cost = Costs(at.cl.input) /\ at.cl.input_cost <= cl.input_cost
    /\ Len(at.cl.input) <= Len(cl.input)
    /\ \A i \in 2 .. Len(at.cl.input) : at.cl.input[i] = 0
    /\ at.cl.written + at.cl.discarded + INPUT_LEN * Len(at.cl.input)
           = cl.written + cl.discarded + INPUT_LEN * Len(cl.input)
    /\ at.resolved => at.cl.written + at.cl.discarded > cl.written + cl.discarded
    /\ ~ at.resolved => at.cl.written + at.cl.discarded = cl.written + cl.discarded

LEMMA OfferStep ==
    ASSUME NEW cl \in Clients, NEW at, Offered(at, cl), NEW p \in Nat, at.ptyRoom <= p,
           at.full \/ at.cl.input # <<>>, NEW w, ~ at.full => w = at.cl.input[1],
           NEW r, r = OfferInput(at, w)
    PROVE  /\ Offered(r, cl) /\ r.ptyRoom <= p
           /\ ~ r.full => ~ at.full /\ r.cl.input = Tail(at.cl.input)
<1> DEFINE rest == INPUT_LEN - w
           n == Min({rest, at.ptyRoom})
           wrote == Wrote(at.cl, n)
<1>1. CASE at.full
  <2>1. r = at
    BY <1>1 DEF OfferInput
  <2> QED
    BY <1>1, <2>1
<1>2. CASE ~ at.full
  <2>1. /\ at.cl \in Clients /\ SameBut(at.cl, cl) /\ at.cl.input_cost = Costs(at.cl.input)
        /\ at.cl.input # <<>> /\ w = at.cl.input[1] /\ at.ptyRoom \in Nat
        /\ at.cl.input_cost <= cl.input_cost /\ Len(at.cl.input) <= Len(cl.input)
    BY <1>2 DEF Offered
  <2>2. at.cl.input \in Seq(Written) /\ cl.input \in Seq(Written) /\ Len(at.cl.input) \in Nat
        /\ at.cl.input_cost \in Nat /\ cl.input_cost \in Nat
        /\ at.cl.written \in Nat /\ at.cl.discarded \in Nat /\ cl.written \in Nat /\ cl.discarded \in Nat
    BY <2>1, ClientType
  <2>3. w \in Written /\ INPUT_LEN \in Nat
    BY <2>1, <2>2, HostConstants
  <2>4. w \in Nat /\ rest \in Nat /\ rest > 0 /\ rest = INPUT_LEN - w
    BY <2>3, WrittenRest
  <2>5. n \in {rest, at.ptyRoom} /\ n <= rest /\ n <= at.ptyRoom
    <3> DEFINE q == at.ptyRoom
    <3>1. q \in Int /\ rest \in Int
      BY <2>1, <2>4
    <3> HIDE DEF q, rest
    <3>2. Min({rest, q}) \in {rest, q} /\ Min({rest, q}) <= rest /\ Min({rest, q}) <= q
      BY <3>1, MinOfTwo
    <3> QED
      BY <3>2 DEF q
  <2>6. r = [cl |-> IF n = rest THEN resolve(wrote, INPUT_LEN) ELSE wrote,
             ptyRoom |-> at.ptyRoom - n, full |-> n < rest, resolved |-> at.resolved \/ n = rest]
    BY <1>2 DEF OfferInput, Wrote
  <2> HIDE DEF n, rest
  <2>7. n \in Nat /\ at.ptyRoom - n \in Nat /\ at.ptyRoom - n <= p
    <3> DEFINE q == at.ptyRoom
    <3>1. q \in Nat /\ q <= p /\ rest \in Nat
      BY <2>1, <2>4
    <3>2. (n = rest \/ n = q) /\ n <= q
      BY <2>5
    <3> HIDE DEF q
    <3>3. n \in Nat
      BY <3>1, <3>2
    <3>4. q - n \in Nat /\ q - n <= p
      BY <3>1, <3>2, <3>3
    <3> QED
      BY <3>3, <3>4 DEF q
  <2>8. r.ptyRoom = at.ptyRoom - n /\ r.full = (n < rest) /\ r.resolved = (at.resolved \/ n = rest)
    BY <2>6
  <2>9. r = [cl |-> r.cl, ptyRoom |-> r.ptyRoom, full |-> r.full, resolved |-> r.resolved]
    BY <2>6
  <2>10. /\ \A i \in 2 .. Len(at.cl.input) : at.cl.input[i] = 0
         /\ at.cl.written + at.cl.discarded + INPUT_LEN * Len(at.cl.input)
                = cl.written + cl.discarded + INPUT_LEN * Len(cl.input)
         /\ at.cl.written + at.cl.discarded >= cl.written + cl.discarded
         /\ ~ at.resolved => at.cl.written + at.cl.discarded = cl.written + cl.discarded
         /\ at.resolved => at.cl.written + at.cl.discarded > cl.written + cl.discarded
    <3>1. at.resolved \in BOOLEAN
      BY DEF Offered
    <3>2. at.cl.written + at.cl.discarded >= cl.written + cl.discarded
      <4>1. CASE at.resolved
        BY <2>2, <4>1 DEF Offered
      <4>2. CASE ~ at.resolved
        BY <2>2, <4>2 DEF Offered
      <4> QED
        BY <4>1, <4>2
    <3> QED
      BY <3>2 DEF Offered
  <2>11. CASE n = rest
    <3>1. r.cl = resolve(wrote, INPUT_LEN) /\ r.full = FALSE /\ r.resolved = TRUE
      <4>1. r.cl = resolve(wrote, INPUT_LEN)
        BY <2>6, <2>11
      <4>2. r.full = FALSE /\ r.resolved = TRUE
        <5>1. ~ (n < rest)
          BY <2>4, <2>11
        <5>2. (n < rest) = FALSE
          BY <5>1
        <5>3. r.full = FALSE
          BY <2>8, <5>2, Zenon
        <5>4. (at.resolved \/ n = rest) = TRUE
          BY <2>11
        <5> QED
          BY <2>8, <5>3, <5>4, Zenon
      <4> QED
        BY <4>1, <4>2
    <3>2. /\ r.cl \in Clients
          /\ SameBut(r.cl, at.cl)
          /\ r.cl.input = Tail(at.cl.input)
          /\ r.cl.input_cost = Costs(Tail(at.cl.input))
          /\ r.cl.input_cost <= at.cl.input_cost
          /\ r.cl.written + r.cl.discarded = at.cl.written + at.cl.discarded + INPUT_LEN
      <4> DEFINE g == at.cl
      <4>1. wrote = Wrote(g, n)
        OBVIOUS
      <4>2. g \in Clients /\ g.input # <<>> /\ g.input_cost = Costs(g.input) /\ w = g.input[1]
        BY <2>1
      <4>5. n = INPUT_LEN - w
        BY <2>4, <2>11
      <4> DEFINE c == r.cl
      <4>3. c = resolve(Wrote(g, n), INPUT_LEN)
        BY <3>1, <4>1
      <4> HIDE DEF g, c, wrote
      <4>4. /\ c \in Clients /\ SameBut(c, g) /\ c.input = Tail(g.input)
            /\ c.input_cost = Costs(Tail(g.input)) /\ c.input_cost <= g.input_cost
            /\ c.written + c.discarded = g.written + g.discarded + INPUT_LEN
        BY <4>2, <4>3, <4>5, OfferWhole
      <4> QED
        BY <4>4 DEF g, c
    <3> HIDE DEF wrote
    <3>3. SameBut(r.cl, cl)
      BY <2>1, <3>2 DEF SameBut
    <3>4. /\ Len(r.cl.input) = Len(at.cl.input) - 1
          /\ \A i \in 1 .. (Len(at.cl.input) - 1) : r.cl.input[i] = at.cl.input[i + 1]
      <4> DEFINE s == at.cl.input
      <4>1. s \in Seq(Written) /\ s # <<>> /\ r.cl.input = Tail(s)
        BY <2>1, <2>2, <3>2
      <4> HIDE DEF s
      <4>2. Len(Tail(s)) = Len(s) - 1 /\ \A i \in 1 .. (Len(s) - 1) : Tail(s)[i] = s[i + 1]
        BY <4>1, TailAt
      <4> QED
        BY <4>1, <4>2 DEF s
    <3>5. \A i \in 2 .. Len(r.cl.input) : r.cl.input[i] = 0
      <4> TAKE i \in 2 .. Len(r.cl.input)
      <4> DEFINE s == at.cl.input
                 q == r.cl.input
                 m == Len(s)
      <4>1. i \in 2 .. Len(q)
        OBVIOUS
      <4>2. m \in Nat /\ Len(q) = m - 1
        BY <2>2, <3>4
      <4>3. \A j \in 1 .. (m - 1) : q[j] = s[j + 1]
        BY <3>4
      <4>4. \A j \in 2 .. m : s[j] = 0
        BY <2>10
      <4> HIDE DEF s, q, m
      <4>5. i \in 1 .. (m - 1) /\ i + 1 \in 2 .. m
        BY ONLY <4>1, <4>2
      <4>6. q[i] = 0
        BY ONLY <4>3, <4>4, <4>5
      <4> QED
        BY <4>6 DEF q
    <3>6. r.cl.input_cost \in Nat /\ r.cl.input_cost <= cl.input_cost
      <4> DEFINE a == r.cl.input_cost
                 b == at.cl.input_cost
                 d == cl.input_cost
      <4>1. r.cl \in Clients
        BY <3>2
      <4>2. a \in Nat
        BY <4>1, ClientType
      <4>3. b \in Nat /\ d \in Nat /\ b <= d
        BY <2>1, <2>2
      <4>4. a <= b
        BY <3>2
      <4> HIDE DEF a, b, d
      <4>5. a <= d
        BY ONLY <4>2, <4>3, <4>4
      <4> QED
        BY <4>2, <4>5 DEF a, d
    <3>7. r.cl.written + r.cl.discarded + INPUT_LEN * Len(r.cl.input)
             = cl.written + cl.discarded + INPUT_LEN * Len(cl.input)
      <4> DEFINE m == Len(at.cl.input)
      <4>1. m \in Nat /\ INPUT_LEN * (m - 1) = INPUT_LEN * m - INPUT_LEN /\ INPUT_LEN * m \in Int
        BY <2>2, <2>3
      <4>2. INPUT_LEN * Len(r.cl.input) = INPUT_LEN * m - INPUT_LEN
        BY <3>4, <4>1
      <4> HIDE DEF m
      <4>4. r.cl.written + r.cl.discarded = at.cl.written + at.cl.discarded + INPUT_LEN
        BY <3>2
      <4>3. at.cl.written + at.cl.discarded + INPUT_LEN * m = cl.written + cl.discarded + INPUT_LEN * Len(cl.input)
        BY <2>10 DEF m
      <4>5. r.cl.written \in Nat /\ r.cl.discarded \in Nat
        BY <3>2, ClientType
      <4>6. INPUT_LEN * Len(cl.input) \in Int
        BY <2>2, <2>3
      <4> DEFINE a == at.cl.written + at.cl.discarded
                 b == r.cl.written + r.cl.discarded
                 lm == INPUT_LEN * m
                 ln == INPUT_LEN * Len(r.cl.input)
                 all == cl.written + cl.discarded + INPUT_LEN * Len(cl.input)
      <4>10. a \in Int /\ b \in Int /\ cl.written + cl.discarded \in Int
        <5>1. \A x, y \in Nat : x + y \in Int
          OBVIOUS
        <5>2. at.cl.written \in Nat /\ at.cl.discarded \in Nat /\ cl.written \in Nat /\ cl.discarded \in Nat
          BY <2>2
        <5> QED
          BY <4>5, <5>1, <5>2, Zenon
      <4>11. lm \in Int
        BY <4>1
      <4>12. all \in Int
        BY <4>6, <4>10
      <4>7. a \in Int /\ b \in Int /\ lm \in Int /\ all \in Int
        BY <4>10, <4>11, <4>12
      <4>8. b = a + INPUT_LEN /\ ln = lm - INPUT_LEN /\ a + lm = all
        BY <4>2, <4>3, <4>4
      <4> HIDE DEF a, b, lm, ln, all
      <4>9. b + ln = all
        BY <2>3, <4>7, <4>8
      <4> QED
        BY <4>9 DEF b, ln, all
    <3>8. r.cl.written + r.cl.discarded > cl.written + cl.discarded
      <4>1. r.cl.written + r.cl.discarded = at.cl.written + at.cl.discarded + INPUT_LEN
        BY <3>2
      <4>2. at.cl.written + at.cl.discarded >= cl.written + cl.discarded
        BY <2>10
      <4>3. INPUT_LEN > 0
        BY HostConstants
      <4> DEFINE a == at.cl.written + at.cl.discarded
                 b == r.cl.written + r.cl.discarded
                 d == cl.written + cl.discarded
                 l == INPUT_LEN
      <4>4. a \in Nat /\ d \in Nat /\ l \in Nat /\ l > 0
        <5>1. \A x, y \in Nat : x + y \in Nat
          OBVIOUS
        <5>2. at.cl.written \in Nat /\ at.cl.discarded \in Nat /\ cl.written \in Nat /\ cl.discarded \in Nat
          BY <2>2
        <5>3. a \in Nat /\ d \in Nat
          BY <5>1, <5>2, Zenon
        <5>4. l \in Nat /\ l > 0
          BY <2>3, <4>3
        <5> QED
          BY <5>3, <5>4
      <4>5. b = a + l /\ a >= d
        BY <4>1, <4>2
      <4> HIDE DEF a, b, d, l
      <4>6. b > d
        BY ONLY <4>4, <4>5
      <4> QED
        BY <4>6 DEF b, d
    <3>9. Len(r.cl.input) <= Len(cl.input)
      BY <2>1, <2>2, <3>4
    <3>10. r.full = FALSE /\ r.full \in BOOLEAN /\ r.resolved \in BOOLEAN
      BY <3>1
    <3>11. Offered(r, cl)
      BY <2>7, <2>8, <2>9, <3>1, <3>2, <3>3, <3>5, <3>6, <3>7, <3>8, <3>9, <3>10 DEF Offered
    <3> QED
      BY <1>2, <2>7, <2>8, <3>2, <3>11
  <2>12. CASE n # rest
    <3>1. r.cl = wrote /\ r.full = TRUE /\ r.resolved = at.resolved
      <4>1. n < rest
        BY <2>4, <2>5, <2>7, <2>12
      <4>2. at.resolved \in BOOLEAN
        BY DEF Offered
      <4>3. r.cl = wrote
        BY <2>6, <2>12
      <4> QED
        BY <2>8, <2>12, <4>1, <4>2, <4>3
    <3>2. /\ r.cl \in Clients
          /\ SameBut(r.cl, at.cl)
          /\ Len(r.cl.input) = Len(at.cl.input)
          /\ \A i \in 2 .. Len(at.cl.input) : r.cl.input[i] = at.cl.input[i]
          /\ r.cl.input_cost = Costs(r.cl.input)
          /\ r.cl.input_cost <= at.cl.input_cost
          /\ r.cl.written = at.cl.written /\ r.cl.discarded = at.cl.discarded
      <4> DEFINE g == at.cl
      <4>1. wrote = Wrote(g, n)
        OBVIOUS
      <4>2. g \in Clients /\ g.input # <<>> /\ g.input_cost = Costs(g.input) /\ w = g.input[1]
        BY <2>1
      <4>3. n < INPUT_LEN - w
        BY <2>4, <2>5, <2>7, <2>12
      <4> DEFINE c == r.cl
      <4>4. c = Wrote(g, n)
        BY <3>1, <4>1
      <4> HIDE DEF g, c, wrote
      <4>5. /\ c \in Clients /\ SameBut(c, g) /\ Len(c.input) = Len(g.input)
            /\ \A i \in 2 .. Len(g.input) : c.input[i] = g.input[i]
            /\ c.input_cost = Costs(c.input) /\ c.input_cost <= g.input_cost
            /\ c.written = g.written /\ c.discarded = g.discarded
        BY <2>7, <4>2, <4>3, <4>4, OfferPart
      <4> QED
        BY <4>5 DEF g, c
    <3> HIDE DEF wrote
    <3>3. SameBut(r.cl, cl)
      BY <2>1, <3>2 DEF SameBut
    <3>4. r.cl.input_cost \in Nat /\ r.cl.input_cost <= cl.input_cost
      BY <2>1, <2>2, <3>2, ClientType
    <3>5. r.resolved \in BOOLEAN /\ r.full \in BOOLEAN
      BY <3>1 DEF Offered
    <3>6. \A i \in 2 .. Len(r.cl.input) : r.cl.input[i] = 0
      BY <2>10, <3>2
    <3>7. /\ r.cl.written + r.cl.discarded + INPUT_LEN * Len(r.cl.input)
                = cl.written + cl.discarded + INPUT_LEN * Len(cl.input)
          /\ r.resolved => r.cl.written + r.cl.discarded > cl.written + cl.discarded
          /\ ~ r.resolved => r.cl.written + r.cl.discarded = cl.written + cl.discarded
      BY <2>10, <3>1, <3>2
    <3>8. Offered(r, cl)
      BY <2>1, <2>7, <2>8, <2>9, <3>2, <3>3, <3>4, <3>5, <3>6, <3>7 DEF Offered
    <3> QED
      BY <2>7, <2>8, <3>1, <3>8
  <2> QED
    BY <2>11, <2>12
<1>3. at.full \in BOOLEAN
  BY DEF Offered
<1> QED
  BY <1>1, <1>2, <1>3

\* A round of writes of the pending Inputs.
LEMMA OfferAll ==
    ASSUME NEW cl \in Clients, Inputs(cl), NEW p \in Nat
    PROVE  LET at == FoldLeft(OfferInput,
                              [cl |-> cl, ptyRoom |-> p, full |-> FALSE, resolved |-> FALSE],
                              cl.input)
           IN  Offered(at, cl) /\ at.ptyRoom <= p
<1> DEFINE n == Len(cl.input)
           base == [cl |-> cl, ptyRoom |-> p, full |-> FALSE, resolved |-> FALSE]
<1>1. cl.input \in Seq(Written) /\ n \in Nat /\ DOMAIN cl.input = 1 .. n
  BY ClientType
<1>2. FoldLeft(OfferInput, base, cl.input) = Offers!Fold(0, base, cl.input)
  BY DEF OfferOne, Offers!Fold, FoldLeft, Offers!MapThenFoldSet,
         MapThenFoldSet, Offers!Max, Max
<1>0. base.cl = cl /\ base.ptyRoom = p /\ base.full = FALSE /\ base.resolved = FALSE
      /\ base = [cl |-> base.cl, ptyRoom |-> base.ptyRoom, full |-> base.full, resolved |-> base.resolved]
  OBVIOUS
<1> HIDE DEF base
<1>3. PICK h : Offers!Runs(h, 0, base, cl.input, n) /\ Offers!Fold(0, base, cl.input) = h[n]
  <2>1. \A p0, base0, seq : \A k \in Nat : DOMAIN seq = 1 .. k =>
            \E h : Offers!Runs(h, p0, base0, seq, k) /\ Offers!Fold(p0, base0, seq) = h[k]
    BY Offers!FoldGoesThrough, LoopsInduct
  <2> QED
    BY <1>1, <2>1
<1>4. h[0] = base /\ \A k \in 1 .. n : h[k] = OfferInput(h[k - 1], cl.input[k])
  BY <1>3 DEF Offers!Runs, OfferOne
<1> DEFINE Reached == {k \in Nat : k <= n =>
               /\ Offered(h[k], cl) /\ h[k].ptyRoom <= p
               /\ ~ h[k].full =>
                      /\ Len(h[k].cl.input) = n - k
                      /\ \A i \in 1 .. (n - k) : h[k].cl.input[i] = cl.input[k + i]}
<1>5. 0 \in Reached
  <2>1. SameBut(cl, cl)
    BY DEF SameBut
  <2>2. /\ cl.input_cost = Costs(cl.input) /\ cl.input_cost \in Nat
        /\ \A i \in 2 .. n : cl.input[i] = 0
    BY ClientType DEF Inputs
  <2>6. n <= n /\ cl.input_cost <= cl.input_cost
    BY <1>1, <2>2
  <2>3. Offered(base, cl)
    BY <1>0, <2>1, <2>2, <2>6, Zenon DEF Offered
  <2>4. h[0] = base /\ p <= p /\ base.ptyRoom <= p /\ base.cl = cl
    BY <1>0, <1>4
  <2>5. n - 0 = n /\ \A i \in 1 .. n : cl.input[0 + i] = cl.input[i]
    BY <1>1
  <2> QED
    BY <2>3, <2>4, <2>5
<1>6. ASSUME NEW k \in Nat, k \in Reached PROVE k + 1 \in Reached
  <2>1. SUFFICES ASSUME k + 1 <= n
                 PROVE  /\ Offered(h[k + 1], cl) /\ h[k + 1].ptyRoom <= p
                        /\ ~ h[k + 1].full =>
                               /\ Len(h[k + 1].cl.input) = n - (k + 1)
                               /\ \A i \in 1 .. (n - (k + 1)) :
                                      h[k + 1].cl.input[i] = cl.input[(k + 1) + i]
    <3>1. k + 1 \in Nat
      OBVIOUS
    <3> QED
      BY <3>1, Zenon
  <2> DEFINE g == h[k]
             w == cl.input[k + 1]
             r == h[k + 1]
  <2>2. k <= n /\ k + 1 \in 1 .. n /\ (k + 1) - 1 = k /\ 1 \in 1 .. (n - k)
    BY <1>1, <2>1
  <2>3. /\ Offered(g, cl) /\ g.ptyRoom <= p
        /\ ~ g.full => /\ Len(g.cl.input) = n - k
                       /\ \A i \in 1 .. (n - k) : g.cl.input[i] = cl.input[k + i]
    BY <1>6, <2>2
  <2>4. r = OfferInput(g, w)
    BY <1>4, <2>2
  <2> HIDE DEF Reached, g, w, n, r
  <2>5. g.cl \in Clients
    BY <2>3 DEF Offered
  <2>6. g.cl.input \in Seq(Written)
    BY <2>5, ClientType
  <2>7. ~ g.full => g.cl.input # <<>> /\ w = g.cl.input[1]
    BY <2>2, <2>3 DEF w
  <2>8. g.full \/ g.cl.input # <<>>
    BY <2>7
  <2>9. /\ Offered(r, cl) /\ r.ptyRoom <= p
        /\ ~ r.full => ~ g.full /\ r.cl.input = Tail(g.cl.input)
    BY <2>3, <2>4, <2>7, <2>8, OfferStep
  <2>10. ASSUME ~ r.full
         PROVE  /\ Len(r.cl.input) = n - (k + 1)
                /\ \A i \in 1 .. (n - (k + 1)) : r.cl.input[i] = cl.input[(k + 1) + i]
    <3>1. /\ r.cl.input = Tail(g.cl.input) /\ Len(g.cl.input) = n - k /\ g.cl.input # <<>>
          /\ \A i \in 1 .. (n - k) : g.cl.input[i] = cl.input[k + i]
      BY <2>3, <2>7, <2>9, <2>10
    <3> DEFINE s == g.cl.input
    <3>4. s \in Seq(Written) /\ s # <<>> /\ r.cl.input = Tail(s) /\ Len(s) = n - k
          /\ \A i \in 1 .. (n - k) : s[i] = cl.input[k + i]
      BY <2>6, <3>1
    <3> HIDE DEF s
    <3>5. Len(Tail(s)) = Len(s) - 1 /\ \A i \in 1 .. (Len(s) - 1) : Tail(s)[i] = s[i + 1]
      BY <3>4, TailAt
    <3>2. Len(r.cl.input) = n - (k + 1)
      BY <1>1, <3>4, <3>5
    <3>3. ASSUME NEW i \in 1 .. (n - (k + 1)) PROVE r.cl.input[i] = cl.input[(k + 1) + i]
      <4>1. i + 1 \in 1 .. (n - k) /\ k + (i + 1) = (k + 1) + i /\ i \in 1 .. (Len(s) - 1)
        BY <1>1, <2>2, <3>4
      <4>2. r.cl.input[i] = s[i + 1]
        BY <3>4, <3>5, <4>1
      <4> QED
        BY <3>4, <4>1, <4>2
    <3> QED
      BY <3>2, <3>3
  <2> QED
    BY <2>9, <2>10 DEF r
<1> HIDE DEF Reached
<1>7. n \in Reached
  BY <1>1, <1>5, <1>6, NatSetInduction
<1> USE DEF Reached
<1>8. Offered(h[n], cl) /\ h[n].ptyRoom <= p
  BY <1>1, <1>7
<1> QED
  BY <1>2, <1>3, <1>8 DEF base

-----------------------------------------------------------------------------
(* Frames queued for the client.                                           *)

\* What the queue is of two states of a client that have the same of it.
SameEnds(a, b) ==
    a.closing = b.closing /\ a.gone = b.gone /\ a.first = b.first /\ a.last = b.last

LEMMA OutType ==
    ASSUME NEW kind \in Kinds, NEW value \in Nat
    PROVE  /\ Out(kind, value) \in Framed
           /\ Out(kind, value).kind = kind /\ Out(kind, value).value = value
           /\ Out(kind, value).written = 0
BY HostConstants DEF Out, Framed

LEMMA QueueOfAppend ==
    ASSUME NEW cl \in Clients, Queue(cl), ~ cl.closing, ~ cl.gone,
           NEW x \in Framed, x.written = 0, x.kind \in Kinds \ (LastFrames \cup {"Welcome"}),
           IsAck(x) /\ cl.outgoing # <<>> =>
               ~ IsAck(cl.outgoing[Len(cl.outgoing)]) \/ cl.outgoing[Len(cl.outgoing)].written > 0,
           IsAck(x) \/ cl.unsent <= OUTGOING_HIGH_WATER,
           NEW r \in Clients, r.outgoing = Append(cl.outgoing, x), r.unsent = cl.unsent + FRAME,
           SameEnds(r, cl)
    PROVE  Queue(r)
<1> DEFINE q == cl.outgoing
<1>1. q \in Seq(Framed) /\ cl.unsent \in Nat /\ Len(q) \in Nat
  BY ClientType
<1>2. /\ Shape(q, FALSE) /\ cl.unsent = Unsent(q) /\ OthersUnsent(q) <= Bound
      /\ cl.first \in {None, "Welcome"}
      /\ (cl.first = None) <=> (Len(q) > 0 /\ q[1].kind = "Welcome")
      /\ cl.last \notin LastFrames
  <2>1. cl.closing = FALSE
    BY ClientType
  <2> QED
    BY <2>1 DEF Queue, OthersUnsent
<1>3. r.closing = FALSE /\ r.gone = FALSE /\ r.first = cl.first /\ r.last = cl.last
  BY ClientType DEF SameEnds
<1>4. IsAck(x) /\ q # <<>> => ~ IsAck(q[Len(q)]) \/ q[Len(q)].written > 0
  OBVIOUS
<1>5. r.outgoing = Append(q, x)
  OBVIOUS
<1> HIDE DEF q
<1>6. Shape(Append(q, x), FALSE)
  BY <1>1, <1>2, <1>4, ShapeOfAppend DEF IsAck
<1>7. Unsent(Append(q, x)) = Unsent(q) + FRAME
  <2>1. Unsent(Append(q, x)) = Unsent(q) + (FRAME - x.written)
    BY <1>1, UnsentOfAppend
  <2>2. FRAME - 0 = FRAME
    BY HostConstants
  <2> QED
    BY <2>1, <2>2
<1>8. OthersUnsent(Append(q, x)) <= Bound
  <2>1. OthersUnsent(Append(q, x)) = OthersUnsent(q) + IF IsAck(x) THEN 0 ELSE FRAME - x.written
    BY <1>1, OthersOfAppend
  <2>2. OthersUnsent(q) \in Nat /\ OthersUnsent(q) <= Unsent(q)
    BY <1>1, OthersOfKind
  <2>3. CASE IsAck(x)
    BY <1>2, <2>1, <2>2, <2>3
  <2>4. CASE ~ IsAck(x)
    <3>1. Unsent(q) <= OUTGOING_HIGH_WATER
      BY <1>2, <2>4
    <3>2. FRAME \in Nat /\ FRAME - 0 = FRAME /\ OUTGOING_HIGH_WATER \in Nat
      BY HostConstants
    <3>3. OthersUnsent(Append(q, x)) = OthersUnsent(q) + FRAME
      BY <2>1, <2>4, <3>2
    <3>4. Bound \in Nat /\ OUTGOING_HIGH_WATER + FRAME <= Bound /\ Unsent(q) \in Nat
      BY <1>1, <1>2, BoundIs
    <3> QED
      BY <2>2, <3>1, <3>2, <3>3, <3>4
  <2> QED
    BY <2>3, <2>4
<1>9. Len(q) > 0 /\ q[1].kind = "Welcome" <=>
          Len(Append(q, x)) > 0 /\ Append(q, x)[1].kind = "Welcome"
  <2>1. CASE Len(q) = 0
    <3>1. Append(q, x)[1] = x
      BY <1>1, <2>1
    <3> QED
      BY <1>1, <2>1, <3>1
  <2>2. CASE Len(q) # 0
    <3>1. 1 \in 1 .. Len(q) /\ Len(q) > 0
      BY <1>1, <2>2
    <3>2. Append(q, x)[1] = q[1] /\ Len(Append(q, x)) > 0
      BY <1>1, <3>1
    <3> QED
      BY <3>1, <3>2
  <2> QED
    BY <2>1, <2>2
<1>10. Queue(r)
  <2>1. r.unsent = Unsent(r.outgoing) /\ Unsent(OfKind(r.outgoing, Others)) <= Bound
    BY <1>2, <1>5, <1>7, <1>8 DEF OthersUnsent
  <2>2. Shape(r.outgoing, r.closing)
    BY <1>3, <1>5, <1>6
  <2>3. (r.first = None) <=> (Len(r.outgoing) > 0 /\ r.outgoing[1].kind = "Welcome")
    BY <1>2, <1>3, <1>5, <1>9
  <2> HIDE DEF q
  <2> QED
    BY <1>2, <1>3, <2>1, <2>2, <2>3, Zenon DEF Queue
<1> QED
  BY <1>10

\* The last frame queued, an acknowledgement not started, is brought up to date.
LEMMA QueueOfUpdate ==
    ASSUME NEW cl \in Clients, Queue(cl), ~ cl.closing, ~ cl.gone,
           NEW q \in Seq(Framed), NEW x \in Framed, NEW y \in Framed,
           cl.outgoing = Append(q, x), IsAck(x), IsAck(y), x.written = y.written,
           NEW r \in Clients, r.outgoing = Append(q, y), r.unsent = cl.unsent,
           SameEnds(r, cl)
    PROVE  Queue(r)
<1>1. Len(q) \in Nat
  OBVIOUS
<1>2. /\ Shape(Append(q, x), FALSE) /\ cl.unsent = Unsent(Append(q, x))
      /\ OthersUnsent(Append(q, x)) <= Bound
      /\ cl.first \in {None, "Welcome"}
      /\ (cl.first = None) <=> (Len(Append(q, x)) > 0 /\ Append(q, x)[1].kind = "Welcome")
      /\ cl.last \notin LastFrames
  <2>1. cl.closing = FALSE
    BY ClientType
  <2> QED
    BY <2>1 DEF Queue, OthersUnsent
<1>3. r.closing = FALSE /\ r.gone = FALSE /\ r.first = cl.first /\ r.last = cl.last
  BY ClientType DEF SameEnds
<1>4. Shape(Append(q, y), FALSE)
  BY <1>2, ShapeOfUpdate DEF IsAck
<1>5. Unsent(Append(q, y)) = Unsent(Append(q, x))
  <2>1. Unsent(Append(q, x)) = Unsent(q) + (FRAME - x.written)
    BY UnsentOfAppend
  <2>2. Unsent(Append(q, y)) = Unsent(q) + (FRAME - y.written)
    BY UnsentOfAppend
  <2> QED
    BY <2>1, <2>2
<1>6. OthersUnsent(Append(q, y)) = OthersUnsent(Append(q, x))
  <2>1. OthersUnsent(Append(q, x)) = OthersUnsent(q) + 0
    BY OthersOfAppend
  <2>2. OthersUnsent(Append(q, y)) = OthersUnsent(q) + 0
    BY OthersOfAppend
  <2> QED
    BY <2>1, <2>2
<1>7. Append(q, y)[1].kind = Append(q, x)[1].kind /\ Len(Append(q, y)) = Len(Append(q, x))
  <2>1. CASE Len(q) = 0
    BY <2>1 DEF IsAck
  <2>2. CASE Len(q) # 0
    <3>1. 1 \in 1 .. Len(q)
      BY <1>1, <2>2
    <3> QED
      BY <3>1
  <2> QED
    BY <2>1, <2>2
<1>8. r.unsent = Unsent(r.outgoing) /\ Unsent(OfKind(r.outgoing, Others)) <= Bound
  BY <1>2, <1>5, <1>6 DEF OthersUnsent
<1>9. Shape(r.outgoing, r.closing)
  BY <1>3, <1>4
<1>10. (r.first = None) <=> (Len(r.outgoing) > 0 /\ r.outgoing[1].kind = "Welcome")
  BY <1>2, <1>3, <1>7
<1> QED
  BY <1>2, <1>3, <1>8, <1>9, <1>10, Zenon DEF Queue

\* What an acknowledgement leaves alone.
SameAccount(a, b) ==
    /\ a.conn = b.conn /\ a.reading = b.reading /\ a.cursor = b.cursor
    /\ a.input = b.input /\ a.input_cost = b.input_cost
    /\ a.written = b.written /\ a.discarded = b.discarded
    /\ a.ack = b.ack /\ a.record = b.record
    /\ SameEnds(a, b)

\* An acknowledgement of more than was told of before.
LEMMA Acknowledged ==
    ASSUME NEW cl \in Clients, Queue(cl), Records(cl), ~ cl.closing, ~ cl.gone,
           NEW all \in Nat, Told(cl.outgoing, cl.ack, all), cl.written + cl.discarded > all
    PROVE  /\ acknowledge(cl) \in Clients /\ SameAccount(acknowledge(cl), cl)
           /\ Queue(acknowledge(cl)) /\ Acknowledgements(acknowledge(cl)) /\ Records(acknowledge(cl))
<1> DEFINE q == cl.outgoing
           n == Len(q)
           more == cl.written + cl.discarded
           ack == Out("InputAck", more)
           r == acknowledge(cl)
<1>1. q \in Seq(Framed) /\ n \in Nat /\ more \in Nat /\ cl.ack \in Nat /\ cl.unsent \in Nat
      /\ cl.cursor \in Nat /\ cl.record \in Nat
  BY ClientType
<1>2. ack \in Framed /\ IsAck(ack) /\ ack.value = more /\ ack.written = 0
  BY <1>1, OutType DEF IsAck, Kinds
<1>3. r = IF n > 0 /\ q[n].kind = "InputAck" /\ q[n].written = 0
          THEN [cl EXCEPT !.outgoing = [q EXCEPT ![n] = ack]]
          ELSE [cl EXCEPT !.outgoing = Append(q, ack), !.unsent = cl.unsent + FRAME]
  BY DEF acknowledge
<1>4. FRAME \in Nat
  BY HostConstants
<1>5. Streamed(q, cl.record, cl.cursor) /\ Told(q, cl.ack, all) /\ more > all
  BY DEF Records
<1> HIDE DEF r, q, ack, more
<1>6. CASE n > 0 /\ q[n].kind = "InputAck" /\ q[n].written = 0
  <2> DEFINE f == Front(q)
             x == Last(q)
  <2>1. q # <<>>
    BY <1>6
  <2>2. /\ f \in Seq(Framed) /\ x \in Framed /\ q = Append(f, x)
        /\ x = q[n]
    BY <1>1, <2>1, LastOf DEF Last
  <2>3. [q EXCEPT ![n] = ack] = Append(f, ack)
    BY <1>1, <1>2, <2>1, UpdateLast
  <2> HIDE DEF f, x, n
  <2>4. IsAck(x) /\ x.written = 0
    BY <1>6, <2>2 DEF IsAck
  <2>5. Append(f, ack) \in Seq(Framed)
    BY <1>2, <2>2
  <2>6. r = [cl EXCEPT !.outgoing = Append(f, ack)]
    BY <1>3, <1>6, <2>3
  <2>7. r \in Clients
    BY <2>5, <2>6 DEF Clients, Framed
  <2>8. SameAccount(r, cl) /\ r.outgoing = Append(f, ack) /\ r.unsent = cl.unsent
    BY <2>6 DEF Clients, SameAccount, SameEnds
  <2>9. Queue(r)
    <3>1. SameEnds(r, cl) /\ cl.outgoing = Append(f, x) /\ x.written = ack.written
      BY <1>2, <2>2, <2>4, <2>8 DEF SameAccount, q
    <3> QED
      BY <1>2, <2>2, <2>4, <2>7, <2>8, <3>1, QueueOfUpdate
  <2>10. Told(Append(f, ack), cl.ack, more) /\ ToldAll(Append(f, ack), cl.ack, more)
    <3> DEFINE a == cl.ack
    <3>3. more >= all
      BY <1>1, <1>5
    <3>1. a \in Nat /\ Told(Append(f, x), a, all) /\ more >= all
      BY <1>1, <1>5, <2>2, <3>3, Zenon
    <3> HIDE DEF a
    <3>2. Told(Append(f, ack), a, more) /\ ToldAll(Append(f, ack), a, more)
      BY <1>1, <1>2, <2>2, <2>4, <3>1, ToldOfUpdate
    <3> QED
      BY <3>2 DEF a
  <2>11. r.ack = cl.ack /\ r.written + r.discarded = more
    BY <2>8 DEF SameAccount, more
  <2>12. Acknowledgements(r)
    BY <2>8, <2>10, <2>11 DEF Acknowledgements
  <2>13. Streamed(Append(f, ack), cl.record, cl.cursor)
    <3>1. OfKind(Append(f, x), {"Record"}) = OfKind(f, {"Record"})
      BY <2>2, <2>4, OfKindOfAppend DEF IsAck
    <3>2. OfKind(Append(f, ack), {"Record"}) = OfKind(f, {"Record"})
      BY <1>2, <2>2, OfKindOfAppend DEF IsAck
    <3> QED
      BY <1>5, <2>2, <3>1, <3>2 DEF Streamed
  <2>14. Records(r)
    BY <2>8, <2>13 DEF Records, SameAccount
  <2> QED
    BY <2>7, <2>8, <2>9, <2>12, <2>14 DEF r
<1>7. CASE ~ (n > 0 /\ q[n].kind = "InputAck" /\ q[n].written = 0)
  <2>1. r = [cl EXCEPT !.outgoing = Append(q, ack), !.unsent = cl.unsent + FRAME]
    BY <1>3, <1>7
  <2>2. Append(q, ack) \in Seq(Framed) /\ cl.unsent + FRAME \in Nat
    BY <1>1, <1>2, <1>4
  <2>3. r \in Clients
    BY <2>1, <2>2 DEF Clients, Framed
  <2>4. SameAccount(r, cl) /\ r.outgoing = Append(q, ack) /\ r.unsent = cl.unsent + FRAME
    BY <2>1 DEF Clients, SameAccount, SameEnds
  <2>5. Queue(r)
    <3>1. SameEnds(r, cl) /\ r.outgoing = Append(cl.outgoing, ack)
      BY <2>4 DEF SameAccount, q
    <3>2. ack.kind \in Kinds \ (LastFrames \cup {"Welcome"})
      BY <1>2 DEF IsAck, Kinds, LastFrames
    <3>3. ASSUME q # <<>> PROVE ~ IsAck(q[n]) \/ q[n].written > 0
      <4>1. n > 0 /\ n \in 1 .. n
        BY <1>1, <3>3
      <4>2. q[n].written \in Nat
        <5>1. q[n] \in Framed
          BY <1>1, <4>1
        <5>2. q[n].written \in 0 .. (FRAME - 1)
          BY <5>1 DEF Framed
        <5> QED
          BY <5>2
      <4>3. IsAck(q[n]) => q[n].written # 0
        BY <1>7, <4>1 DEF IsAck
      <4> QED
        BY <4>2, <4>3
    <3> QED
      BY <1>2, <2>3, <2>4, <3>1, <3>2, <3>3, QueueOfAppend DEF q, n
  <2>6. Told(Append(q, ack), cl.ack, more) /\ ToldAll(Append(q, ack), cl.ack, more)
    <3> DEFINE a == cl.ack
    <3>1. a \in Nat /\ Told(q, a, all)
      BY <1>1, <1>5
    <3> HIDE DEF a
    <3>2. Told(Append(q, ack), a, more) /\ ToldAll(Append(q, ack), a, more)
      BY <1>1, <1>2, <1>5, <3>1, ToldOfAck
    <3> QED
      BY <3>2 DEF a
  <2>7. r.ack = cl.ack /\ r.written + r.discarded = more
    BY <2>4 DEF SameAccount, more
  <2>8. Acknowledgements(r)
    BY <2>4, <2>6, <2>7 DEF Acknowledgements
  <2>9. Streamed(Append(q, ack), cl.record, cl.cursor)
    <3> DEFINE a == cl.record
               b == cl.cursor
    <3>1. a \in Nat /\ b \in Nat /\ Streamed(q, a, b) /\ ack.kind # "Record"
      BY <1>1, <1>2, <1>5 DEF IsAck
    <3> HIDE DEF a, b
    <3>2. Streamed(Append(q, ack), a, b)
      BY <1>1, <1>2, <3>1, StreamedOfAppend
    <3> QED
      BY <3>2 DEF a, b
  <2>10. Records(r)
    BY <2>4, <2>9 DEF Records, SameAccount
  <2> QED
    BY <2>3, <2>4, <2>5, <2>8, <2>10 DEF r
<1> QED
  BY <1>6, <1>7

-----------------------------------------------------------------------------
(* What each operation on the client keeps of it.                          *)

\* What stays of the client when some of its input is dealt with.
SameClient(a, b) ==
    /\ a.conn = b.conn /\ a.reading = b.reading /\ a.cursor = b.cursor
    /\ a.closing = b.closing /\ a.gone = b.gone
    /\ a.record = b.record

\* Nothing of what was sent is lost: it was dealt with, or it is pending.
SameTotal(a, b) ==
    a.written + a.discarded + INPUT_LEN * Len(a.input)
        = b.written + b.discarded + INPUT_LEN * Len(b.input)

LEMMA DiscardInput ==
    ASSUME NEW cl, ClientOK(cl), NEW r, r = discard_input(cl)
    PROVE  ClientOK(r) /\ SameClient(r, cl) /\ SameTotal(r, cl) /\ r.input = <<>>
<1>1. cl \in Clients /\ Queue(cl) /\ Acknowledgements(cl) /\ Records(cl) /\ Inputs(cl)
  BY DEF ClientOK
<1>2. CASE cl.input = <<>>
  <2>1. r = cl
    BY <1>2 DEF discard_input
  <2> QED
    BY <1>2, <2>1 DEF SameClient, SameTotal
<1>3. CASE cl.input # <<>>
  <2> DEFINE g == FoldLeft(resolve, cl, cl.input)
             k == INPUT_LEN * Len(cl.input)
             old == cl.written + cl.discarded
  <2>0. cl # None
    BY <1>1, NoneIsNothing
  <2>1. r = acknowledge(g)
    BY <1>3, <2>0 DEF discard_input
  <2>2. /\ g \in Clients /\ SameBut(g, cl) /\ g.input = <<>> /\ g.input_cost = 0
        /\ g.written + g.discarded = old + k
    BY <1>1, ResolveAll
  <2>3. ~ cl.closing /\ ~ cl.gone
    BY <1>1, <1>3 DEF Inputs
  <2>4. k \in Nat /\ k > 0
    <3>1. Len(cl.input) \in Nat /\ Len(cl.input) > 0
      <4>1. cl.input \in Seq(Written)
        BY <1>1, ClientType
      <4> QED
        BY <1>3, <4>1
    <3>2. INPUT_LEN \in Nat /\ INPUT_LEN > 0
      BY HostConstants
    <3>3. \A a, b \in Nat : a > 0 /\ b > 0 => a * b \in Nat /\ a * b > 0
      OBVIOUS
    <3> QED
      BY <3>1, <3>2, <3>3
  <2>5. old \in Nat /\ cl.ack \in Nat
    <3>1. cl.written \in Nat /\ cl.discarded \in Nat /\ cl.ack \in Nat
      BY <1>1, ClientType
    <3> QED
      BY <3>1
  <2> HIDE DEF g
  <2>6. ~ g.closing /\ ~ g.gone /\ Told(g.outgoing, g.ack, old)
    BY <1>1, <2>2, <2>3 DEF SameBut, Acknowledgements
  <2>7. Queue(g) /\ Records(g)
    BY <1>1, <2>2 DEF SameBut, Queue, Records
  <2> HIDE DEF old, k
  <2>8. g.written + g.discarded > old
    BY <2>2, <2>4, <2>5
  <2>9. /\ r \in Clients /\ SameAccount(r, g)
        /\ Queue(r) /\ Acknowledgements(r) /\ Records(r)
    BY <2>1, <2>2, <2>5, <2>6, <2>7, <2>8, Acknowledged
  <2>10. r.input = <<>> /\ r.input_cost = 0 /\ r.written + r.discarded = old + k
    BY <2>2, <2>9 DEF SameAccount
  <2>11. SameClient(r, cl)
    BY <2>2, <2>9 DEF SameAccount, SameBut, SameClient, SameEnds
  <2>12. Inputs(r)
    <3>1. r.closing => ~ r.reading
      BY <1>1, <2>11 DEF Inputs, SameClient
    <3>2. 0 <= MAX_PENDING_INPUT
      BY HostConstants
    <3>3. \A i \in 2 .. Len(r.input) : r.input[i] = 0
      BY <2>10
    <3> QED
      BY <2>10, <3>1, <3>2, <3>3, CostsOfNone DEF Inputs
  <2>13. SameTotal(r, cl)
    <3>1. INPUT_LEN * Len(<<>>) = 0 /\ \A a \in Nat : a + 0 = a
      BY HostConstants
    <3>2. old + k \in Nat
      BY <2>4, <2>5
    <3>3. r.written + r.discarded + INPUT_LEN * Len(r.input) = old + k
      BY <2>10, <3>1, <3>2
    <3> QED
      BY <3>3 DEF SameTotal, old, k
  <2> QED
    BY <2>9, <2>10, <2>11, <2>12, <2>13 DEF ClientOK
<1> QED
  BY <1>2, <1>3

\* write_input with a pty that takes input.
LEMMA WriteInput ==
    ASSUME NEW cl, ClientOK(cl), NEW p \in Nat, NEW at, NEW r,
           at = FoldLeft(OfferInput,
                         [cl |-> cl, ptyRoom |-> p, full |-> FALSE, resolved |-> FALSE],
                         cl.input),
           r = IF at.resolved THEN acknowledge(at.cl) ELSE at.cl
    PROVE  ClientOK(r) /\ SameClient(r, cl) /\ SameTotal(r, cl) /\ at.ptyRoom \in Nat /\ at.ptyRoom <= p
<1>1. cl \in Clients /\ Queue(cl) /\ Acknowledgements(cl) /\ Records(cl) /\ Inputs(cl)
  BY DEF ClientOK
<1>2. Offered(at, cl) /\ at.ptyRoom <= p
  BY <1>1, OfferAll
<1> DEFINE g == at.cl
           old == cl.written + cl.discarded
<1>3. /\ g \in Clients /\ SameBut(g, cl)
      /\ g.input_cost = Costs(g.input) /\ g.input_cost <= cl.input_cost
      /\ Len(g.input) <= Len(cl.input)
      /\ \A i \in 2 .. Len(g.input) : g.input[i] = 0
      /\ SameTotal(g, cl)
      /\ at.resolved => g.written + g.discarded > old
      /\ ~ at.resolved => g.written + g.discarded = old
      /\ at.ptyRoom \in Nat
  BY <1>2 DEF Offered, SameTotal
<1>4. r = IF at.resolved THEN acknowledge(g) ELSE g
  OBVIOUS
<1>5. old \in Nat
  <2>1. cl.written \in Nat /\ cl.discarded \in Nat
    BY <1>1, ClientType
  <2> QED
    BY <2>1
<1> HIDE DEF g, old
<1>6. Queue(g) /\ Records(g) /\ Told(g.outgoing, g.ack, old)
  BY <1>1, <1>3 DEF SameBut, Queue, Records, Acknowledgements, old
<1>7. Inputs(g)
  <2>1. g.closing = cl.closing /\ g.gone = cl.gone /\ g.reading = cl.reading
    BY <1>3 DEF SameBut
  <2>2. cl.closing \/ cl.gone => cl.input = <<>>
    BY <1>1 DEF Inputs
  <2>3. ASSUME g.closing \/ g.gone PROVE g.input = <<>>
    <3>1. cl.input = <<>>
      BY <2>1, <2>2, <2>3
    <3>2. Len(g.input) <= 0 /\ g.input \in Seq(Written)
      BY <1>3, <3>1, ClientType
    <3> QED
      BY <3>2
  <2>4. g.input_cost <= MAX_PENDING_INPUT
    <3>1. cl.input_cost <= MAX_PENDING_INPUT
      BY <1>1 DEF Inputs
    <3>2. g.input_cost \in Nat /\ cl.input_cost \in Nat /\ MAX_PENDING_INPUT \in Nat
      BY <1>1, <1>3, ClientType, HostConstants
    <3> QED
      BY <1>3, <3>1, <3>2
  <2>5. g.closing => ~ g.reading
    BY <1>1, <2>1 DEF Inputs
  <2> QED
    BY <1>3, <2>3, <2>4, <2>5, Zenon DEF Inputs
<1>8. CASE ~ at.resolved
  <2>1. r = g
    BY <1>4, <1>8
  <2>2. Acknowledgements(g)
    BY <1>1, <1>3, <1>8 DEF Acknowledgements, SameBut, old
  <2>3. SameClient(g, cl)
    BY <1>3 DEF SameBut, SameClient
  <2> QED
    BY <1>2, <1>3, <1>6, <1>7, <2>1, <2>2, <2>3 DEF ClientOK
<1>9. CASE at.resolved
  <2>1. r = acknowledge(g) /\ g.written + g.discarded > old
    BY <1>3, <1>4, <1>9
  <2>2. ~ g.closing /\ ~ g.gone
    <3>1. ASSUME g.closing \/ g.gone PROVE FALSE
      <4>1. cl.closing \/ cl.gone
        BY <1>3, <3>1 DEF SameBut
      <4>2. cl.input = <<>> /\ g.input = <<>>
        BY <1>1, <1>7, <3>1, <4>1 DEF Inputs
      <4>3. g.written \in Nat /\ g.discarded \in Nat /\ cl.written \in Nat /\ cl.discarded \in Nat
        BY <1>1, <1>3, ClientType
      <4>4. INPUT_LEN * Len(<<>>) = 0
        BY HostConstants
      <4>5. g.written + g.discarded + 0 = cl.written + cl.discarded + 0
        BY <1>3, <4>2, <4>4 DEF SameTotal
      <4>6. g.written + g.discarded = cl.written + cl.discarded
        BY <4>3, <4>5
      <4>7. g.written + g.discarded > cl.written + cl.discarded
        BY <2>1 DEF old
      <4> QED
        BY <4>3, <4>6, <4>7
    <3> QED
      BY <3>1
  <2>3. /\ r \in Clients /\ SameAccount(r, g)
        /\ Queue(r) /\ Acknowledgements(r) /\ Records(r)
    BY <1>3, <1>5, <1>6, <2>1, <2>2, Acknowledged
  <2>4. Inputs(r)
    BY <1>7, <2>3 DEF Inputs, SameAccount, SameEnds
  <2>5. SameClient(r, cl)
    BY <1>3, <2>3 DEF SameAccount, SameBut, SameClient, SameEnds
  <2>6. SameTotal(r, cl)
    BY <1>3, <2>3 DEF SameAccount, SameTotal
  <2> QED
    BY <1>2, <1>3, <2>3, <2>4, <2>5, <2>6 DEF ClientOK
<1> QED
  BY <1>8, <1>9

\* queue: a reply, of a client not over the high water.
LEMMA QueueReply ==
    ASSUME NEW cl, ClientOK(cl), ~ cl.closing, ~ cl.gone => cl.unsent <= OUTGOING_HIGH_WATER,
           NEW r, r = queue(cl, Out("Reply", 0))
    PROVE  ClientOK(r) /\ SameClient(r, cl) /\ SameTotal(r, cl) /\ r.input = cl.input
           /\ r.written = cl.written /\ r.discarded = cl.discarded
<1>1. cl \in Clients /\ Queue(cl) /\ Acknowledgements(cl) /\ Records(cl) /\ Inputs(cl)
  BY DEF ClientOK
<1>2. CASE cl.gone
  <2>1. r = cl
    BY <1>2 DEF queue
  <2> QED
    BY <2>1 DEF SameClient, SameTotal
<1>3. CASE ~ cl.gone
  <2> DEFINE q == cl.outgoing
             x == Out("Reply", 0)
             all == cl.written + cl.discarded
             a == cl.ack
             b == cl.record
             c == cl.cursor
  <2>1. q \in Seq(Framed) /\ cl.unsent \in Nat /\ all \in Nat /\ a \in Nat /\ b \in Nat /\ c \in Nat
    <3>1. cl.written \in Nat /\ cl.discarded \in Nat
      BY <1>1, ClientType
    <3> QED
      BY <1>1, <3>1, ClientType
  <2>2. x \in Framed /\ x.kind = "Reply" /\ x.written = 0
    BY OutType DEF Kinds
  <2>3. r = [cl EXCEPT !.outgoing = Append(q, x), !.unsent = cl.unsent + FRAME]
    BY <1>3 DEF queue
  <2>4. ~ IsAck(x) /\ x.kind \in Kinds \ (LastFrames \cup {"Welcome"}) /\ x.kind # "Record"
    BY <2>2 DEF IsAck, Kinds, LastFrames
  <2>5. Told(q, a, all) /\ ToldAll(q, a, all) /\ Streamed(q, b, c)
    BY <1>1, <1>3 DEF Acknowledgements, Records
  <2> HIDE DEF q, x, all, a, b, c
  <2>6. Append(q, x) \in Seq(Framed) /\ cl.unsent + FRAME \in Nat
    BY <2>1, <2>2, HostConstants
  <2>7. r \in Clients
    BY <1>1, <2>3, <2>6 DEF Clients, Framed
  <2>8. SameAccount(r, cl) /\ r.outgoing = Append(q, x) /\ r.unsent = cl.unsent + FRAME
    BY <1>1, <2>3 DEF Clients, SameAccount, SameEnds
  <2>9. Queue(r)
    <3>1. SameEnds(r, cl) /\ r.outgoing = Append(cl.outgoing, x)
      BY <2>8 DEF SameAccount, q
    <3> QED
      BY <1>1, <1>3, <2>2, <2>4, <2>7, <2>8, <3>1, QueueOfAppend
  <2>10. Told(Append(q, x), a, all) /\ ToldAll(Append(q, x), a, all)
    BY <2>1, <2>2, <2>4, <2>5, ToldOfAppend
  <2>11. Streamed(Append(q, x), b, c)
    BY <2>1, <2>2, <2>4, <2>5, StreamedOfAppend
  <2>12. Acknowledgements(r)
    BY <2>8, <2>10 DEF Acknowledgements, SameAccount, a, all
  <2>13. Records(r)
    BY <2>8, <2>11 DEF Records, SameAccount, b, c
  <2>14. Inputs(r)
    BY <1>1, <2>8 DEF Inputs, SameAccount, SameEnds
  <2> QED
    BY <2>7, <2>8, <2>9, <2>12, <2>13, <2>14 DEF ClientOK, SameAccount, SameClient, SameTotal, SameEnds
<1> QED
  BY <1>2, <1>3

\* refill_outgoing: the next record of the stream.
LEMMA QueueRecord ==
    ASSUME NEW cl, ClientOK(cl), cl.reading, ~ cl.gone, cl.unsent < OUTGOING_HIGH_WATER,
           NEW r, r = [cl EXCEPT !.outgoing = Append(@, Out("Record", cl.cursor + 1)),
                                 !.unsent = @ + FRAME, !.cursor = @ + 1]
    PROVE  /\ ClientOK(r)
           /\ r.conn = cl.conn /\ r.reading = cl.reading /\ r.closing = cl.closing /\ r.gone = cl.gone
           /\ r.record = cl.record /\ r.input = cl.input /\ r.input_cost = cl.input_cost
           /\ r.written = cl.written /\ r.discarded = cl.discarded
           /\ r.cursor = cl.cursor + 1 /\ r.unsent >= cl.unsent
<1>1. cl \in Clients /\ Queue(cl) /\ Acknowledgements(cl) /\ Records(cl) /\ Inputs(cl)
  BY DEF ClientOK
<1>2. ~ cl.closing
  BY <1>1 DEF Inputs
<1> DEFINE q == cl.outgoing
           all == cl.written + cl.discarded
           a == cl.ack
           b == cl.record
           c == cl.cursor
           x == Out("Record", c + 1)
<1>3. q \in Seq(Framed) /\ cl.unsent \in Nat /\ all \in Nat /\ a \in Nat /\ b \in Nat /\ c \in Nat
  <2>1. cl.written \in Nat /\ cl.discarded \in Nat
    BY <1>1, ClientType
  <2> QED
    BY <1>1, <2>1, ClientType
<1>4. FRAME \in Nat /\ OUTGOING_HIGH_WATER \in Nat
  BY HostConstants
<1>5. r = [cl EXCEPT !.outgoing = Append(q, x), !.unsent = cl.unsent + FRAME, !.cursor = c + 1]
  OBVIOUS
<1>6. Told(q, a, all) /\ ToldAll(q, a, all) /\ Streamed(q, b, c)
  BY <1>1, <1>2 DEF Acknowledgements, Records
<1> HIDE DEF q, all, a, b, c
<1>7. c + 1 \in Nat
  BY <1>3
<1>8. x \in Framed /\ x.kind = "Record" /\ x.written = 0 /\ x.value = c + 1
  BY <1>7, OutType DEF Kinds
<1> HIDE DEF x
<1>9. ~ IsAck(x) /\ x.kind \in Kinds \ (LastFrames \cup {"Welcome"})
  BY <1>8 DEF IsAck, Kinds, LastFrames
<1>10. Append(q, x) \in Seq(Framed) /\ cl.unsent + FRAME \in Nat
  BY <1>3, <1>4, <1>8
<1>11. r \in Clients
  BY <1>1, <1>5, <1>7, <1>10 DEF Clients, Framed
<1>12. /\ r.outgoing = Append(q, x) /\ r.unsent = cl.unsent + FRAME /\ r.cursor = c + 1
       /\ SameEnds(r, cl)
  BY <1>1, <1>5 DEF Clients, SameEnds
<1>13. /\ r.conn = cl.conn /\ r.reading = cl.reading /\ r.closing = cl.closing /\ r.gone = cl.gone
       /\ r.record = cl.record /\ r.input = cl.input /\ r.input_cost = cl.input_cost
       /\ r.written = cl.written /\ r.discarded = cl.discarded /\ r.ack = cl.ack
  BY <1>1, <1>5 DEF Clients
<1>14. Queue(r)
  <2>1. r.outgoing = Append(cl.outgoing, x)
    BY <1>12 DEF q
  <2>2. cl.unsent <= OUTGOING_HIGH_WATER
    BY <1>3, <1>4
  <2> QED
    BY <1>1, <1>2, <1>8, <1>9, <1>11, <1>12, <2>1, <2>2, QueueOfAppend
<1>15. Told(Append(q, x), a, all) /\ ToldAll(Append(q, x), a, all)
  BY <1>3, <1>6, <1>8, <1>9, ToldOfAppend
<1>16. Streamed(Append(q, x), b, c + 1)
  BY <1>3, <1>6, <1>8, StreamedOfRecord
<1>17. Acknowledgements(r)
  BY <1>12, <1>13, <1>15 DEF Acknowledgements, a, all
<1>18. Records(r)
  BY <1>12, <1>13, <1>16 DEF Records, b
<1>19. Inputs(r)
  BY <1>1, <1>13 DEF Inputs
<1>20. r.unsent >= cl.unsent
  BY <1>3, <1>4, <1>12
<1>21. r.cursor = cl.cursor + 1
  BY <1>12 DEF c
<1> QED
  BY <1>11, <1>13, <1>14, <1>17, <1>18, <1>19, <1>20, <1>21 DEF ClientOK

\* handle_input: an Input is taken to the pending ones.
LEMMA TakeInput ==
    ASSUME NEW cl, ClientOK(cl), ~ cl.closing, ~ cl.gone,
           cl.input_cost + INPUT_LEN + INPUT_COST <= MAX_PENDING_INPUT,
           NEW r, r = [cl EXCEPT !.input = Append(@, 0), !.input_cost = @ + INPUT_LEN + INPUT_COST]
    PROVE  /\ ClientOK(r) /\ SameClient(r, cl)
           /\ Len(r.input) = Len(cl.input) + 1
           /\ r.written = cl.written /\ r.discarded = cl.discarded
<1>1. cl \in Clients /\ Queue(cl) /\ Acknowledgements(cl) /\ Records(cl) /\ Inputs(cl)
  BY DEF ClientOK
<1> DEFINE s == cl.input
           cost == cl.input_cost + INPUT_LEN + INPUT_COST
<1>2. s \in Seq(Written) /\ cl.input_cost \in Nat
  BY <1>1, ClientType
<1>3. 0 \in Written /\ INPUT_LEN \in Nat /\ INPUT_COST \in Nat
  BY HostConstants DEF Written
<1>4. cost \in Nat /\ Append(s, 0) \in Seq(Written)
  BY <1>2, <1>3
<1>5. r = [cl EXCEPT !.input = Append(s, 0), !.input_cost = cost]
  OBVIOUS
<1>6. cl.input_cost = Costs(s) /\ \A i \in 2 .. Len(s) : s[i] = 0
  BY <1>1 DEF Inputs
<1>7. cost <= MAX_PENDING_INPUT
  OBVIOUS
<1> HIDE DEF s
<1>8. Costs(Append(s, 0)) = cost
  <2>1. Costs(Append(s, 0)) = Costs(s) + ((INPUT_LEN - 0) + INPUT_COST)
    BY <1>2, <1>3, CostsOfAppend
  <2> QED
    BY <1>2, <1>3, <1>6, <2>1
<1> HIDE DEF cost
<1>9. r \in Clients
  BY <1>1, <1>4, <1>5 DEF Clients, Written
<1>10. /\ r.input = Append(s, 0) /\ r.input_cost = cost
       /\ SameClient(r, cl) /\ r.written = cl.written /\ r.discarded = cl.discarded
       /\ r.outgoing = cl.outgoing /\ r.unsent = cl.unsent /\ r.ack = cl.ack
       /\ SameEnds(r, cl)
  BY <1>1, <1>5 DEF Clients, SameClient, SameEnds
<1>11. Queue(r) /\ Acknowledgements(r) /\ Records(r)
  BY <1>1, <1>10 DEF Queue, Acknowledgements, Records, SameClient, SameEnds
<1>12. \A i \in 2 .. Len(Append(s, 0)) : Append(s, 0)[i] = 0
  <2> TAKE i \in 2 .. Len(Append(s, 0))
  <2>1. CASE i = Len(s) + 1
    BY <1>2, <2>1
  <2>2. CASE i \in 2 .. Len(s)
    BY <1>2, <1>6, <2>2
  <2> QED
    BY <1>2, <2>1, <2>2
<1>13. Inputs(r)
  <2>1. ~ r.closing /\ ~ r.gone
    BY <1>10 DEF SameClient
  <2> QED
    BY <1>7, <1>8, <1>10, <1>12, <2>1 DEF Inputs
<1>14. Len(r.input) = Len(cl.input) + 1
  BY <1>2, <1>10 DEF s
<1> QED
  BY <1>9, <1>10, <1>11, <1>13, <1>14 DEF ClientOK

\* handle_read: the stream begins.
LEMMA TakeRead ==
    ASSUME NEW cl, ClientOK(cl), ~ cl.closing, NEW r, r = [cl EXCEPT !.reading = TRUE]
    PROVE  /\ ClientOK(r) /\ r.reading = TRUE
           /\ r.conn = cl.conn /\ r.closing = cl.closing /\ r.gone = cl.gone
           /\ r.cursor = cl.cursor /\ r.record = cl.record /\ r.input = cl.input
           /\ r.written = cl.written /\ r.discarded = cl.discarded
<1>1. cl \in Clients /\ Queue(cl) /\ Acknowledgements(cl) /\ Records(cl) /\ Inputs(cl)
  BY DEF ClientOK
<1>2. r \in Clients
  BY <1>1 DEF Clients
<1>3. /\ r.reading = TRUE
      /\ r.conn = cl.conn /\ r.closing = cl.closing /\ r.gone = cl.gone
      /\ r.cursor = cl.cursor /\ r.record = cl.record /\ r.input = cl.input
      /\ r.written = cl.written /\ r.discarded = cl.discarded
      /\ r.outgoing = cl.outgoing /\ r.unsent = cl.unsent /\ r.ack = cl.ack
      /\ r.first = cl.first /\ r.last = cl.last /\ r.input_cost = cl.input_cost
  BY <1>1 DEF Clients
<1>4. Queue(r) /\ Acknowledgements(r) /\ Records(r)
  BY <1>1, <1>3 DEF Queue, Acknowledgements, Records
<1>5. Inputs(r)
  BY <1>1, <1>3 DEF Inputs
<1> QED
  BY <1>2, <1>3, <1>4, <1>5 DEF ClientOK

\* close_client: the connection ended, and nothing more is written to it.
LEMMA CloseClient ==
    ASSUME NEW cl, ClientOK(cl),
           NEW r, r = [cl EXCEPT !.gone = TRUE, !.input = <<>>, !.input_cost = 0,
                                 !.outgoing = <<>>, !.unsent = 0]
    PROVE  /\ ClientOK(r) /\ r.gone = TRUE
           /\ r.conn = cl.conn /\ r.closing = cl.closing /\ r.reading = cl.reading
           /\ r.cursor = cl.cursor
<1>1. cl \in Clients /\ Queue(cl) /\ Acknowledgements(cl) /\ Records(cl) /\ Inputs(cl)
  BY DEF ClientOK
<1>2. <<>> \in Seq(Framed) /\ <<>> \in Seq(Written) /\ 0 \in Nat
  OBVIOUS
<1>3. r \in Clients
  BY <1>1, <1>2 DEF Clients, Framed, Written
<1>4. /\ r.gone = TRUE /\ r.outgoing = <<>> /\ r.unsent = 0 /\ r.input = <<>> /\ r.input_cost = 0
      /\ r.conn = cl.conn /\ r.closing = cl.closing /\ r.reading = cl.reading
      /\ r.cursor = cl.cursor /\ r.ack = cl.ack
      /\ r.written = cl.written /\ r.discarded = cl.discarded
  BY <1>1 DEF Clients
<1>5. Queue(r)
  <2>1. Shape(<<>>, r.closing)
    BY DEF Shape
  <2>2. Unsent(OfKind(<<>>, Others)) <= Bound
    BY OfKindOfNone, UnsentOfNone, BoundIs
  <2> QED
    BY <1>4, <2>1, <2>2, UnsentOfNone DEF Queue
<1>6. Acknowledgements(r)
  <2>1. Told(<<>>, r.ack, r.written + r.discarded)
    <3>1. cl.ack <= cl.written + cl.discarded
      BY <1>1 DEF Acknowledgements, Told
    <3> QED
      BY <1>4, <3>1 DEF Told
  <2> QED
    BY <1>4, <2>1 DEF Acknowledgements
<1>7. Records(r) /\ Inputs(r)
  <2>1. 0 <= MAX_PENDING_INPUT
    BY HostConstants
  <2> QED
    BY <1>1, <1>4, <2>1, CostsOfNone DEF Records, Inputs
<1> QED
  BY <1>3, <1>4, <1>5, <1>6, <1>7 DEF ClientOK

LEMMA SingleType ==
    ASSUME NEW x \in Framed
    PROVE  <<x>> \in Seq(Framed) /\ Len(<<x>>) = 1 /\ <<x>>[1] = x
           /\ <<x>> = Cons(x, <<>>) /\ <<x>> = Append(<<>>, x)
<1>1. <<x>> \in Seq(Framed) /\ Len(<<x>>) = 1 /\ <<x>>[1] = x
  OBVIOUS
<1>2. <<x>> = Append(<<>>, x)
  OBVIOUS
<1>3. Cons(x, <<>>) = Append(<<>>, x)
  BY ConsOfNone
<1> QED
  BY <1>1, <1>2, <1>3

\* A new client is told of nothing but the version.
LEMMA ClientIsNew ==
    ASSUME NEW c \in Conns
    PROVE  LET r == NewClient(c)
           IN  /\ ClientOK(r) /\ r.conn = c /\ r.closing = FALSE /\ r.gone = FALSE
               /\ r.reading = FALSE /\ r.cursor = 0 /\ r.record = 0 /\ r.input = <<>>
               /\ r.written = 0 /\ r.discarded = 0
<1> DEFINE r == NewClient(c)
           x == Out("Welcome", 0)
           q == <<x>>
<1>1. x \in Framed /\ x.kind = "Welcome" /\ x.written = 0
  BY OutType DEF Kinds
<1>2. FRAME \in Nat /\ FRAME - 0 = FRAME /\ <<>> \in Seq(Written)
  BY HostConstants
<1>3. r = [conn |-> c, outgoing |-> q, unsent |-> FRAME, reading |-> FALSE,
           cursor |-> 0, input |-> <<>>, input_cost |-> 0, written |-> 0, discarded |-> 0,
           closing |-> FALSE, gone |-> FALSE,
           first |-> None, last |-> None, ack |-> 0, record |-> 0]
  BY DEF NewClient
<1> HIDE DEF x
<1>4. q \in Seq(Framed) /\ Len(q) = 1 /\ q[1] = x /\ q = Append(<<>>, x) /\ <<>> \in Seq(Framed)
  BY <1>1, SingleType
<1> HIDE DEF q, r
<1>5. r \in Clients
  BY <1>2, <1>3, <1>4 DEF Clients, Framed, Written
<1>6. /\ r.conn = c /\ r.closing = FALSE /\ r.gone = FALSE /\ r.reading = FALSE
      /\ r.cursor = 0 /\ r.record = 0 /\ r.input = <<>> /\ r.input_cost = 0
      /\ r.written = 0 /\ r.discarded = 0 /\ r.ack = 0
      /\ r.outgoing = q /\ r.unsent = FRAME /\ r.first = None /\ r.last = None
  BY <1>3
<1>7. Shape(q, FALSE)
  BY <1>1, <1>4 DEF Shape, LastFrames
<1>8. Unsent(q) = FRAME
  <2>1. Unsent(Append(<<>>, x)) = Unsent(<<>>) + (FRAME - x.written)
    BY <1>1, <1>4, UnsentOfAppend
  <2> QED
    BY <1>1, <1>2, <1>4, <2>1, UnsentOfNone
<1>9. Unsent(OfKind(q, Others)) <= Bound
  <2>1. OthersUnsent(q) \in Nat /\ OthersUnsent(q) <= Unsent(q)
    BY <1>4, OthersOfKind
  <2>2. Bound \in Nat /\ FRAME + FRAME <= Bound
    BY BoundIs
  <2>3. OthersUnsent(q) <= Bound
    BY <1>2, <1>8, <2>1, <2>2
  <2> QED
    BY <2>3 DEF OthersUnsent
<1>10. Queue(r)
  <2>1. r.last \notin LastFrames
    BY <1>6, NoneIsNothing DEF LastFrames, Kinds
  <2>2. Len(q) > 0 /\ q[1].kind = "Welcome"
    BY <1>1, <1>4
  <2> QED
    BY <1>6, <1>7, <1>8, <1>9, <2>1, <2>2 DEF Queue
<1>11. Acknowledgements(r)
  <2>1. Told(q, 0, 0)
    BY <1>1, <1>4 DEF Told, IsAck
  <2>2. ToldAll(q, 0, 0)
    BY DEF ToldAll
  <2>3. 0 + 0 = 0
    OBVIOUS
  <2> QED
    BY <1>6, <2>1, <2>2, <2>3 DEF Acknowledgements
<1>12. Records(r)
  <2>1. OfKind(Append(<<>>, x), {"Record"}) = OfKind(<<>>, {"Record"})
    BY <1>1, <1>4, OfKindOfAppend
  <2>2. OfKind(q, {"Record"}) = <<>>
    BY <1>4, <2>1, OfKindOfNone
  <2>3. Streamed(q, 0, 0)
    BY <2>2 DEF Streamed
  <2> QED
    BY <1>6, <2>3 DEF Records
<1>13. Inputs(r)
  <2>1. 0 <= MAX_PENDING_INPUT
    BY HostConstants
  <2> QED
    BY <1>6, <2>1, CostsOfNone DEF Inputs
<1> QED
  BY <1>5, <1>6, <1>10, <1>11, <1>12, <1>13 DEF ClientOK, r

\* end_connection: what was not started is dropped, and the last frame queued.
LEMMA EndConnection ==
    ASSUME NEW cl, ClientOK(cl), ~ cl.closing, NEW kind \in LastFrames,
           NEW r, r = end_connection(cl, kind)
    PROVE  /\ ClientOK(r) /\ r.closing = TRUE /\ r.reading = FALSE
           /\ r.conn = cl.conn /\ r.gone = cl.gone /\ r.cursor = cl.cursor
<1>1. cl \in Clients /\ Queue(cl) /\ Acknowledgements(cl) /\ Records(cl) /\ Inputs(cl)
  BY DEF ClientOK
<1> DEFINE q == cl.outgoing
           kept == drop_unstarted(q)
           x == Out(kind, 0)
           quiet == [cl EXCEPT !.input = <<>>, !.input_cost = 0, !.reading = FALSE,
                               !.outgoing = kept, !.unsent = Unsent(kept)]
           all == cl.written + cl.discarded
           a == cl.ack
<1>2. q \in Seq(Framed) /\ cl.unsent \in Nat /\ all \in Nat /\ a \in Nat /\ cl.gone \in BOOLEAN
  <2>1. cl.written \in Nat /\ cl.discarded \in Nat
    BY <1>1, ClientType
  <2> QED
    BY <1>1, <2>1, ClientType
<1>3. Shape(q, FALSE) /\ cl.closing = FALSE
  <2>1. cl.closing = FALSE
    BY <1>1, ClientType
  <2> QED
    BY <1>1, <2>1 DEF Queue
<1>4. Told(q, a, all)
  BY <1>1 DEF Acknowledgements
<1>5. r = [queue(quiet, x) EXCEPT !.closing = TRUE]
  BY DEF end_connection
<1>6. FRAME \in Nat /\ FRAME - 0 = FRAME /\ Bound \in Nat /\ FRAME + FRAME <= Bound
  BY HostConstants, BoundIs
<1>7. <<>> \in Seq(Framed) /\ <<>> \in Seq(Written) /\ 0 \in Nat
  OBVIOUS
<1>8. kept = IF q # <<>> /\ (q[1].written > 0 \/ q[1].kind = "Welcome") THEN <<q[1]>> ELSE <<>>
  BY <1>2, <1>3, DropUnstarted
<1>9. kept = <<>> \/ (q # <<>> /\ kept = <<q[1]>>)
  BY <1>8
<1> HIDE DEF q, kept, x, all, a
<1>10. x \in Framed /\ x.kind = kind /\ x.written = 0
  BY OutType DEF x, LastFrames, Kinds
<1>11. ~ IsAck(x) /\ x.kind # "Welcome" /\ x.kind \in LastFrames
  BY <1>10 DEF IsAck, LastFrames
<1>12. kept \in Seq(Framed) /\ Len(kept) <= 1 /\ Unsent(kept) \in Nat /\ Unsent(kept) <= FRAME
  <2>1. CASE kept = <<>>
    BY <1>6, <1>7, <2>1, UnsentOfNone
  <2>2. CASE q # <<>> /\ kept = <<q[1]>>
    <3> DEFINE h == q[1]
    <3>1. h \in Framed
      BY <1>2, <2>2
    <3>2. kept = <<h>>
      BY <2>2
    <3> HIDE DEF h
    <3>3. kept \in Seq(Framed) /\ Len(kept) = 1 /\ kept = Append(<<>>, h)
      BY <3>1, <3>2, SingleType
    <3>4. Unsent(Append(<<>>, h)) = Unsent(<<>>) + (FRAME - h.written)
      BY <1>7, <3>1, UnsentOfAppend
    <3>5. h.written \in 0 .. (FRAME - 1) /\ FRAME - h.written \in Nat
      BY <3>1, FrameType
    <3>6. Unsent(kept) = FRAME - h.written
      BY <3>3, <3>4, <3>5, UnsentOfNone
    <3>7. FRAME - h.written <= FRAME
      BY <1>6, <3>5
    <3> QED
      BY <3>3, <3>5, <3>6, <3>7
  <2> QED
    BY <1>9, <2>1, <2>2
<1>13. /\ quiet.outgoing = kept /\ quiet.unsent = Unsent(kept) /\ quiet.input = <<>>
       /\ quiet.input_cost = 0 /\ quiet.reading = FALSE
       /\ quiet.conn = cl.conn /\ quiet.gone = cl.gone /\ quiet.cursor = cl.cursor
       /\ quiet.written = cl.written /\ quiet.discarded = cl.discarded
       /\ quiet.ack = cl.ack /\ quiet.record = cl.record
       /\ quiet.first = cl.first /\ quiet.last = cl.last
  BY <1>1 DEF Clients
<1>14. quiet \in Clients
  BY <1>1, <1>7, <1>12 DEF Clients, Framed, Written
<1> HIDE DEF quiet
<1> DEFINE Kept(out, unsent) ==
        /\ r \in Clients /\ r.closing = TRUE /\ r.outgoing = out /\ r.unsent = unsent
        /\ r.input = <<>> /\ r.input_cost = 0 /\ r.reading = FALSE
        /\ r.conn = cl.conn /\ r.gone = cl.gone /\ r.cursor = cl.cursor
        /\ r.written = cl.written /\ r.discarded = cl.discarded /\ r.ack = cl.ack
        /\ r.first = cl.first /\ r.last = cl.last
<1>15. Inputs(r) /\ Records(r)
       <=> r.input_cost = Costs(r.input) /\ r.input_cost <= MAX_PENDING_INPUT
           /\ (\A i \in 2 .. Len(r.input) : r.input[i] = 0)
           /\ (r.closing \/ r.gone => r.input = <<>>) /\ (r.closing => ~ r.reading) /\ Records(r)
  BY DEF Inputs
<1>16. ASSUME NEW out, NEW unsent, Kept(out, unsent) PROVE Inputs(r) /\ Records(r)
  <2>1. 0 <= MAX_PENDING_INPUT
    BY HostConstants
  <2> QED
    BY <1>16, <2>1, CostsOfNone DEF Inputs, Records
<1>17. CASE cl.gone
  <2>1. q = <<>>
    BY <1>1, <1>17 DEF Queue, q
  <2>2. kept = <<>>
    BY <1>8, <2>1
  <2>3. r = [quiet EXCEPT !.closing = TRUE]
    BY <1>5, <1>13, <1>17 DEF queue
  <2>4. r \in Clients
    BY <1>14, <2>3 DEF Clients
  <2>5. Kept(<<>>, 0)
    <3>1. quiet.outgoing = <<>> /\ quiet.unsent = 0
      BY <1>13, <2>2, UnsentOfNone
    <3> QED
      BY <1>13, <1>14, <2>3, <2>4, <3>1 DEF Clients
  <2>6. Queue(r)
    <3>1. Shape(<<>>, TRUE)
      BY DEF Shape
    <3>2. Unsent(OfKind(<<>>, Others)) <= Bound
      BY <1>6, OfKindOfNone, UnsentOfNone
    <3> QED
      BY <1>17, <2>5, <3>1, <3>2, UnsentOfNone DEF Queue
  <2>7. Acknowledgements(r)
    <3>1. Told(<<>>, a, all)
      BY <1>4, <2>1
    <3> QED
      BY <2>5, <3>1 DEF Acknowledgements, a, all
  <2>8. Inputs(r) /\ Records(r)
    BY <1>16, <2>5
  <2> QED
    BY <2>5, <2>6, <2>7, <2>8 DEF ClientOK
<1>18. CASE ~ cl.gone
  <2> DEFINE out == Append(kept, x)
             unsent == Unsent(kept) + FRAME
  <2>1. out \in Seq(Framed) /\ unsent \in Nat
    BY <1>6, <1>10, <1>12
  <2>2. queue(quiet, x) = [quiet EXCEPT !.outgoing = out, !.unsent = unsent]
    BY <1>13, <1>18 DEF queue
  <2>3. Unsent(out) = unsent
    <3>1. Unsent(out) = Unsent(kept) + (FRAME - x.written)
      BY <1>10, <1>12, UnsentOfAppend
    <3> QED
      BY <1>6, <1>10, <3>1
  <2>4. unsent <= Bound
    BY <1>6, <1>12
  <2>5. Shape(kept, FALSE)
    <3>1. CASE kept = <<>>
      BY <3>1 DEF Shape
    <3>2. CASE q # <<>> /\ kept = <<q[1]>>
      <4>1. 1 \in 1 .. Len(q) /\ Len(kept) = 1 /\ kept[1] = q[1]
        BY <1>2, <3>2
      <4>2. q[1].kind \notin LastFrames
        BY <1>3, <4>1 DEF Shape
      <4> QED
        BY <4>1, <4>2 DEF Shape
    <3> QED
      BY <1>9, <3>1, <3>2
  <2>6. Shape(out, TRUE)
    BY <1>10, <1>11, <1>12, <2>5, ShapeOfLast
  <2>7. Told(out, a, all)
    <3>1. Told(kept, a, all)
      BY <1>2, <1>4, <1>9, ToldOfFirst
    <3> QED
      BY <1>2, <1>10, <1>11, <1>12, <3>1, ToldOfAppend
  <2>8. OthersUnsent(out) <= Bound
    <3>1. OthersUnsent(out) \in Nat /\ OthersUnsent(out) <= Unsent(out)
      BY <2>1, OthersOfKind
    <3> HIDE DEF out, unsent
    <3> QED
      BY <1>6, <2>1, <2>3, <2>4, <3>1
  <2>9. Len(q) > 0 /\ q[1].kind = "Welcome" <=> Len(out) > 0 /\ out[1].kind = "Welcome"
    <3>1. CASE kept = <<>>
      <4>1. Len(out) = 1 /\ out[1] = x
        BY <3>1
      <4>2. ~ (Len(q) > 0 /\ q[1].kind = "Welcome")
        <5>1. Len(q) > 0 => q # <<>>
          OBVIOUS
        <5>2. <<q[1]>> # <<>>
          OBVIOUS
        <5> QED
          BY <1>8, <3>1, <5>1, <5>2
      <4> QED
        BY <1>11, <4>1, <4>2
    <3>2. CASE q # <<>> /\ kept = <<q[1]>>
      <4>1. Len(q) > 0 /\ Len(kept) = 1 /\ kept[1] = q[1]
        BY <1>2, <3>2
      <4>2. Len(out) > 0 /\ out[1] = kept[1]
        <5> HIDE DEF out
        <5>1. out = Append(kept, x)
          BY DEF out
        <5> QED
          BY <1>10, <1>12, <4>1, <5>1
      <4> QED
        BY <4>1, <4>2, Zenon
    <3> QED
      BY <1>9, <3>1, <3>2
  <2> HIDE DEF out, unsent
  <2>10. Kept(out, unsent)
    <3> DEFINE s == [quiet EXCEPT !.outgoing = out, !.unsent = unsent]
    <3>1. s \in Clients
      BY <1>14, <2>1 DEF Clients, Framed
    <3>2. r = [s EXCEPT !.closing = TRUE]
      BY <1>5, <2>2
    <3>3. /\ s.outgoing = out /\ s.unsent = unsent /\ s.input = <<>>
          /\ s.input_cost = 0 /\ s.reading = FALSE
          /\ s.conn = cl.conn /\ s.gone = cl.gone /\ s.cursor = cl.cursor
          /\ s.written = cl.written /\ s.discarded = cl.discarded /\ s.ack = cl.ack
          /\ s.first = cl.first /\ s.last = cl.last
      BY <1>13, <1>14 DEF Clients
    <3> HIDE DEF s
    <3>4. r \in Clients
      BY <3>1, <3>2 DEF Clients
    <3> QED
      BY <3>1, <3>2, <3>3, <3>4 DEF Clients
  <2>11. Queue(r)
    <3>1. /\ cl.first \in {None, "Welcome"}
          /\ (cl.first = None) <=> (Len(q) > 0 /\ q[1].kind = "Welcome")
          /\ cl.last \notin LastFrames
      BY <1>1, <1>18 DEF Queue, q
    <3>2. Shape(r.outgoing, r.closing)
      BY <2>6, <2>10
    <3>3. r.unsent = Unsent(r.outgoing) /\ Unsent(OfKind(r.outgoing, Others)) <= Bound
      BY <2>3, <2>8, <2>10 DEF OthersUnsent
    <3>4. /\ r.first \in {None, "Welcome"}
          /\ (r.first = None) <=> (Len(r.outgoing) > 0 /\ r.outgoing[1].kind = "Welcome")
          /\ r.last \notin LastFrames
      BY <2>9, <2>10, <3>1
    <3>5. ~ r.gone
      BY <1>18, <2>10
    <3> QED
      BY <3>2, <3>3, <3>4, <3>5, Zenon DEF Queue
  <2>12. Acknowledgements(r)
    BY <2>7, <2>10 DEF Acknowledgements, a, all
  <2>13. Inputs(r) /\ Records(r)
    BY <1>16, <2>10
  <2> QED
    BY <2>10, <2>11, <2>12, <2>13 DEF ClientOK
<1> QED
  BY <1>17, <1>18

\* write_client, as far as the socket takes the frame at the front.
LEMMA WriteFrontOK ==
    ASSUME NEW cl, ClientOK(cl), cl.outgoing # <<>>, NEW h, h = cl.outgoing[1],
           NEW n \in Nat, n <= FRAME - h.written, NEW r, r = WriteFront(cl, n)
    PROVE  /\ ClientOK(r)
           /\ r.conn = cl.conn /\ r.reading = cl.reading /\ r.cursor = cl.cursor
           /\ r.closing = cl.closing /\ r.gone = cl.gone /\ r.input = cl.input
           /\ r.written = cl.written /\ r.discarded = cl.discarded
           /\ r.record = IF h.written + n = FRAME /\ h.kind = "Record" THEN h.value ELSE cl.record
           /\ ~ cl.closing /\ h.kind = "Record" => h.value = cl.record + 1 /\ h.value <= cl.cursor
<1>1. cl \in Clients /\ Queue(cl) /\ Acknowledgements(cl) /\ Records(cl) /\ Inputs(cl)
  BY DEF ClientOK
<1> DEFINE q == cl.outgoing
           t == Tail(q)
           all == cl.written + cl.discarded
           a == cl.ack
           b == cl.record
           c == cl.cursor
<1>2. /\ q \in Seq(Framed) /\ cl.unsent \in Nat /\ all \in Nat /\ a \in Nat /\ b \in Nat /\ c \in Nat
      /\ cl.closing \in BOOLEAN
  <2>1. cl.written \in Nat /\ cl.discarded \in Nat
    BY <1>1, ClientType
  <2> QED
    BY <1>1, <2>1, ClientType
<1>3. h \in Framed /\ t \in Seq(Framed) /\ q = Cons(h, t)
  BY <1>2, ConsOfTail
<1>4. Head(q) = h
  BY <1>2
<1>5. ~ cl.gone
  BY <1>1 DEF Queue
<1>6. r = IF h.written + n < FRAME
          THEN [cl EXCEPT !.outgoing = [q EXCEPT ![1] = [h EXCEPT !.written = h.written + n]],
                          !.unsent = cl.unsent - n]
          ELSE [cl EXCEPT !.outgoing = t, !.unsent = cl.unsent - n,
                          !.first = IF cl.first = None THEN h.kind ELSE cl.first,
                          !.last = h.kind,
                          !.ack = IF h.kind = "InputAck" THEN h.value ELSE a,
                          !.record = IF h.kind = "Record" THEN h.value ELSE b]
  <2>1. h = q[1]
    OBVIOUS
  <2> HIDE DEF q
  <2>2. cl.outgoing = q
    BY DEF q
  <2> QED
    BY <1>4, <2>1, <2>2 DEF WriteFront
<1>7. /\ Shape(q, cl.closing) /\ cl.unsent = Unsent(q) /\ OthersUnsent(q) <= Bound
      /\ cl.first \in {None, "Welcome"}
      /\ (cl.first = None) <=> (Len(q) > 0 /\ q[1].kind = "Welcome")
      /\ cl.last \notin LastFrames
  BY <1>1, <1>5 DEF Queue, OthersUnsent
<1>8. /\ (~ cl.closing) => ToldAll(q, a, all)
      /\ (~ cl.closing) => Streamed(q, b, c)
  BY <1>1, <1>5 DEF Acknowledgements, Records
<1>9. Told(q, a, all)
  BY <1>1 DEF Acknowledgements
<1> HIDE DEF q, t, all, a, b, c
<1>10. h.written \in Nat /\ h.kind \in Kinds /\ h.value \in Nat /\ FRAME \in Nat
       /\ FRAME - h.written \in Nat /\ FRAME - h.written > 0
  BY <1>3, FrameType, HostConstants
<1>11. Unsent(q) = (FRAME - h.written) + Unsent(t) /\ Unsent(t) \in Nat
  BY <1>3, UnsentFromFirst, UnsentType
<1>12. OthersUnsent(q) = OthersUnsent(t) + (IF IsAck(h) THEN 0 ELSE FRAME - h.written)
       /\ OthersUnsent(t) \in Nat
  <2>1. OthersUnsent(t) \in Nat
    BY <1>3, OthersOfKind
  <2> QED
    BY <1>3, <2>1, OthersFromFirst
<1>13. cl.unsent - n \in Nat
  <2> DEFINE u == cl.unsent
             w == FRAME - h.written
             v == Unsent(t)
  <2>1. u = w + v /\ w \in Nat /\ v \in Nat /\ n <= w
    BY <1>7, <1>10, <1>11
  <2> HIDE DEF u, w, v
  <2>2. u - n \in Nat
    BY <2>1
  <2> QED
    BY <2>2 DEF u
<1>14. q[1] = h /\ Len(q) = Len(t) + 1 /\ Len(t) \in Nat /\ \A i \in 1 .. Len(t) : q[i + 1] = t[i]
  BY <1>3, FramesAt
<1>15. ~ cl.closing /\ h.kind = "Record" => h.value = cl.record + 1 /\ h.value <= cl.cursor
  <2>1. SUFFICES ASSUME ~ cl.closing, h.kind = "Record" PROVE h.value = b + 1 /\ h.value <= c
    BY DEF b, c
  <2>2. Streamed(Cons(h, t), b, c)
    BY <1>3, <1>8, <2>1
  <2> QED
    BY <1>2, <1>3, <2>1, <2>2, StreamedOfTail
<1>16. CASE h.written + n < FRAME
  <2> DEFINE k == [h EXCEPT !.written = h.written + n]
             p == Cons(k, t)
  <2>1. h.written + n \in 0 .. (FRAME - 1)
    BY <1>10, <1>16
  <2>2. k \in Framed /\ k.kind = h.kind /\ k.value = h.value /\ k.written = h.written + n
    BY <1>3, <2>1 DEF Framed
  <2>3. [q EXCEPT ![1] = k] = p
    <3>1. q # <<>>
      BY DEF q
    <3> HIDE DEF k
    <3>2. [q EXCEPT ![1] = k] = Cons(k, Tail(q))
      BY <1>2, <3>1, UpdateFirst
    <3> QED
      BY <3>2 DEF t
  <2>4. r = [cl EXCEPT !.outgoing = p, !.unsent = cl.unsent - n]
    BY <1>6, <1>16, <2>3
  <2> HIDE DEF k
  <2>5. p \in Seq(Framed) /\ p[1] = k /\ Len(p) = Len(t) + 1
    BY <1>3, <2>2, FramesAt, ConsAt
  <2> HIDE DEF p
  <2>6. r \in Clients
    BY <1>1, <1>13, <2>4, <2>5 DEF Clients, Framed
  <2>7. /\ r.outgoing = p /\ r.unsent = cl.unsent - n
        /\ r.conn = cl.conn /\ r.reading = cl.reading /\ r.cursor = cl.cursor
        /\ r.closing = cl.closing /\ r.gone = cl.gone /\ r.input = cl.input
        /\ r.input_cost = cl.input_cost
        /\ r.written = cl.written /\ r.discarded = cl.discarded
        /\ r.record = cl.record /\ r.ack = cl.ack /\ r.first = cl.first /\ r.last = cl.last
    BY <1>1, <2>4 DEF Clients
  <2>8. Shape(p, cl.closing)
    <3> DEFINE d == cl.closing
    <3>1. d \in BOOLEAN /\ Shape(Cons(h, t), d) /\ k.written >= h.written
      <4>1. k.written >= h.written
        BY <1>10, <2>2
      <4> QED
        BY <1>2, <1>3, <1>7, <4>1, Zenon
    <3> HIDE DEF d
    <3>2. Shape(Cons(k, t), d)
      BY <1>3, <2>2, <3>1, ShapeOfFront
    <3> QED
      BY <3>2 DEF d, p
  <2>9. Unsent(p) = cl.unsent - n
    <3>1. Unsent(p) = (FRAME - k.written) + Unsent(t)
      BY <1>3, <2>2, UnsentFromFirst DEF p
    <3> QED
      BY <1>7, <1>10, <1>11, <2>2, <3>1
  <2>10. OthersUnsent(p) <= Bound
    <3>1. OthersUnsent(p) = OthersUnsent(t) + IF IsAck(k) THEN 0 ELSE FRAME - k.written
      BY <1>3, <2>2, OthersFromFirst DEF p
    <3>2. IsAck(k) <=> IsAck(h)
      BY <2>2 DEF IsAck
    <3>3. Bound \in Nat
      BY BoundIs
    <3>4. CASE IsAck(h)
      BY <1>7, <1>12, <3>1, <3>2, <3>4
    <3>5. CASE ~ IsAck(h)
      <4> DEFINE o == OthersUnsent(t)
                 w == h.written
                 s == OthersUnsent(p)
      <4>1. o \in Nat /\ w \in Nat /\ o + (FRAME - w) <= Bound /\ FRAME \in Nat
        BY <1>7, <1>10, <1>12, <3>5
      <4>2. s = o + (FRAME - (w + n))
        BY <2>2, <3>1, <3>2, <3>5
      <4> HIDE DEF o, w, s
      <4>3. s <= Bound
        BY <3>3, <4>1, <4>2
      <4> QED
        BY <4>3 DEF s
    <3> QED
      BY <3>4, <3>5
  <2>11. Queue(r)
    <3>1. (r.first = None) <=> (Len(r.outgoing) > 0 /\ r.outgoing[1].kind = "Welcome")
      BY <1>7, <1>14, <2>2, <2>5, <2>7
    <3>2. r.unsent = Unsent(r.outgoing) /\ Unsent(OfKind(r.outgoing, Others)) <= Bound
      BY <2>7, <2>9, <2>10 DEF OthersUnsent
    <3>3. Shape(r.outgoing, r.closing) /\ ~ r.gone /\ r.first \in {None, "Welcome"}
          /\ r.last \notin LastFrames
      BY <1>5, <1>7, <2>7, <2>8
    <3> QED
      BY <3>1, <3>2, <3>3, Zenon DEF Queue
  <2>12. Told(p, a, all) /\ (ToldAll(q, a, all) => ToldAll(p, a, all))
    BY <1>2, <1>3, <1>9, <2>2, ToldOfFront DEF p
  <2>13. Acknowledgements(r)
    <3>1. Told(r.outgoing, r.ack, r.written + r.discarded)
      BY <2>7, <2>12 DEF a, all
    <3>2. ~ r.closing => ToldAll(r.outgoing, r.ack, r.written + r.discarded)
      BY <1>8, <2>7, <2>12 DEF a, all
    <3> QED
      BY <3>1, <3>2, Zenon DEF Acknowledgements
  <2>14. Records(r)
    <3>1. ASSUME ~ cl.closing PROVE Streamed(p, b, c)
      <4>1. Streamed(Cons(h, t), b, c)
        BY <1>3, <1>8, <3>1
      <4> QED
        BY <1>2, <1>3, <2>2, <4>1, StreamedOfFront DEF p
    <3> QED
      BY <2>7, <3>1 DEF Records, b, c
  <2>15. Inputs(r)
    BY <1>1, <2>7 DEF Inputs
  <2>16. h.written + n # FRAME
    BY <1>10, <1>16
  <2> QED
    BY <1>15, <2>6, <2>7, <2>11, <2>13, <2>14, <2>15, <2>16 DEF ClientOK
<1>17. CASE ~ (h.written + n < FRAME)
  <2> DEFINE first == IF cl.first = None THEN h.kind ELSE cl.first
             now == IF h.kind = "InputAck" THEN h.value ELSE a
             record == IF h.kind = "Record" THEN h.value ELSE b
  <2>1. h.written + n = FRAME
    BY <1>10, <1>17
  <2>2. first = "Welcome"
    BY <1>7, <1>14
  <2>3. now \in Nat /\ record \in Nat
    BY <1>2, <1>10
  <2>4. r = [cl EXCEPT !.outgoing = t, !.unsent = cl.unsent - n, !.first = first,
                       !.last = h.kind, !.ack = now, !.record = record]
    BY <1>6, <1>17
  <2> HIDE DEF first, now, record
  <2>5. r \in Clients
    <3>1. first \in Kinds \cup {None} /\ h.kind \in Kinds \cup {None}
      BY <1>10, <2>2 DEF Kinds
    <3> DEFINE kind == h.kind
               u == cl.unsent - n
    <3>2. cl \in Clients /\ t \in Seq(Framed) /\ u \in Nat
      BY <1>1, <1>3, <1>13
    <3>3. first \in Kinds \cup {None} /\ kind \in Kinds \cup {None}
      BY <3>1
    <3>4. r = [cl EXCEPT !.outgoing = t, !.unsent = u, !.first = first,
                         !.last = kind, !.ack = now, !.record = record]
      BY <2>4
    <3> HIDE DEF kind, u
    <3> QED
      BY ONLY <2>3, <3>2, <3>3, <3>4 DEF Clients, Framed
  <2>6. /\ r.outgoing = t /\ r.unsent = cl.unsent - n
        /\ r.conn = cl.conn /\ r.reading = cl.reading /\ r.cursor = cl.cursor
        /\ r.closing = cl.closing /\ r.gone = cl.gone /\ r.input = cl.input
        /\ r.input_cost = cl.input_cost
        /\ r.written = cl.written /\ r.discarded = cl.discarded
        /\ r.record = record /\ r.ack = now /\ r.first = first /\ r.last = h.kind
    BY <1>1, <2>4 DEF Clients
  <2>7. Shape(t, cl.closing) /\ \A i \in 1 .. Len(t) : t[i].kind # "Welcome" /\ t[i].written = 0
    <3> DEFINE d == cl.closing
    <3>1. d \in BOOLEAN /\ Shape(Cons(h, t), d)
      BY <1>2, <1>3, <1>7
    <3> HIDE DEF d
    <3>2. Shape(t, d) /\ \A i \in 1 .. Len(t) : t[i].kind # "Welcome" /\ t[i].written = 0
      BY <1>3, <3>1, ShapeOfTail
    <3> QED
      BY <3>2 DEF d
  <2>8. Unsent(t) = cl.unsent - n
    BY <1>7, <1>10, <1>11, <2>1
  <2>9. OthersUnsent(t) <= Bound
    <3>1. Bound \in Nat
      BY BoundIs
    <3>2. CASE IsAck(h)
      BY <1>7, <1>12, <3>2
    <3>3. CASE ~ IsAck(h)
      BY <1>7, <1>10, <1>12, <3>1, <3>3
    <3> QED
      BY <3>2, <3>3
  <2>10. h.kind \in LastFrames => cl.closing /\ t = <<>>
    <3>1. 1 \in 1 .. Len(q)
      BY <1>14
    <3>2. h.kind \in LastFrames => cl.closing /\ 1 = Len(q)
      BY <1>7, <1>14, <3>1 DEF Shape
    <3>3. 1 = Len(q) => t = <<>>
      BY <1>3, <1>14
    <3> QED
      BY <3>2, <3>3
  <2>11. Queue(r)
    <3>1. ~ (Len(r.outgoing) > 0 /\ r.outgoing[1].kind = "Welcome")
      <4>1. Len(t) > 0 => 1 \in 1 .. Len(t)
        BY <1>14
      <4> QED
        BY <2>6, <2>7, <4>1
    <3>2. r.first # None /\ r.first \in {None, "Welcome"}
      BY <2>2, <2>6, NoneIsNothing DEF Kinds
    <3>3. r.unsent = Unsent(r.outgoing) /\ Unsent(OfKind(r.outgoing, Others)) <= Bound
      BY <2>6, <2>8, <2>9 DEF OthersUnsent
    <3>4. Shape(r.outgoing, r.closing) /\ ~ r.gone
      BY <1>5, <2>6, <2>7
    <3>5. r.last \in LastFrames => r.closing /\ r.outgoing = <<>>
      BY <2>6, <2>10
    <3> QED
      BY <3>1, <3>2, <3>3, <3>4, <3>5, Zenon DEF Queue
  <2>12. Told(t, now, all) /\ (ToldAll(q, a, all) => ToldAll(t, now, all))
    <3>1. now = IF IsAck(h) THEN h.value ELSE a
      BY DEF now, IsAck
    <3>2. Told(Cons(h, t), a, all)
      BY <1>3, <1>9
    <3>3. /\ Told(t, now, all)
          /\ ToldAll(Cons(h, t), a, all) => ToldAll(t, now, all)
      BY <1>2, <1>3, <2>3, <3>1, <3>2, ToldOfTail
    <3> QED
      BY <1>3, <3>3
  <2>13. Acknowledgements(r)
    <3>1. Told(r.outgoing, r.ack, r.written + r.discarded)
      BY <2>6, <2>12 DEF all
    <3>2. ~ r.closing => ToldAll(r.outgoing, r.ack, r.written + r.discarded)
      BY <1>8, <2>6, <2>12 DEF all
    <3> QED
      BY <3>1, <3>2, Zenon DEF Acknowledgements
  <2>14. Records(r)
    <3>1. ASSUME ~ cl.closing PROVE Streamed(t, record, c)
      <4>1. Streamed(Cons(h, t), b, c)
        BY <1>3, <1>8, <3>1
      <4>2. /\ h.kind = "Record" => h.value = b + 1 /\ Streamed(t, b + 1, c)
            /\ h.kind # "Record" => Streamed(t, b, c)
        BY <1>2, <1>3, <4>1, StreamedOfTail
      <4> QED
        BY <4>2 DEF record
    <3> QED
      BY <2>6, <3>1 DEF Records, c
  <2>15. Inputs(r)
    BY <1>1, <2>6 DEF Inputs
  <2>16. r.record = IF h.kind = "Record" THEN h.value ELSE cl.record
    BY <2>6 DEF record, b
  <2> QED
    BY <1>15, <2>1, <2>5, <2>6, <2>11, <2>13, <2>14, <2>15, <2>16 DEF ClientOK
<1> QED
  BY <1>16, <1>17

-----------------------------------------------------------------------------
(* The agenda: what is taken off it and what is put on it.                 *)

Then(s, t) == s \o t

LEMMA EntryType ==
    /\ \A e \in Entry : e.op \in Ops /\ e.conn \in Conns \cup {None} /\ e.n \in Nat
    /\ \A op \in Ops : Do(op) \in Entry /\ Do(op).op = op
    /\ \A c \in Conns : Serve(c) \in Entry /\ Serve(c).op = "read_pending" /\ Serve(c).conn = c
    /\ \A n \in Nat : Accept(n) \in Entry /\ Accept(n).op = "accept"
  BY DEF Entry, Ops, Do, Serve, Accept

LEMMA OpsOfAt ==
    ASSUME NEW t \in Seq(Entry)
    PROVE  /\ Len(t) \in Nat /\ DOMAIN t = 1 .. Len(t)
           /\ \A i \in 1 .. Len(t) : t[i] \in Entry /\ t[i].op \in OpsOf(t)
           /\ \A op : op \in OpsOf(t) <=> \E i \in 1 .. Len(t) : t[i].op = op
  BY DEF OpsOf

\* A handler is taken off the agenda.
LEMMA TailOK ==
    ASSUME NEW t, AgendaOK(t), t # <<>>, NEW r, r = Tail(t)
    PROVE  /\ AgendaOK(r)
           /\ t[1] \in Entry /\ Head(t) = t[1]
           /\ \A op : op \in OpsOf(t) <=> (op = t[1].op \/ op \in OpsOf(r))
           /\ \A i \in 1 .. Len(r) : r[i] = t[i + 1] /\ Before(t[1], r[i])
<1>1. t \in Seq(Entry)
  BY DEF AgendaOK
<1>2. /\ r \in Seq(Entry) /\ Len(r) \in Nat /\ Len(t) = Len(r) + 1
      /\ t[1] \in Entry /\ Head(t) = t[1]
      /\ DOMAIN t = 1 .. Len(t) /\ DOMAIN r = 1 .. Len(r)
  BY <1>1
<1>3. \A i \in 1 .. Len(r) : r[i] = t[i + 1] /\ i + 1 \in 1 .. Len(t)
  BY <1>1, <1>2
<1>4. \A i \in 1 .. Len(t) : i = 1 \/ (i - 1 \in 1 .. Len(r) /\ t[i] = r[i - 1])
  <2> TAKE i \in 1 .. Len(t)
  <2>1. CASE i # 1
    <3>1. i - 1 \in 1 .. Len(r) /\ (i - 1) + 1 = i
      BY <1>2, <2>1
    <3> QED
      BY <1>3, <3>1
  <2> QED
    BY <2>1
<1>5. 1 \in 1 .. Len(t)
  BY <1>2
<1>6. \A op : op \in OpsOf(t) <=> (op = t[1].op \/ op \in OpsOf(r))
  <2>1. \A op : op \in OpsOf(t) <=> \E i \in 1 .. Len(t) : t[i].op = op
    BY <1>1, OpsOfAt
  <2>2. \A op : op \in OpsOf(r) <=> \E i \in 1 .. Len(r) : r[i].op = op
    BY <1>2, OpsOfAt
  <2> TAKE op
  <2>3. ASSUME op \in OpsOf(t), op # t[1].op PROVE op \in OpsOf(r)
    <3>1. PICK i \in 1 .. Len(t) : t[i].op = op
      BY <2>1, <2>3
    <3>2. i - 1 \in 1 .. Len(r) /\ t[i] = r[i - 1]
      BY <1>4, <2>3, <3>1
    <3> QED
      BY <2>2, <3>1, <3>2
  <2>4. ASSUME op \in OpsOf(r) PROVE op \in OpsOf(t)
    <3>1. PICK i \in 1 .. Len(r) : r[i].op = op
      BY <2>2, <2>4
    <3> QED
      BY <1>3, <2>1, <3>1
  <2>5. t[1].op \in OpsOf(t)
    BY <1>5, <2>1
  <2> QED
    BY <2>3, <2>4, <2>5
<1>7. \A i, j \in 1 .. Len(t) : i < j => Before(t[i], t[j])
  BY <1>2 DEF AgendaOK, Ordered
<1>8. \A i \in 1 .. Len(r) : Before(t[1], r[i])
  <2> TAKE i \in 1 .. Len(r)
  <2>1. 1 < i + 1
    BY <1>2
  <2> QED
    BY <1>3, <1>5, <1>7, <2>1
<1>9. Asleep(r) \/ Busy(r)
  <2>1. CASE Asleep(t)
    <3> DEFINE a == Do("refill_outgoing")
               b == Do("poll")
    <3>1. t \in {<<a>>, <<a, b>>, <<b>>}
      BY <2>1 DEF Asleep
    <3> HIDE DEF a, b
    <3>2. r \in {<<>>, <<b>>}
      <4>1. t = <<a>> => r = <<>>
        OBVIOUS
      <4>2. t = <<b>> => r = <<>>
        OBVIOUS
      <4>3. t = <<a, b>> => r = <<b>>
        OBVIOUS
      <4> QED
        BY <3>1, <4>1, <4>2, <4>3
    <3> QED
      BY <3>2 DEF Asleep, b
  <2>2. CASE Busy(t) /\ Len(t) = 2
    <3>1. t[2] = Do("refill_outgoing")
      BY <2>2 DEF Busy
    <3>2. Len(r) = 1
      BY <1>2, <2>2
    <3>3. r[1] = t[2]
      <4>1. 1 \in 1 .. Len(r) /\ 1 + 1 = 2
        BY <3>2
      <4> QED
        BY <1>3, <4>1
    <3>4. r = <<r[1]>>
      <4> DEFINE e == r[1]
      <4>1. r # <<>> /\ Tail(r) = <<>>
        <5>1. r # <<>> /\ Tail(r) \in Seq(Entry) /\ Len(Tail(r)) = Len(r) - 1
          <6>1. r # <<>> /\ r \in Seq(Entry)
            <7>1. \A u \in Seq(Entry) : u = <<>> => Len(u) = 0
              OBVIOUS
            <7>2. Len(r) # 0
              BY <3>2
            <7> QED
              BY <1>2, <7>1, <7>2, Zenon
          <6> QED
            BY <6>1, TailAt
        <5> HIDE DEF e
        <5>2. \A u \in Seq(Entry) : Len(u) = 0 => u = <<>>
          OBVIOUS
        <5> QED
          BY <3>2, <5>1, <5>2
      <4>2. r = Cons(e, Tail(r))
        BY <1>2, <4>1, ConsOfTail
      <4>3. Cons(e, <<>>) = Append(<<>>, e)
        BY ConsOfNone
      <4> HIDE DEF e
      <4>4. Append(<<>>, e) = <<e>>
        OBVIOUS
      <4>5. r = <<e>>
        BY <4>1, <4>2, <4>3, <4>4, Zenon
      <4> QED
        BY <4>5 DEF e
    <3>5. r = <<Do("refill_outgoing")>>
      BY <3>1, <3>3, <3>4
    <3> QED
      BY <3>5 DEF Asleep
  <2>3. CASE Busy(t) /\ Len(t) # 2
    <3>1. Len(r) >= 2 /\ Len(r) - 1 \in 1 .. Len(r) /\ Len(r) \in 1 .. Len(r)
          /\ (Len(r) - 1) + 1 = Len(t) - 1
      BY <1>2, <2>3 DEF Busy
    <3>2. r[Len(r) - 1] = t[Len(t) - 1] /\ r[Len(r)] = t[Len(t)]
      BY <1>2, <1>3, <3>1
    <3>3. "poll" \notin OpsOf(r)
      BY <1>6, <2>3 DEF Busy
    <3> QED
      BY <2>3, <3>1, <3>2, <3>3 DEF Busy
  <2>4. Asleep(t) \/ Busy(t)
    BY DEF AgendaOK
  <2> QED
    BY <2>1, <2>2, <2>3, <2>4
<1>10. Ordered(r)
  <2> SUFFICES ASSUME NEW i \in 1 .. Len(r), NEW j \in 1 .. Len(r), i < j
               PROVE  Before(r[i], r[j])
    BY <1>2 DEF Ordered
  <2>1. i + 1 < j + 1
    BY <1>2
  <2> QED
    BY <1>3, <1>7, <2>1
<1>11. OpsOf(r) \cap Drains # {} => "finish_drain" \in OpsOf(r)
  <2>1. SUFFICES ASSUME NEW op \in Drains, op \in OpsOf(r) PROVE "finish_drain" \in OpsOf(r)
    OBVIOUS
  <2>2. "finish_drain" \in OpsOf(t)
    BY <1>6, <2>1 DEF AgendaOK
  <2>3. t[1].op # "finish_drain"
    <3>1. PICK i \in 1 .. Len(r) : r[i].op = op
      BY <1>2, <2>1, OpsOfAt
    <3> QED
      BY <1>8, <2>1, <3>1 DEF Before
  <2> QED
    BY <1>6, <2>2, <2>3
<1>12. "drain_signal_pipe" \in OpsOf(r) => "reap_child" \in OpsOf(r)
  <2>1. SUFFICES ASSUME "drain_signal_pipe" \in OpsOf(r) PROVE "reap_child" \in OpsOf(r)
    OBVIOUS
  <2>2. "reap_child" \in OpsOf(t)
    BY <1>6, <2>1 DEF AgendaOK
  <2>3. t[1].op # "reap_child"
    <3>1. PICK i \in 1 .. Len(r) : r[i].op = "drain_signal_pipe"
      BY <1>2, <2>1, OpsOfAt
    <3> QED
      BY <1>8, <3>1 DEF Before
  <2> QED
    BY <1>6, <2>2, <2>3
<1>13. \A i \in 1 .. Len(r) : r[i].op = "close_receive" =>
           /\ i + 1 \in 1 .. Len(r) /\ r[i + 1].op = "act_on_buffered"
           /\ "close_drop" \in OpsOf(r)
  <2> SUFFICES ASSUME NEW i \in 1 .. Len(r), r[i].op = "close_receive"
               PROVE  /\ i + 1 \in 1 .. Len(r) /\ r[i + 1].op = "act_on_buffered"
                      /\ "close_drop" \in OpsOf(r)
    OBVIOUS
  <2>1. /\ (i + 1) + 1 \in 1 .. Len(t) /\ t[(i + 1) + 1].op = "act_on_buffered"
        /\ "close_drop" \in OpsOf(t)
    BY <1>2, <1>3 DEF AgendaOK
  <2>2. i + 1 \in 1 .. Len(r)
    BY <1>2, <2>1
  <2>3. t[1].op = "act_on_buffered"
    BY <1>8 DEF Before
  <2> QED
    BY <1>3, <1>6, <2>1, <2>2, <2>3
<1>14. AgendaOK(r)
  BY <1>2, <1>9, <1>10, <1>11, <1>12, <1>13 DEF AgendaOK
<1> QED
  BY <1>2, <1>3, <1>6, <1>8, <1>14

LEMMA EntriesAt ==
    ASSUME NEW x \in Entry, NEW t \in Seq(Entry)
    PROVE  /\ Cons(x, t) \in Seq(Entry) /\ Len(Cons(x, t)) = Len(t) + 1
           /\ Cons(x, t)[1] = x
           /\ \A i \in 1 .. Len(t) : Cons(x, t)[i + 1] = t[i]
<1> DEFINE c == <<x>> \o t
<1>1. c \in Seq(Entry) /\ Len(c) = Len(t) + 1
  OBVIOUS
<1>2. c[1] = x
  OBVIOUS
<1>3. \A i \in 1 .. Len(t) : c[i + 1] = t[i]
  OBVIOUS
<1> QED
  BY <1>1, <1>2, <1>3 DEF Cons

\* A handler is put on it.
LEMMA PushOK ==
    ASSUME NEW t, AgendaOK(t), Busy(t), NEW x \in Entry, \A i \in 1 .. Len(t) : Before(x, t[i]),
           x.op # "poll",
           x.op \in Drains => "finish_drain" \in OpsOf(t),
           x.op = "drain_signal_pipe" => "reap_child" \in OpsOf(t),
           x.op = "close_receive" => t[1].op = "act_on_buffered" /\ "close_drop" \in OpsOf(t),
           NEW r, r = Cons(x, t)
    PROVE  /\ AgendaOK(r) /\ Busy(r) /\ r[1] = x
           /\ \A op : op \in OpsOf(r) <=> (op = x.op \/ op \in OpsOf(t))
           /\ \A i \in 1 .. Len(r) : r[i] = x \/ (i - 1 \in 1 .. Len(t) /\ r[i] = t[i - 1])
<1>1. t \in Seq(Entry) /\ Len(t) \in Nat /\ Len(t) >= 2 /\ DOMAIN t = 1 .. Len(t)
  BY DEF AgendaOK, Busy
<1>2. /\ r \in Seq(Entry) /\ Len(r) = Len(t) + 1 /\ r[1] = x
      /\ \A i \in 1 .. Len(t) : r[i + 1] = t[i]
  <2>1. /\ Cons(x, t) \in Seq(Entry) /\ Len(Cons(x, t)) = Len(t) + 1
        /\ Cons(x, t)[1] = x
        /\ \A i \in 1 .. Len(t) : Cons(x, t)[i + 1] = t[i]
    BY <1>1, EntriesAt, Zenon
  <2> QED
    BY <2>1, Zenon
<1>3. DOMAIN r = 1 .. Len(r) /\ 1 \in 1 .. Len(r)
  BY <1>1, <1>2
<1>4. \A i \in 1 .. Len(r) : i = 1 \/ (i - 1 \in 1 .. Len(t) /\ r[i] = t[i - 1])
  <2> TAKE i \in 1 .. Len(r)
  <2>1. CASE i # 1
    <3>1. i - 1 \in 1 .. Len(t) /\ (i - 1) + 1 = i
      BY <1>1, <1>2, <2>1
    <3> QED
      BY <1>2, <3>1
  <2> QED
    BY <2>1
<1>5. \A op : op \in OpsOf(r) <=> (op = x.op \/ op \in OpsOf(t))
  <2>1. \A op : op \in OpsOf(t) <=> \E i \in 1 .. Len(t) : t[i].op = op
    BY <1>1, OpsOfAt
  <2>2. \A op : op \in OpsOf(r) <=> \E i \in 1 .. Len(r) : r[i].op = op
    BY <1>2, OpsOfAt
  <2> TAKE op
  <2>3. ASSUME op \in OpsOf(r), op # x.op PROVE op \in OpsOf(t)
    <3>1. PICK i \in 1 .. Len(r) : r[i].op = op
      BY <2>2, <2>3
    <3>2. i - 1 \in 1 .. Len(t) /\ r[i] = t[i - 1]
      BY <1>2, <1>4, <2>3, <3>1
    <3> QED
      BY <2>1, <3>1, <3>2
  <2>4. ASSUME op \in OpsOf(t) PROVE op \in OpsOf(r)
    <3>1. PICK i \in 1 .. Len(t) : t[i].op = op
      BY <2>1, <2>4
    <3>2. i + 1 \in 1 .. Len(r) /\ r[i + 1] = t[i]
      BY <1>1, <1>2
    <3> QED
      BY <2>2, <3>1, <3>2
  <2>5. x.op \in OpsOf(r)
    BY <1>2, <1>3, <2>2
  <2> QED
    BY <2>3, <2>4, <2>5
<1>6. Busy(r)
  <2>1. Len(t) - 1 \in 1 .. Len(t) /\ Len(t) \in 1 .. Len(t) /\ (Len(t) - 1) + 1 = Len(r) - 1
    BY <1>1, <1>2
  <2>2. r[Len(r) - 1] = t[Len(t) - 1] /\ r[Len(r)] = t[Len(t)] /\ Len(r) >= 2
    BY <1>1, <1>2, <2>1
  <2> QED
    BY <1>5, <2>2 DEF Busy
<1>7. Ordered(r)
  <2> SUFFICES ASSUME NEW i \in 1 .. Len(r), NEW j \in 1 .. Len(r), i < j
               PROVE  Before(r[i], r[j])
    BY <1>3 DEF Ordered
  <2>1. j - 1 \in 1 .. Len(t) /\ r[j] = t[j - 1]
    BY <1>1, <1>2, <1>4
  <2>2. CASE i = 1
    BY <1>2, <2>1, <2>2
  <2>3. CASE i # 1
    <3>1. i - 1 \in 1 .. Len(t) /\ r[i] = t[i - 1] /\ i - 1 < j - 1
      BY <1>4, <2>3
    <3> QED
      BY <1>1, <2>1, <3>1 DEF AgendaOK, Ordered
  <2> QED
    BY <2>2, <2>3
<1>8. \A i \in 1 .. Len(r) : r[i].op = "close_receive" =>
           /\ i + 1 \in 1 .. Len(r) /\ r[i + 1].op = "act_on_buffered"
           /\ "close_drop" \in OpsOf(r)
  <2> SUFFICES ASSUME NEW i \in 1 .. Len(r), r[i].op = "close_receive"
               PROVE  /\ i + 1 \in 1 .. Len(r) /\ r[i + 1].op = "act_on_buffered"
                      /\ "close_drop" \in OpsOf(r)
    OBVIOUS
  <2>1. CASE i = 1
    <3>1. 1 \in 1 .. Len(t) /\ 1 + 1 \in 1 .. Len(r)
      BY <1>1, <1>2
    <3> QED
      BY <1>2, <1>5, <2>1, <3>1
  <2>2. CASE i # 1
    <3>1. i - 1 \in 1 .. Len(t) /\ r[i] = t[i - 1] /\ (i - 1) + 1 = i
      BY <1>4, <2>2
    <3>2. /\ i \in 1 .. Len(t) /\ t[i].op = "act_on_buffered" /\ "close_drop" \in OpsOf(t)
      BY <1>1, <3>1 DEF AgendaOK
    <3>3. i + 1 \in 1 .. Len(r)
      BY <1>1, <1>2, <3>2
    <3> QED
      BY <1>2, <1>5, <3>2, <3>3
  <2> QED
    BY <2>1, <2>2
<1>9. OpsOf(r) \cap Drains # {} => "finish_drain" \in OpsOf(r)
  BY <1>5 DEF AgendaOK
<1>10. "drain_signal_pipe" \in OpsOf(r) => "reap_child" \in OpsOf(r)
  BY <1>5 DEF AgendaOK
<1>11. AgendaOK(r)
  BY <1>2, <1>3, <1>6, <1>7, <1>8, <1>9, <1>10 DEF AgendaOK
<1> QED
  BY <1>2, <1>4, <1>5, <1>6, <1>11

\* The handler that runs calls one in its place.
LEMMA CallOne ==
    ASSUME NEW t, AgendaOK(t), t # <<>>, NEW x \in Entry,
           \/ t[1].op = "reap_child" /\ x.op = "read_pty"
           \/ t[1].op \in {"write_client", "read_client", "read_pending"}
              /\ x.op \in {"close_client", "act_on_buffered"}
           \/ t[1].op = "accept" /\ x.op = "accept",
           NEW r, r = Cons(x, Tail(t))
    PROVE  /\ AgendaOK(r) /\ Busy(r) /\ r # <<>> /\ r[1] = x
           /\ \A op : op \in OpsOf(r) <=> (op = x.op \/ op \in OpsOf(Tail(t)))
           /\ \A i \in 1 .. Len(r) : r[i] = x \/ (i - 1 \in 1 .. Len(Tail(t)) /\ r[i] = Tail(t)[i - 1])
<1> DEFINE u == Tail(t)
<1>1. /\ AgendaOK(u) /\ t[1] \in Entry
      /\ \A op : op \in OpsOf(t) <=> (op = t[1].op \/ op \in OpsOf(u))
      /\ \A i \in 1 .. Len(u) : u[i] = t[i + 1] /\ Before(t[1], u[i])
  BY TailOK
<1>2. t \in Seq(Entry) /\ u \in Seq(Entry) /\ Len(t) = Len(u) + 1 /\ Len(u) \in Nat
      /\ DOMAIN t = 1 .. Len(t)
  BY <1>1 DEF AgendaOK
<1> DEFINE v == Cons(x, u)
<1>3. r = v
  OBVIOUS
<1> HIDE DEF u, v
<1>4. Busy(t)
  <2>1. ~ Asleep(t)
    BY DEF Asleep, Do
  <2> QED
    BY <2>1 DEF AgendaOK
<1>5. Busy(u)
  <2>1. Len(t) # 2
    <3>1. t[Len(t) - 1].op = "act_on_buffered"
      BY <1>4 DEF Busy, Do
    <3> QED
      BY <1>2, <3>1
  <2>2. Len(u) >= 2 /\ Len(u) - 1 \in 1 .. Len(u) /\ Len(u) \in 1 .. Len(u)
        /\ (Len(u) - 1) + 1 = Len(t) - 1
    BY <1>2, <1>4, <2>1 DEF Busy
  <2>3. u[Len(u) - 1] = t[Len(t) - 1] /\ u[Len(u)] = t[Len(t)]
    BY <1>1, <1>2, <2>2
  <2> QED
    BY <1>1, <1>4, <2>2, <2>3 DEF Busy
<1>6. \A i \in 1 .. Len(u) : Before(x, u[i])
  <2> TAKE i \in 1 .. Len(u)
  <2>1. Before(t[1], u[i])
    BY <1>1
  <2> QED
    BY <2>1 DEF Before, Drains
<1>7. x.op \in Drains => "finish_drain" \in OpsOf(u)
  <2>1. SUFFICES ASSUME t[1].op = "reap_child" PROVE "finish_drain" \in OpsOf(u)
    BY DEF Drains
  <2>2. "finish_drain" \in OpsOf(t)
    BY <1>1, <2>1 DEF AgendaOK, Drains
  <2> QED
    BY <1>1, <2>1, <2>2
<1>8. x.op \notin {"poll", "drain_signal_pipe", "close_receive"}
  OBVIOUS
<1>9. /\ AgendaOK(v) /\ Busy(v) /\ v[1] = x
      /\ \A op : op \in OpsOf(v) <=> (op = x.op \/ op \in OpsOf(u))
      /\ \A i \in 1 .. Len(v) : v[i] = x \/ (i - 1 \in 1 .. Len(u) /\ v[i] = u[i - 1])
  <2>1. AgendaOK(u)
    BY <1>1
  <2>2. /\ x.op # "poll"
        /\ x.op = "drain_signal_pipe" => "reap_child" \in OpsOf(u)
        /\ x.op = "close_receive" => u[1].op = "act_on_buffered" /\ "close_drop" \in OpsOf(u)
    BY <1>8
  <2> QED
    BY <1>5, <1>6, <1>7, <2>1, <2>2, PushOK DEF v
<1>10. r # <<>>
  BY <1>3, <1>9 DEF Busy
<1> QED
  BY <1>3, <1>9, <1>10 DEF u

\* close_client calls four.
LEMMA CallClose ==
    ASSUME NEW t, AgendaOK(t), t # <<>>, t[1].op = "close_client",
           NEW r, r = Then(<<Do("act_on_buffered"), Do("close_receive"), Do("act_on_buffered"),
                             Do("close_drop")>>, Tail(t))
    PROVE  /\ AgendaOK(r) /\ Busy(r) /\ r # <<>> /\ r[1].op = "act_on_buffered"
           /\ \A op : op \in OpsOf(r) <=>
                          (op \in {"act_on_buffered", "close_receive", "close_drop"} \/ op \in OpsOf(Tail(t)))
           /\ \A i \in 1 .. Len(r) :
                  r[i].op \in {"act_on_buffered", "close_receive", "close_drop"}
                  \/ (\E j \in 1 .. Len(Tail(t)) : r[i] = Tail(t)[j])
<1> DEFINE u == Tail(t)
           a == Do("act_on_buffered")
           b == Do("close_receive")
           d == Do("close_drop")
           u1 == Cons(d, u)
           u2 == Cons(a, u1)
           u3 == Cons(b, u2)
           u4 == Cons(a, u3)
<1>1. /\ AgendaOK(u) /\ t[1] \in Entry
      /\ \A op : op \in OpsOf(t) <=> (op = t[1].op \/ op \in OpsOf(u))
      /\ \A i \in 1 .. Len(u) : u[i] = t[i + 1] /\ Before(t[1], u[i])
  BY TailOK
<1>2. t \in Seq(Entry) /\ u \in Seq(Entry) /\ Len(t) = Len(u) + 1 /\ Len(u) \in Nat
      /\ DOMAIN t = 1 .. Len(t)
  BY <1>1 DEF AgendaOK
<1>3. a \in Entry /\ b \in Entry /\ d \in Entry
      /\ a.op = "act_on_buffered" /\ b.op = "close_receive" /\ d.op = "close_drop"
  BY EntryType DEF Ops
<1>4. r = u4
  BY <1>2, <1>3 DEF Cons, Then
<1> HIDE DEF u, a, b, d
<1>5. Busy(t)
  <2>1. ~ Asleep(t)
    BY DEF Asleep, Do
  <2> QED
    BY <2>1 DEF AgendaOK
<1>6. Busy(u)
  <2>1. Len(t) # 2
    <3>1. t[Len(t) - 1].op = "act_on_buffered"
      BY <1>5 DEF Busy, Do
    <3> QED
      BY <1>2, <3>1
  <2>2. Len(u) >= 2 /\ Len(u) - 1 \in 1 .. Len(u) /\ Len(u) \in 1 .. Len(u)
        /\ (Len(u) - 1) + 1 = Len(t) - 1
    BY <1>2, <1>5, <2>1 DEF Busy
  <2>3. u[Len(u) - 1] = t[Len(t) - 1] /\ u[Len(u)] = t[Len(t)]
    BY <1>1, <1>2, <2>2
  <2> QED
    BY <1>1, <1>5, <2>2, <2>3 DEF Busy
<1>7. \A i \in 1 .. Len(u) : u[i].op \notin {"close_receive", "close_drop"}
  BY <1>1 DEF Before
<1> HIDE DEF u1, u2, u3, u4
<1>8. /\ AgendaOK(u1) /\ Busy(u1) /\ u1[1] = d
      /\ \A op : op \in OpsOf(u1) <=> (op = d.op \/ op \in OpsOf(u))
      /\ \A i \in 1 .. Len(u1) : u1[i] = d \/ (i - 1 \in 1 .. Len(u) /\ u1[i] = u[i - 1])
  <2>1. \A i \in 1 .. Len(u) : Before(d, u[i])
    BY <1>3, <1>7 DEF Before
  <2>2. d.op \notin Drains /\ d.op \notin {"poll", "drain_signal_pipe", "close_receive"}
    BY <1>3 DEF Drains
  <2> QED
    BY <1>1, <1>3, <1>6, <2>1, <2>2, PushOK DEF u1
<1>9. /\ AgendaOK(u2) /\ Busy(u2) /\ u2[1] = a
      /\ \A op : op \in OpsOf(u2) <=> (op = a.op \/ op \in OpsOf(u1))
      /\ \A i \in 1 .. Len(u2) : u2[i] = a \/ (i - 1 \in 1 .. Len(u1) /\ u2[i] = u1[i - 1])
  <2>1. \A i \in 1 .. Len(u1) : Before(a, u1[i])
    BY <1>3 DEF Before
  <2>2. a.op \notin Drains /\ a.op \notin {"poll", "drain_signal_pipe", "close_receive"}
    BY <1>3 DEF Drains
  <2> QED
    BY <1>3, <1>8, <2>1, <2>2, PushOK DEF u2
<1>10. /\ AgendaOK(u3) /\ Busy(u3) /\ u3[1] = b
       /\ \A op : op \in OpsOf(u3) <=> (op = b.op \/ op \in OpsOf(u2))
       /\ \A i \in 1 .. Len(u3) : u3[i] = b \/ (i - 1 \in 1 .. Len(u2) /\ u3[i] = u2[i - 1])
  <2>1. \A i \in 1 .. Len(u2) : u2[i].op # "close_receive"
    BY <1>3, <1>7, <1>8, <1>9
  <2>2. \A i \in 1 .. Len(u2) : Before(b, u2[i])
    BY <1>3, <2>1 DEF Before
  <2>3. b.op \notin Drains /\ b.op \notin {"poll", "drain_signal_pipe"}
    BY <1>3 DEF Drains
  <2>4. u2[1].op = "act_on_buffered" /\ "close_drop" \in OpsOf(u2)
    BY <1>3, <1>8, <1>9
  <2> QED
    BY <1>3, <1>9, <2>2, <2>3, <2>4, PushOK DEF u3
<1>11. /\ AgendaOK(u4) /\ Busy(u4) /\ u4[1] = a
       /\ \A op : op \in OpsOf(u4) <=> (op = a.op \/ op \in OpsOf(u3))
       /\ \A i \in 1 .. Len(u4) : u4[i] = a \/ (i - 1 \in 1 .. Len(u3) /\ u4[i] = u3[i - 1])
  <2>1. \A i \in 1 .. Len(u3) : Before(a, u3[i])
    BY <1>3 DEF Before
  <2>2. a.op \notin Drains /\ a.op \notin {"poll", "drain_signal_pipe", "close_receive"}
    BY <1>3 DEF Drains
  <2> QED
    BY <1>3, <1>10, <2>1, <2>2, PushOK DEF u4
<1>12. \A op : op \in OpsOf(r) <=>
                   (op \in {"act_on_buffered", "close_receive", "close_drop"} \/ op \in OpsOf(u))
  BY <1>3, <1>4, <1>8, <1>9, <1>10, <1>11
<1>13. ASSUME NEW i \in 1 .. Len(r)
       PROVE  r[i].op \in {"act_on_buffered", "close_receive", "close_drop"}
              \/ (\E j \in 1 .. Len(u) : r[i] = u[j])
  <2> DEFINE S == {e \in Entry : e.op \in {"act_on_buffered", "close_receive", "close_drop"}
                                 \/ (\E j \in 1 .. Len(u) : e = u[j])}
  <2>1. a \in S /\ b \in S /\ d \in S /\ \A j \in 1 .. Len(u) : u[j] \in S
    BY <1>2, <1>3
  <2> HIDE DEF S
  <2>2. \A k \in 1 .. Len(u1) : u1[k] \in S
    BY <1>8, <2>1
  <2>3. \A k \in 1 .. Len(u2) : u2[k] \in S
    BY <1>9, <2>1, <2>2
  <2>4. \A k \in 1 .. Len(u3) : u3[k] \in S
    BY <1>10, <2>1, <2>3
  <2>5. \A k \in 1 .. Len(u4) : u4[k] \in S
    BY <1>11, <2>1, <2>4
  <2>6. r[i] \in S
    BY <1>4, <2>5
  <2> QED
    BY <2>6 DEF S
<1>14. r # <<>>
  BY <1>4, <1>11 DEF Busy
<1> QED
  BY <1>3, <1>4, <1>11, <1>12, <1>13, <1>14 DEF u

-----------------------------------------------------------------------------
(* The agenda of an iteration.                                             *)

\* The entries for the handlers in X: of those poll reported, what it reported.
Called(X) ==
    {e \in Entry : /\ e.op \in X
                   /\ e.op = "read_pending" => e.conn \in Range(pending)
                   /\ e.op = "close_client" => ClientHup}

\* Handlers x may come before handlers y.
Follows(x, y) ==
    /\ x = "reap_child" => y # "drain_signal_pipe"
    /\ x = "finish_drain" => y \notin Drains \cup {"finish_drain"}
    /\ x \in {"read_pending", "expire_pending", "accept"} => y # "close_client"
    /\ x \in {"expire_pending", "accept"} => y # "read_pending"
    /\ x = "read_pending" => y # "read_pending"
    /\ y # "close_receive" /\ y # "close_drop"

Part(s, X) == s \in Seq(Called(X)) /\ Ordered(s)

LEMMA ThenAt ==
    ASSUME NEW E, NEW s \in Seq(E), NEW t \in Seq(E)
    PROVE  /\ Then(s, t) \in Seq(E)
           /\ Len(Then(s, t)) = Len(s) + Len(t)
           /\ \A i \in 1 .. Len(s) : Then(s, t)[i] = s[i]
           /\ \A i \in 1 .. Len(t) : Then(s, t)[Len(s) + i] = t[i]
<1> DEFINE u == s \o t
<1>1. u \in Seq(E) /\ Len(u) = Len(s) + Len(t)
  OBVIOUS
<1>2. \A i \in 1 .. Len(s) : u[i] = s[i]
  OBVIOUS
<1>3. \A i \in 1 .. Len(t) : u[Len(s) + i] = t[i]
  OBVIOUS
<1> QED
  BY <1>1, <1>2, <1>3 DEF Then

\* Two parts of an agenda make one.
LEMMA Joined ==
    ASSUME NEW X, NEW Y, NEW s, NEW t, Part(s, X), Part(t, Y),
           \A x \in X : \A y \in Y : Follows(x, y)
    PROVE  /\ Part(Then(s, t), X \cup Y)
           /\ \A op : op \in OpsOf(Then(s, t)) <=> (op \in OpsOf(s) \/ op \in OpsOf(t))
<1> DEFINE u == Then(s, t)
           E == Called(X \cup Y)
           n == Len(s)
           m == Len(t)
<1>1. s \in Seq(E) /\ t \in Seq(E)
  <2>1. \A x \in Called(X) : x \in E
    BY DEF Called
  <2>2. \A x \in Called(Y) : x \in E
    BY DEF Called
  <2>3. s \in Seq(Called(X)) /\ t \in Seq(Called(Y))
    BY DEF Part
  <2> HIDE DEF E
  <2>4. \A S : (\A x \in S : x \in E) => \A q \in Seq(S) : q \in Seq(E)
    OBVIOUS
  <2> QED
    BY <2>1, <2>2, <2>3, <2>4
<1>2. \A e \in E : e \in Entry
  BY DEF Called
<1>3. n \in Nat /\ m \in Nat /\ DOMAIN s = 1 .. n /\ DOMAIN t = 1 .. m
  BY <1>1
<1>4. \A i \in 1 .. n : s[i] \in Entry /\ s[i].op \in X
  <2>1. s \in Seq(Called(X))
    BY DEF Part
  <2>2. \A i \in 1 .. n : s[i] \in Called(X)
    BY <2>1
  <2> QED
    BY <2>2 DEF Called
<1>5. \A i \in 1 .. m : t[i] \in Entry /\ t[i].op \in Y
  <2>1. t \in Seq(Called(Y))
    BY DEF Part
  <2>2. \A i \in 1 .. m : t[i] \in Called(Y)
    BY <2>1
  <2> QED
    BY <2>2 DEF Called
<1> HIDE DEF u, E
<1>6. /\ u \in Seq(E) /\ Len(u) = n + m
      /\ \A i \in 1 .. n : u[i] = s[i]
      /\ \A i \in 1 .. m : u[n + i] = t[i]
  <2>1. Then(s, t) \in Seq(E)
    BY <1>1, ThenAt
  <2>2. Len(Then(s, t)) = Len(s) + Len(t)
    BY <1>1, ThenAt
  <2>3. \A i \in 1 .. Len(s) : Then(s, t)[i] = s[i]
    BY <1>1, ThenAt
  <2>4. \A i \in 1 .. Len(t) : Then(s, t)[Len(s) + i] = t[i]
    BY <1>1, ThenAt
  <2> QED
    BY <2>1, <2>2, <2>3, <2>4, Zenon DEF u
<1>7. DOMAIN u = 1 .. (n + m)
  BY <1>3, <1>6
<1> HIDE DEF n, m
<1>8. \A i \in 1 .. (n + m) : i \in 1 .. n \/ (i - n \in 1 .. m /\ n + (i - n) = i)
  BY <1>3
<1>9. Ordered(u)
  <2> SUFFICES ASSUME NEW i \in 1 .. (n + m), NEW j \in 1 .. (n + m), i < j
               PROVE  Before(u[i], u[j])
    BY <1>7 DEF Ordered
  <2>1. CASE i \in 1 .. n /\ j \in 1 .. n
    BY <1>3, <1>6, <2>1 DEF Part, Ordered
  <2>2. CASE i \in 1 .. n /\ j \notin 1 .. n
    <3>1. u[i] = s[i] /\ u[j] = t[j - n] /\ j - n \in 1 .. m
      BY <1>6, <1>8, <2>2
    <3>2. Follows(s[i].op, t[j - n].op)
      BY <1>4, <1>5, <2>2, <3>1
    <3> QED
      BY <3>1, <3>2 DEF Before, Follows
  <2>3. CASE i \notin 1 .. n
    <3>1. i - n \in 1 .. m /\ n + (i - n) = i
      BY <1>8, <2>3
    <3>2. j - n \in 1 .. m /\ n + (j - n) = j /\ i - n < j - n
      BY <1>3, <3>1
    <3>3. u[i] = t[i - n] /\ u[j] = t[j - n]
      BY <1>6, <3>1, <3>2
    <3> QED
      BY <1>3, <3>1, <3>2, <3>3 DEF Part, Ordered
  <2> QED
    BY <2>1, <2>2, <2>3
<1>10. \A op : op \in OpsOf(u) <=> (op \in OpsOf(s) \/ op \in OpsOf(t))
  <2> TAKE op
  <2>1. ASSUME op \in OpsOf(u) PROVE op \in OpsOf(s) \/ op \in OpsOf(t)
    <3>1. PICK i \in 1 .. (n + m) : u[i].op = op
      BY <1>7, <2>1 DEF OpsOf
    <3>2. CASE i \in 1 .. n
      BY <1>3, <1>6, <3>1, <3>2 DEF OpsOf
    <3>3. CASE i \notin 1 .. n
      <4>1. i - n \in 1 .. m /\ n + (i - n) = i
        BY <1>8, <3>3
      <4>2. u[i] = t[i - n]
        BY <1>6, <4>1
      <4> QED
        BY <1>3, <3>1, <4>1, <4>2 DEF OpsOf
    <3> QED
      BY <3>2, <3>3
  <2>2. ASSUME op \in OpsOf(s) PROVE op \in OpsOf(u)
    <3>1. PICK i \in 1 .. n : s[i].op = op
      BY <1>3, <2>2 DEF OpsOf
    <3>2. i \in 1 .. (n + m)
      BY <1>3
    <3> QED
      BY <1>6, <1>7, <3>1, <3>2 DEF OpsOf
  <2>3. ASSUME op \in OpsOf(t) PROVE op \in OpsOf(u)
    <3>1. PICK i \in 1 .. m : t[i].op = op
      BY <1>3, <2>3 DEF OpsOf
    <3>2. n + i \in 1 .. (n + m)
      BY <1>3
    <3> QED
      BY <1>6, <1>7, <3>1, <3>2 DEF OpsOf
  <2> QED
    BY <2>1, <2>2, <2>3
<1>11. Part(u, X \cup Y)
  BY <1>6, <1>9 DEF Part, E
<1> QED
  BY <1>10, <1>11 DEF u

LEMMA SinglePart ==
    ASSUME NEW X, NEW e \in Called(X)
    PROVE  Part(<<e>>, X) /\ e.op \in OpsOf(<<e>>)
<1>1. <<e>> \in Seq(Called(X)) /\ DOMAIN <<e>> = {1} /\ <<e>>[1] = e
  OBVIOUS
<1>2. Ordered(<<e>>)
  BY <1>1 DEF Ordered
<1> QED
  BY <1>1, <1>2 DEF Part, OpsOf

LEMMA NoPart ==
    ASSUME NEW X
    PROVE  Part(<<>>, X)
<1>1. <<>> \in Seq(Called(X)) /\ DOMAIN <<>> = {}
  OBVIOUS
<1> QED
  BY <1>1 DEF Part, Ordered

LEMMA WhenPart ==
    ASSUME NEW op \in Ops \ {"read_pending"}, NEW condition \in BOOLEAN,
           op = "close_client" => (condition => ClientHup)
    PROVE  Part(When(condition, op), {op})
<1>1. CASE condition
  <2>1. Do(op) \in Called({op})
    BY <1>1, EntryType DEF Called
  <2> QED
    BY <1>1, <2>1, SinglePart DEF When
<1>2. CASE ~ condition
  BY <1>2, NoPart DEF When
<1> QED
  BY <1>1, <1>2

LEMMA DoPart ==
    ASSUME NEW op \in Ops \ {"read_pending", "close_client"}
    PROVE  Part(<<Do(op)>>, {op}) /\ op \in OpsOf(<<Do(op)>>)
<1>1. Do(op) \in Called({op}) /\ Do(op).op = op
  BY EntryType DEF Called
<1> QED
  BY <1>1, SinglePart

\* The connections waiting that are ready, from the newest to the oldest.
LEMMA ServePart ==
    ASSUME TypeOK, Injective(pending)
    PROVE  Part([i \in 1 .. Len(ReadyPending) |-> Serve(Reverse(ReadyPending)[i])], {"read_pending"})
<1> DEFINE S == {c \in Conns : PendingReady(c)}
           k == Keep(pending, S)
           n == Len(k)
           v == [i \in 1 .. Len(ReadyPending) |-> Serve(Reverse(ReadyPending)[i])]
<1>1. pending \in Seq(Conns)
  BY DEF TypeOK
<1>2. ReadyPending = k
  BY DEF ReadyPending
<1> HIDE DEF S
<1>3. k \in Seq(Conns) /\ n \in Nat
  BY <1>1, KeepType
<1>4. Reverse(k) \in Seq(Conns) /\ Len(Reverse(k)) = n /\ \A i \in 1 .. n : Reverse(k)[i] = k[(n - i) + 1]
  BY <1>3 DEF Reverse
<1>5. PICK e \in [1 .. n -> 1 .. Len(pending)] :
          /\ \A i \in 1 .. n : k[i] = pending[e[i]]
          /\ \A i, j \in 1 .. n : i < j => e[i] < e[j]
  BY <1>1, KeepEmbeds
<1>6. \A i \in 1 .. n : k[i] \in Conns /\ k[i] \in Range(pending)
  BY <1>1, <1>3, <1>5 DEF Range
<1>7. \A i, j \in 1 .. n : i < j => k[i] # k[j]
  <2> SUFFICES ASSUME NEW i \in 1 .. n, NEW j \in 1 .. n, i < j PROVE k[i] # k[j]
    OBVIOUS
  <2>1. e[i] \in 1 .. Len(pending) /\ e[j] \in 1 .. Len(pending) /\ e[i] < e[j]
    BY <1>5
  <2>2. pending[e[i]] # pending[e[j]]
    BY <1>1, <2>1 DEF Injective
  <2> QED
    BY <1>5, <2>2
<1> HIDE DEF k, n
<1>8. v = [i \in 1 .. n |-> Serve(Reverse(k)[i])]
  BY <1>2 DEF n
<1> HIDE DEF v
<1>9. \A i \in 1 .. n : (n - i) + 1 \in 1 .. n
  BY <1>3
<1>10. \A i \in 1 .. n : v[i] \in Called({"read_pending"}) /\ v[i].conn = Reverse(k)[i]
  <2> TAKE i \in 1 .. n
  <2> DEFINE c == Reverse(k)[i]
  <2>1. c \in Conns /\ c \in Range(pending)
    BY <1>4, <1>6, <1>9
  <2>2. v[i] = Serve(c)
    BY <1>8
  <2> HIDE DEF c
  <2>3. v[i] \in Entry /\ v[i].op = "read_pending" /\ v[i].conn = c
    BY <2>1, <2>2, EntryType
  <2> QED
    BY <2>1, <2>3 DEF Called, c
<1>11. DOMAIN v = 1 .. n /\ v \in Seq(Called({"read_pending"}))
  <2>1. v \in [1 .. n -> Called({"read_pending"})]
    BY <1>8, <1>10
  <2> QED
    BY <1>3, <2>1
<1>12. Ordered(v)
  <2> SUFFICES ASSUME NEW i \in 1 .. n, NEW j \in 1 .. n, i < j PROVE Before(v[i], v[j])
    BY <1>11 DEF Ordered
  <2>1. v[i].op = "read_pending" /\ v[j].op = "read_pending"
    BY <1>10 DEF Called
  <2>2. v[i].conn # v[j].conn
    <3>1. (n - j) + 1 < (n - i) + 1
      BY <1>3
    <3>2. k[(n - j) + 1] # k[(n - i) + 1]
      BY <1>7, <1>9, <3>1
    <3> QED
      BY <1>4, <1>10, <3>2
  <2> QED
    BY <2>1, <2>2 DEF Before
<1> QED
  BY <1>11, <1>12 DEF Part, v

LEMMA LastLookPart ==
    /\ Part(LastLook, {"write_input", "act_on_buffered", "refill_outgoing"})
    /\ Len(LastLook) = 3 /\ LastLook[2] = Do("act_on_buffered") /\ LastLook[3] = Do("refill_outgoing")
<1> DEFINE X == {"write_input", "act_on_buffered", "refill_outgoing"}
           a == Do("write_input")
           b == Do("act_on_buffered")
           c == Do("refill_outgoing")
<1>1. a \in Called(X) /\ b \in Called(X) /\ c \in Called(X)
  <2>1. /\ a \in Entry /\ b \in Entry /\ c \in Entry
        /\ a.op = "write_input" /\ b.op = "act_on_buffered" /\ c.op = "refill_outgoing"
    BY EntryType DEF Ops
  <2> QED
    BY <2>1 DEF Called
<1>2. LastLook = <<a, b, c>>
  BY DEF LastLook
<1>3. \A x, y \in Called(X) : Before(x, y)
  BY DEF Called, Before, Drains
<1> HIDE DEF X, a, b, c
<1>4. <<a, b, c>> \in Seq(Called(X)) /\ DOMAIN <<a, b, c>> = 1 .. 3 /\ Len(<<a, b, c>>) = 3
      /\ <<a, b, c>>[2] = b /\ <<a, b, c>>[3] = c
  BY <1>1
<1>5. Ordered(<<a, b, c>>)
  <2>1. \A i \in 1 .. 3 : <<a, b, c>>[i] \in Called(X)
    BY <1>4
  <2> QED
    BY <1>3, <1>4, <2>1 DEF Ordered
<1> QED
  BY <1>2, <1>4, <1>5 DEF Part, X, b, c

Plain(X) == X \subseteq Ops \ {"poll", "close_receive", "close_drop"}

\* An agenda that ends with the last look.
LEMMA EndsWithLastLook ==
    ASSUME NEW X, Plain(X), NEW p,
           Part(p, X), "finish_drain" \in OpsOf(p), "reap_child" \in OpsOf(p),
           NEW t, t = Then(p, LastLook)
    PROVE  /\ AgendaOK(t) /\ Busy(t)
           /\ \A i \in 1 .. Len(t) :
                  t[i] \in Called(X \cup {"write_input", "act_on_buffered", "refill_outgoing"})
           /\ "finish_drain" \in OpsOf(t) /\ "reap_child" \in OpsOf(t)
           /\ \A op : op \in OpsOf(t) => op \in X \cup {"write_input", "act_on_buffered", "refill_outgoing"}
<1> DEFINE Y == {"write_input", "act_on_buffered", "refill_outgoing"}
           E == Called(X \cup Y)
<1>1. \A x \in X : \A y \in Y : Follows(x, y)
  BY DEF Follows, Drains, Plain
<1>2. Part(LastLook, Y)
  BY LastLookPart
<1>3. /\ Part(t, X \cup Y)
      /\ \A op : op \in OpsOf(t) <=> (op \in OpsOf(p) \/ op \in OpsOf(LastLook))
  <2> HIDE DEF Y
  <2> DEFINE q == LastLook
  <2>1. Part(p, X) /\ Part(q, Y)
    BY <1>2
  <2> HIDE DEF q
  <2>2. /\ Part(Then(p, q), X \cup Y)
        /\ \A op : op \in OpsOf(Then(p, q)) <=> (op \in OpsOf(p) \/ op \in OpsOf(q))
    BY <1>1, <2>1, Joined, Zenon
  <2>3. t = Then(p, q)
    BY DEF q
  <2> QED
    BY <2>2, <2>3, Zenon DEF q
<1>4. t \in Seq(E) /\ Ordered(t)
  BY <1>3 DEF Part
<1>5. \A e \in E : e \in Entry /\ e.op \in X \cup Y
  BY DEF Called
<1>6. LastLook \in Seq(E) /\ p \in Seq(E)
  <2>1. LastLook \in Seq(Called(Y)) /\ p \in Seq(Called(X))
    BY <1>2 DEF Part
  <2>2. (\A e \in Called(X) : e \in E) /\ (\A e \in Called(Y) : e \in E)
    BY DEF Called
  <2> HIDE DEF E, Y
  <2>3. \A S : (\A x \in S : x \in E) => \A q \in Seq(S) : q \in Seq(E)
    OBVIOUS
  <2> QED
    BY <2>1, <2>2, <2>3
<1> HIDE DEF E, Y
<1>7. /\ Len(t) = Len(p) + Len(LastLook) /\ Len(p) \in Nat
      /\ \A i \in 1 .. Len(LastLook) : t[Len(p) + i] = LastLook[i]
  <2>1. Len(p) \in Nat
    BY <1>6
  <2> DEFINE q == LastLook
  <2>2. p \in Seq(E) /\ q \in Seq(E)
    BY <1>6
  <2>3. t = Then(p, q)
    OBVIOUS
  <2> HIDE DEF q
  <2>4. Len(Then(p, q)) = Len(p) + Len(q)
    BY <2>2, ThenAt
  <2>5. \A i \in 1 .. Len(q) : Then(p, q)[Len(p) + i] = q[i]
    BY <2>2, ThenAt
  <2> QED
    BY <2>1, <2>3, <2>4, <2>5, Zenon DEF q
<1>8. Len(t) = Len(p) + 3 /\ t[Len(p) + 2] = Do("act_on_buffered") /\ t[Len(p) + 3] = Do("refill_outgoing")
  <2>1. 2 \in 1 .. Len(LastLook) /\ 3 \in 1 .. Len(LastLook)
    BY LastLookPart
  <2> QED
    BY <1>7, <2>1, LastLookPart
<1>9. DOMAIN t = 1 .. Len(t) /\ \A i \in 1 .. Len(t) : t[i] \in E
  BY <1>4
<1>10. \A op : op \in OpsOf(t) => op \in X \cup Y
  BY <1>5, <1>9 DEF OpsOf
<1>11. Busy(t)
  <2>1. Len(t) >= 2 /\ Len(t) - 1 = Len(p) + 2 /\ Len(t) = Len(p) + 3
    BY <1>7, <1>8
  <2>2. "poll" \notin OpsOf(t)
    BY <1>10 DEF Y, Plain
  <2> QED
    BY <1>8, <2>1, <2>2 DEF Busy
<1>12. "finish_drain" \in OpsOf(t) /\ "reap_child" \in OpsOf(t)
  BY <1>3
<1>13. \A i \in DOMAIN t : t[i].op # "close_receive"
  BY <1>5, <1>9 DEF Y, Plain
<1>14. t \in Seq(Entry)
  BY <1>4, <1>5
<1>15. AgendaOK(t)
  BY <1>4, <1>11, <1>12, <1>13, <1>14 DEF AgendaOK
<1> QED
  BY <1>9, <1>10, <1>11, <1>12, <1>15 DEF E, Y

LEMMA AgendaIsOK ==
    ASSUME TypeOK, Injective(pending), NEW t, t = Agenda
    PROVE  /\ AgendaOK(t) /\ Busy(t)
           /\ \A i \in 1 .. Len(t) : t[i] \in Called(Ops)
           /\ "finish_drain" \in OpsOf(t) /\ "reap_child" \in OpsOf(t) /\ "close_drop" \notin OpsOf(t)
<1> DEFINE p1 == Then(When(SignalsReady, "drain_signal_pipe"), <<Do("reap_child")>>)
           p2 == Then(p1, When(PtyInReady, "read_pty"))
           p3 == Then(p2, When(PtyOutReady, "write_input"))
           p4 == Then(p3, <<Do("finish_drain")>>)
           p5 == Then(p4, When(ClientOutReady, "write_client"))
           r == IF ClientHup THEN <<Do("close_client")>> ELSE When(ClientInReady, "read_client")
           p6 == Then(p5, r)
           serves == [i \in 1 .. Len(ReadyPending) |-> Serve(Reverse(ReadyPending)[i])]
           p7 == Then(p6, serves)
           p8 == Then(p7, <<Do("expire_pending")>>)
           a == IF ListenerReady THEN <<Accept(MAX_PENDING_CONNECTIONS)>> ELSE <<>>
           p9 == Then(p8, a)
           X1 == {"drain_signal_pipe"} \cup {"reap_child"}
           X2 == X1 \cup {"read_pty"}
           X3 == X2 \cup {"write_input"}
           X4 == X3 \cup {"finish_drain"}
           X5 == X4 \cup {"write_client"}
           R == {"close_client", "read_client"}
           X6 == X5 \cup R
           X7 == X6 \cup {"read_pending"}
           X8 == X7 \cup {"expire_pending"}
           X9 == X8 \cup {"accept"}
<1>1. Agenda = Then(p9, LastLook)
  BY Zenon DEF Agenda, LookForChild, Then
<1>2. SignalsReady \in BOOLEAN /\ PtyInReady \in BOOLEAN /\ PtyOutReady \in BOOLEAN
      /\ ClientOutReady \in BOOLEAN /\ ClientInReady \in BOOLEAN
  BY DEF TypeOK, SignalsReady, PtyInReady, PtyOutReady, ClientOutReady, ClientInReady, PtyOut,
         ClientOut, ClientIn
<1>3. /\ Part(When(SignalsReady, "drain_signal_pipe"), {"drain_signal_pipe"})
      /\ Part(When(PtyInReady, "read_pty"), {"read_pty"})
      /\ Part(When(PtyOutReady, "write_input"), {"write_input"})
      /\ Part(When(ClientOutReady, "write_client"), {"write_client"})
  BY <1>2, WhenPart DEF Ops
<1>4. /\ Part(<<Do("reap_child")>>, {"reap_child"}) /\ "reap_child" \in OpsOf(<<Do("reap_child")>>)
      /\ Part(<<Do("finish_drain")>>, {"finish_drain"})
      /\ "finish_drain" \in OpsOf(<<Do("finish_drain")>>)
      /\ Part(<<Do("expire_pending")>>, {"expire_pending"})
  BY DoPart DEF Ops
<1>5. Part(r, R)
  <2>1. CASE ClientHup
    <3>1. Do("close_client") \in Called(R)
      <4>1. Do("close_client") \in Entry /\ Do("close_client").op = "close_client"
        BY EntryType DEF Ops
      <4> QED
        BY <2>1, <4>1 DEF Called
    <3>2. r = <<Do("close_client")>>
      BY <2>1
    <3> HIDE DEF R, r
    <3> QED
      BY <3>1, <3>2, SinglePart
  <2>2. CASE ~ ClientHup
    <3>1. CASE ClientInReady
      <4>1. Do("read_client") \in Called(R)
        <5>1. Do("read_client") \in Entry /\ Do("read_client").op = "read_client"
          BY EntryType DEF Ops
        <5> QED
          BY <5>1 DEF Called
      <4>2. r = <<Do("read_client")>>
        BY <2>2, <3>1 DEF When
      <4> HIDE DEF R, r
      <4> QED
        BY <4>1, <4>2, SinglePart
    <3>2. CASE ~ ClientInReady
      <4>1. r = <<>>
        BY <2>2, <3>2 DEF When
      <4> HIDE DEF R, r
      <4> QED
        BY <4>1, NoPart
    <3> QED
      BY <3>1, <3>2
  <2> QED
    BY <2>1, <2>2
<1>6. Part(serves, {"read_pending"})
  BY ServePart
<1>7. Part(a, {"accept"})
  <2>1. MAX_PENDING_CONNECTIONS \in Nat
    BY HostConstants
  <2>2. CASE ListenerReady
    <3>1. Accept(MAX_PENDING_CONNECTIONS) \in Called({"accept"})
      <4>1. Accept(MAX_PENDING_CONNECTIONS) \in Entry /\ Accept(MAX_PENDING_CONNECTIONS).op = "accept"
        BY <2>1, EntryType
      <4> QED
        BY <4>1 DEF Called
    <3> QED
      BY <2>2, <3>1, SinglePart
  <2>3. CASE ~ ListenerReady
    BY <2>3, NoPart
  <2> QED
    BY <2>2, <2>3
<1> HIDE DEF p1, p2, p3, p4, p5, p6, p7, p8, p9, r, serves, a
<1>8. Part(p1, X1) /\ "reap_child" \in OpsOf(p1)
  <2> DEFINE Y == {"reap_child"}
           X == {"drain_signal_pipe"}
  <2>1. \A u \in X : \A v \in Y : Follows(u, v)
    BY DEF Follows, Drains
  <2>2. Part(When(SignalsReady, "drain_signal_pipe"), X) /\ Part(<<Do("reap_child")>>, Y)
    BY <1>3, <1>4, <1>5, <1>6, <1>7
  <2>3. X1 = X \cup Y
    OBVIOUS
  <2> HIDE DEF Y, X
  <2>4. /\ Part(Then(When(SignalsReady, "drain_signal_pipe"), <<Do("reap_child")>>), X \cup Y)
        /\ \A op : op \in OpsOf(Then(When(SignalsReady, "drain_signal_pipe"), <<Do("reap_child")>>)) <=> (op \in OpsOf(When(SignalsReady, "drain_signal_pipe")) \/ op \in OpsOf(<<Do("reap_child")>>))
    BY <2>1, <2>2, Joined, Zenon
  <2>5. p1 = Then(When(SignalsReady, "drain_signal_pipe"), <<Do("reap_child")>>)
    BY DEF p1
  <2> QED
    BY <1>4, <2>3, <2>4, <2>5, Zenon
<1>9. Part(p2, X2) /\ "reap_child" \in OpsOf(p2)
  <2> DEFINE Y == {"read_pty"}
  <2>1. \A u \in X1 : \A v \in Y : Follows(u, v)
    BY DEF Follows, Drains
  <2>2. Part(p1, X1) /\ Part(When(PtyInReady, "read_pty"), Y)
    BY <1>8, <1>3, <1>4, <1>5, <1>6, <1>7
  <2>3. X2 = X1 \cup Y
    OBVIOUS
  <2> HIDE DEF Y, X1, X2, X3, X4, X5, X6, X7, X8, X9
  <2>4. /\ Part(Then(p1, When(PtyInReady, "read_pty")), X1 \cup Y)
        /\ \A op : op \in OpsOf(Then(p1, When(PtyInReady, "read_pty"))) <=> (op \in OpsOf(p1) \/ op \in OpsOf(When(PtyInReady, "read_pty")))
    BY <2>1, <2>2, Joined, Zenon
  <2>5. p2 = Then(p1, When(PtyInReady, "read_pty"))
    BY DEF p2
  <2> QED
    BY <1>8, <1>4, <2>3, <2>4, <2>5, Zenon
<1>10. Part(p3, X3) /\ "reap_child" \in OpsOf(p3)
  <2> DEFINE Y == {"write_input"}
  <2>1. \A u \in X2 : \A v \in Y : Follows(u, v)
    BY DEF Follows, Drains
  <2>2. Part(p2, X2) /\ Part(When(PtyOutReady, "write_input"), Y)
    BY <1>9, <1>3, <1>4, <1>5, <1>6, <1>7
  <2>3. X3 = X2 \cup Y
    OBVIOUS
  <2> HIDE DEF Y, X1, X2, X3, X4, X5, X6, X7, X8, X9
  <2>4. /\ Part(Then(p2, When(PtyOutReady, "write_input")), X2 \cup Y)
        /\ \A op : op \in OpsOf(Then(p2, When(PtyOutReady, "write_input"))) <=> (op \in OpsOf(p2) \/ op \in OpsOf(When(PtyOutReady, "write_input")))
    BY <2>1, <2>2, Joined, Zenon
  <2>5. p3 = Then(p2, When(PtyOutReady, "write_input"))
    BY DEF p3
  <2> QED
    BY <1>9, <1>4, <2>3, <2>4, <2>5, Zenon
<1>11. Part(p4, X4) /\ "reap_child" \in OpsOf(p4) /\ "finish_drain" \in OpsOf(p4)
  <2> DEFINE Y == {"finish_drain"}
  <2>1. \A u \in X3 : \A v \in Y : Follows(u, v)
    BY DEF Follows, Drains
  <2>2. Part(p3, X3) /\ Part(<<Do("finish_drain")>>, Y)
    BY <1>10, <1>3, <1>4, <1>5, <1>6, <1>7
  <2>3. X4 = X3 \cup Y
    OBVIOUS
  <2> HIDE DEF Y, X1, X2, X3, X4, X5, X6, X7, X8, X9
  <2>4. /\ Part(Then(p3, <<Do("finish_drain")>>), X3 \cup Y)
        /\ \A op : op \in OpsOf(Then(p3, <<Do("finish_drain")>>)) <=> (op \in OpsOf(p3) \/ op \in OpsOf(<<Do("finish_drain")>>))
    BY <2>1, <2>2, Joined, Zenon
  <2>5. p4 = Then(p3, <<Do("finish_drain")>>)
    BY DEF p4
  <2> QED
    BY <1>10, <1>4, <2>3, <2>4, <2>5, Zenon
<1>12. Part(p5, X5) /\ "reap_child" \in OpsOf(p5) /\ "finish_drain" \in OpsOf(p5)
  <2> DEFINE Y == {"write_client"}
  <2>1. \A u \in X4 : \A v \in Y : Follows(u, v)
    BY DEF Follows, Drains
  <2>2. Part(p4, X4) /\ Part(When(ClientOutReady, "write_client"), Y)
    BY <1>11, <1>3, <1>4, <1>5, <1>6, <1>7
  <2>3. X5 = X4 \cup Y
    OBVIOUS
  <2> HIDE DEF Y, X1, X2, X3, X4, X5, X6, X7, X8, X9
  <2>4. /\ Part(Then(p4, When(ClientOutReady, "write_client")), X4 \cup Y)
        /\ \A op : op \in OpsOf(Then(p4, When(ClientOutReady, "write_client"))) <=> (op \in OpsOf(p4) \/ op \in OpsOf(When(ClientOutReady, "write_client")))
    BY <2>1, <2>2, Joined, Zenon
  <2>5. p5 = Then(p4, When(ClientOutReady, "write_client"))
    BY DEF p5
  <2> QED
    BY <1>11, <1>4, <2>3, <2>4, <2>5, Zenon
<1>13. Part(p6, X6) /\ "reap_child" \in OpsOf(p6) /\ "finish_drain" \in OpsOf(p6)
  <2> DEFINE Y == R
  <2>1. \A u \in X5 : \A v \in Y : Follows(u, v)
    BY DEF Follows, Drains
  <2>2. Part(p5, X5) /\ Part(r, Y)
    BY <1>12, <1>3, <1>4, <1>5, <1>6, <1>7
  <2>3. X6 = X5 \cup Y
    OBVIOUS
  <2> HIDE DEF Y, X1, X2, X3, X4, X5, X6, X7, X8, X9
  <2>4. /\ Part(Then(p5, r), X5 \cup Y)
        /\ \A op : op \in OpsOf(Then(p5, r)) <=> (op \in OpsOf(p5) \/ op \in OpsOf(r))
    BY <2>1, <2>2, Joined, Zenon
  <2>5. p6 = Then(p5, r)
    BY DEF p6
  <2> QED
    BY <1>12, <1>4, <2>3, <2>4, <2>5, Zenon
<1>14. Part(p7, X7) /\ "reap_child" \in OpsOf(p7) /\ "finish_drain" \in OpsOf(p7)
  <2> DEFINE Y == {"read_pending"}
  <2>1. \A u \in X6 : \A v \in Y : Follows(u, v)
    BY DEF Follows, Drains
  <2>2. Part(p6, X6) /\ Part(serves, Y)
    BY <1>13, <1>3, <1>4, <1>5, <1>6, <1>7
  <2>3. X7 = X6 \cup Y
    OBVIOUS
  <2> HIDE DEF Y, X1, X2, X3, X4, X5, X6, X7, X8, X9
  <2>4. /\ Part(Then(p6, serves), X6 \cup Y)
        /\ \A op : op \in OpsOf(Then(p6, serves)) <=> (op \in OpsOf(p6) \/ op \in OpsOf(serves))
    BY <2>1, <2>2, Joined, Zenon
  <2>5. p7 = Then(p6, serves)
    BY DEF p7
  <2> QED
    BY <1>13, <1>4, <2>3, <2>4, <2>5, Zenon
<1>15. Part(p8, X8) /\ "reap_child" \in OpsOf(p8) /\ "finish_drain" \in OpsOf(p8)
  <2> DEFINE Y == {"expire_pending"}
  <2>1. \A u \in X7 : \A v \in Y : Follows(u, v)
    BY DEF Follows, Drains
  <2>2. Part(p7, X7) /\ Part(<<Do("expire_pending")>>, Y)
    BY <1>14, <1>3, <1>4, <1>5, <1>6, <1>7
  <2>3. X8 = X7 \cup Y
    OBVIOUS
  <2> HIDE DEF Y, X1, X2, X3, X4, X5, X6, X7, X8, X9
  <2>4. /\ Part(Then(p7, <<Do("expire_pending")>>), X7 \cup Y)
        /\ \A op : op \in OpsOf(Then(p7, <<Do("expire_pending")>>)) <=> (op \in OpsOf(p7) \/ op \in OpsOf(<<Do("expire_pending")>>))
    BY <2>1, <2>2, Joined, Zenon
  <2>5. p8 = Then(p7, <<Do("expire_pending")>>)
    BY DEF p8
  <2> QED
    BY <1>14, <1>4, <2>3, <2>4, <2>5, Zenon
<1>16. Part(p9, X9) /\ "reap_child" \in OpsOf(p9) /\ "finish_drain" \in OpsOf(p9)
  <2> DEFINE Y == {"accept"}
  <2>1. \A u \in X8 : \A v \in Y : Follows(u, v)
    BY DEF Follows, Drains
  <2>2. Part(p8, X8) /\ Part(a, Y)
    BY <1>15, <1>3, <1>4, <1>5, <1>6, <1>7
  <2>3. X9 = X8 \cup Y
    OBVIOUS
  <2> HIDE DEF Y, X1, X2, X3, X4, X5, X6, X7, X8, X9
  <2>4. /\ Part(Then(p8, a), X8 \cup Y)
        /\ \A op : op \in OpsOf(Then(p8, a)) <=> (op \in OpsOf(p8) \/ op \in OpsOf(a))
    BY <2>1, <2>2, Joined, Zenon
  <2>5. p9 = Then(p8, a)
    BY DEF p9
  <2> QED
    BY <1>15, <1>4, <2>3, <2>4, <2>5, Zenon
<1>17. Plain(X9)
  BY DEF Ops, Plain
<1>18. /\ AgendaOK(t) /\ Busy(t)
       /\ \A i \in 1 .. Len(t) :
              t[i] \in Called(X9 \cup {"write_input", "act_on_buffered", "refill_outgoing"})
       /\ "finish_drain" \in OpsOf(t) /\ "reap_child" \in OpsOf(t)
       /\ \A op : op \in OpsOf(t) => op \in X9 \cup {"write_input", "act_on_buffered", "refill_outgoing"}
  <2> HIDE DEF X9
  <2> QED
    BY <1>1, <1>16, <1>17, EndsWithLastLook, Zenon
<1>19. \A e \in Called(X9 \cup {"write_input", "act_on_buffered", "refill_outgoing"}) : e \in Called(Ops)
  <2> HIDE DEF X9
  <2> QED
    BY EntryType DEF Called
<1>20. "close_drop" \notin OpsOf(t)
  BY <1>18
<1> HIDE DEF X9
<1> QED
  BY <1>18, <1>19, <1>20, Zenon

\* What an interrupted poll leaves to do.
LEMMA InterruptedAgendaIsOK ==
    ASSUME NEW t,
           t = Then(<<Do("reap_child"), Do("finish_drain"), Do("expire_pending")>>, LastLook)
    PROVE  /\ AgendaOK(t) /\ Busy(t)
           /\ \A i \in 1 .. Len(t) : t[i].op \notin {"read_pending", "close_client"}
           /\ "finish_drain" \in OpsOf(t) /\ "reap_child" \in OpsOf(t) /\ "close_drop" \notin OpsOf(t)
<1> DEFINE X == {"reap_child", "finish_drain", "expire_pending"}
           a == Do("reap_child")
           b == Do("finish_drain")
           c == Do("expire_pending")
           p == <<a, b, c>>
<1>1. a \in Called(X) /\ b \in Called(X) /\ c \in Called(X)
      /\ a.op = "reap_child" /\ b.op = "finish_drain"
  <2>1. /\ a \in Entry /\ b \in Entry /\ c \in Entry
        /\ a.op = "reap_child" /\ b.op = "finish_drain" /\ c.op = "expire_pending"
    BY EntryType DEF Ops
  <2> QED
    BY <2>1 DEF Called
<1>2. Before(a, b) /\ Before(a, c) /\ Before(b, c)
  BY DEF Before, Drains, Do
<1>3. t = Then(p, LastLook)
  OBVIOUS
<1>4. Plain(X)
  BY DEF Ops, Plain
<1> HIDE DEF X, a, b, c
<1>5. p \in Seq(Called(X)) /\ DOMAIN p = 1 .. 3 /\ p[1] = a /\ p[2] = b /\ p[3] = c
  BY <1>1
<1> HIDE DEF p
<1>6. Ordered(p)
  BY <1>2, <1>5 DEF Ordered
<1>7. Part(p, X) /\ "finish_drain" \in OpsOf(p) /\ "reap_child" \in OpsOf(p)
  <2>1. 1 \in DOMAIN p /\ 2 \in DOMAIN p
    BY <1>5
  <2> QED
    BY <1>1, <1>5, <1>6, <2>1 DEF Part, OpsOf
<1>8. /\ AgendaOK(t) /\ Busy(t)
      /\ \A i \in 1 .. Len(t) :
             t[i] \in Called(X \cup {"write_input", "act_on_buffered", "refill_outgoing"})
      /\ "finish_drain" \in OpsOf(t) /\ "reap_child" \in OpsOf(t)
      /\ \A op : op \in OpsOf(t) => op \in X \cup {"write_input", "act_on_buffered", "refill_outgoing"}
  BY <1>3, <1>4, <1>7, EndsWithLastLook, Zenon
<1>9. \A e \in Called(X \cup {"write_input", "act_on_buffered", "refill_outgoing"}) :
          e.op \notin {"read_pending", "close_client"}
  BY DEF Called, X
<1>10. "close_drop" \notin OpsOf(t)
  BY <1>8 DEF X
<1> QED
  BY <1>8, <1>9, <1>10

===============================================================================

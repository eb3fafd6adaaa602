------------------------------ MODULE HostInput ------------------------------
(****************************************************************************)
(* Input to a terminal in a terminal host: the callers of a HostTerminal    *)
(* (send_input, InputSequence, send_paste), the task that owns the          *)
(* connection (Runtime of farhelm-supervisor/src/hosts/terminal.rs), the    *)
(* client's window and the host that writes to the program. The connection  *)
(* may be lost at any moment and is made again; input is never sent twice,  *)
(* its fate is told, and a paste is never left open or mixed with anything. *)
(*                                                                          *)
(* An Input is a few units long, the grain at which the pty takes it. The   *)
(* host is the one of module TerminalHost, with all but input left out. A   *)
(* pty that refuses input once refuses it for good.                         *)
(****************************************************************************)
EXTENDS Naturals, Sequences, FiniteSets, SequencesExt

CONSTANTS
  Callers,
  Script,      \* what each caller sends: [pieces, bracketed] in order
  Sequenced,   \* the callers that send through one InputSequence
  None,
  PIECE,       \* units of a caller's Input and of MAX_INPUT
  WINDOW,      \* INPUT_WINDOW, in Inputs
  QUEUE,       \* INPUT_QUEUE
  MAX_PASTE,   \* the paste budget, in Inputs
  MAX_ANSWERS, \* MAX_PENDING_ANSWERS, in units
  Answers,     \* bound on the program's queries
  MaxLosses    \* bound on lost connections (RECONNECT_LIMIT is 3)

ASSUME InputAssumption ==
  /\ PIECE \in Nat \ {0} /\ WINDOW \in Nat \ {0} /\ QUEUE \in Nat \ {0}
  /\ MAX_PASTE \in Nat /\ MAX_ANSWERS \in Nat /\ Answers \in Nat /\ MaxLosses \in Nat
  /\ Sequenced \subseteq Callers
  /\ None \notin Callers
  /\ \A c \in Callers : \A i \in DOMAIN Script[c] :
       /\ Script[c][i].pieces \in 1 .. MAX_PASTE
       /\ Script[c][i].bracketed \in BOOLEAN
       /\ Script[c][i].pieces > 1 \/ Script[c][i].bracketed => c \in Sequenced

VARIABLES
  caller,   \* what each caller is doing
  epoch,    \* Inner::epoch
  channel,  \* the task's channel of requests
  budget,   \* what is left of Inner::paste_budget
  rt,       \* the task: "up", "dialing" or "ended"
  broken,   \* the connection has ended and the task has not noticed
  pending, inflight, counts, open_pastes,
  asked,    \* queries answered so far
  wire,     \* Inputs sent and not yet read by the host
  hq, done, \* the host's pending Inputs, and the units written of the first
  total,    \* the totals of the connection at the host
  acks,     \* acknowledgements on their way
  deaf,     \* the pty refuses input
  wrote,    \* history: units of each piece that reached the program
  got,      \* history: the last answer that reached the program
  mode,     \* history: the bracketed paste the program is in
  mixed,    \* history: something else reached it inside one
  fate,     \* what each piece's receipt says
  losses

client == <<caller, channel, budget>>
task == <<rt, pending, inflight, counts, open_pastes, epoch>>
host == <<wire, hq, done, total, acks, deaf>>
program == <<wrote, got, mode, mixed>>
vars == <<client, task, host, program, broken, asked, fate, losses>>

Pieces == UNION {UNION {{<<c, i, p>> : p \in 1 .. Script[c][i].pieces}
                        : i \in DOMAIN Script[c]} : c \in Callers}
Of(c, i) == {x \in Pieces : x[1] = c /\ x[2] = i}
Paste(c, i) == Script[c][i].pieces > 1 \/ Script[c][i].bracketed
Share(c, i) == IF Paste(c, i) THEN Script[c][i].pieces ELSE 0

\* Outgoing: a caller's piece, answers packed together, an owed closing marker.
Item(from, id, ids, opens, closes, len) ==
  [from |-> from, id |-> id, ids |-> ids, opens |-> opens, closes |-> closes, len |-> len]
PieceItem(c, i, p) ==
  Item("caller", <<c, i, p>>, <<>>, Script[c][i].bracketed /\ p = 1,
       Script[c][i].bracketed /\ p = Script[c][i].pieces, PIECE)
Recovery == Item("recovery", None, <<>>, TRUE, TRUE, PIECE)
Answer(ids) == Item("answer", None, ids, FALSE, FALSE, Len(ids))

Units(items) == FoldLeft(LAMBDA n, x : n + x.len, 0, items)
IsAnswer(x) == x.from = "answer"
IsCaller(x) == x.from = "caller"
IdsOf(items) == {x.id : x \in Range(SelectSeq(items, IsCaller))}

\* The pastes whose last piece still waits hold their share of the budget.
Held(items) ==
  FoldLeft(LAMBDA n, x : n + IF IsCaller(x) /\ x.id[3] = Script[x.id[1]][x.id[2]].pieces
                             THEN Share(x.id[1], x.id[2]) ELSE 0, 0, items)

Init ==
  /\ caller = [c \in Callers |-> [pc |-> "idle", part |-> 1, epoch |-> 0]]
  /\ epoch = 0 /\ channel = <<>> /\ budget = MAX_PASTE
  /\ rt = "up" /\ broken = FALSE
  /\ pending = <<>> /\ inflight = <<>> /\ counts = [written |-> 0, discarded |-> 0]
  /\ open_pastes = 0 /\ asked = 0
  /\ wire = <<>> /\ hq = <<>> /\ done = 0 /\ acks = <<>> /\ deaf = FALSE
  /\ total = [written |-> 0, discarded |-> 0]
  /\ wrote = [x \in Pieces |-> 0]
  /\ got = 0 /\ mode = None /\ mixed = FALSE
  /\ fate = [x \in Pieces |-> None]
  /\ losses = 0

Tell(ids, what) == fate' = [x \in Pieces |-> IF x \in ids /\ fate[x] = None THEN what ELSE fate[x]]

-----------------------------------------------------------------------------
(* Callers.                                                                 *)

\* A sequence carries the epoch it was made in, a single send_input that of
\* the call. A paste waits for its share of the budget first.
call(c) ==
  LET i == caller[c].part
  IN /\ caller[c].pc = "idle" /\ i \in DOMAIN Script[c]
     /\ caller' = [caller EXCEPT ![c].pc = IF Paste(c, i) THEN "budget" ELSE "send",
                     ![c].epoch = IF c \in Sequenced /\ i > 1 THEN @ ELSE epoch]
     /\ UNCHANGED <<channel, budget, task, host, program, broken, asked, fate, losses>>

acquire(c) ==
  LET n == Share(c, caller[c].part)
  IN /\ caller[c].pc = "budget" /\ n <= budget
     /\ budget' = budget - n
     /\ caller' = [caller EXCEPT ![c].pc = "send"]
     /\ UNCHANGED <<channel, task, host, program, broken, asked, fate, losses>>

queue_input(c) ==
  /\ caller[c].pc = "send" /\ rt # "ended" /\ Len(channel) < QUEUE
  /\ channel' = Append(channel, [c |-> c, part |-> caller[c].part, epoch |-> caller[c].epoch])
  /\ caller' = [caller EXCEPT ![c].pc = "idle", ![c].part = @ + 1]
  /\ UNCHANGED <<budget, task, host, program, broken, asked, fate, losses>>

\* Refused as ended, or the caller goes away while it waits; its share of the
\* budget is dropped with the request.
give_up(c) ==
  /\ caller[c].pc \in {"budget", "send"}
  /\ budget' = IF caller[c].pc = "send" THEN budget + Share(c, caller[c].part) ELSE budget
  /\ caller' = [caller EXCEPT ![c].pc = "gone"]
  /\ UNCHANGED <<channel, task, host, program, broken, asked, fate, losses>>

-----------------------------------------------------------------------------
(* The task: Runtime::turn, send_pending.                                   *)

Accepting == pending = <<>>

Stale(r) == r.epoch < epoch

\* Mutant: the share of a paste that is not sent is not given back.
take_request_Leaks ==
  LET r == Head(channel)
  IN /\ rt = "up" /\ Accepting /\ channel # <<>>
     /\ channel' = Tail(channel)
     /\ \/ Stale(r) /\ Tell(Of(r.c, r.part), "NotSent") /\ UNCHANGED pending
        \/ /\ ~Stale(r)
           /\ pending' = pending \o
                [p \in 1 .. Script[r.c][r.part].pieces |-> PieceItem(r.c, r.part, p)]
           /\ UNCHANGED fate
     /\ UNCHANGED <<caller, budget, rt, inflight, counts, open_pastes, epoch, host, program,
                    broken, asked, losses>>

\* Wake::Input: a request of an older epoch is not sent; another goes in whole.
take_request ==
  LET r == Head(channel)
  IN /\ rt = "up" /\ Accepting /\ channel # <<>>
     /\ channel' = Tail(channel)
     /\ \/ /\ Stale(r)
           /\ Tell(Of(r.c, r.part), "NotSent")
           /\ budget' = budget + Share(r.c, r.part)
           /\ UNCHANGED pending
        \/ /\ ~Stale(r)
           /\ pending' = pending \o
                [p \in 1 .. Script[r.c][r.part].pieces |-> PieceItem(r.c, r.part, p)]
           /\ UNCHANGED <<fate, budget>>
     /\ UNCHANGED <<caller, rt, inflight, counts, open_pastes, epoch, host, program, broken,
                    asked, losses>>

\* A query of the program, answered: packed into the last waiting Input when
\* that is an answer with room, dropped when too many wait.
act_on_effects ==
  LET waiting == Units(SelectSeq(pending, IsAnswer))
      n == Len(pending)
      packs == n > 0 /\ IsAnswer(pending[n]) /\ pending[n].len < PIECE
  IN /\ rt = "up" /\ asked < Answers
     /\ asked' = asked + 1
     /\ pending' = IF waiting + 1 > MAX_ANSWERS THEN pending
                   ELSE IF packs THEN [pending EXCEPT ![n] = Answer(Append(@.ids, asked + 1))]
                   ELSE Append(pending, Answer(<<asked + 1>>))
     /\ UNCHANGED <<client, rt, inflight, counts, open_pastes, epoch, host, program, broken,
                    fate, losses>>

\* InputWindow::admit
Room == Len(inflight) < WINDOW

\* Sent as soon as it is queued, even if the connection turns out to be lost.
send_pending ==
  LET x == Head(pending)
  IN /\ rt = "up" /\ pending # <<>> /\ Room
     /\ pending' = Tail(pending)
     /\ inflight' = Append(inflight, x)
     /\ wire' = IF broken THEN wire ELSE Append(wire, x)
     /\ open_pastes' = IF x.opens THEN open_pastes + 1 ELSE open_pastes
     /\ budget' = budget + Held(<<x>>)
     /\ UNCHANGED <<caller, channel, rt, counts, epoch, hq, done, total, acks, deaf, program,
                    broken, asked, fate, losses>>

\* The inputs an acknowledgement resolves count as written first, in order.
Outcome(end, delta, x) == IF end <= delta THEN "Written" ELSE "Discarded"

\* Runtime::acknowledge
acknowledge ==
  LET ack == Head(acks)
      resolved == (ack.written + ack.discarded) - (counts.written + counts.discarded)
      n == Cardinality({k \in 1 .. Len(inflight) : Units(SubSeq(inflight, 1, k)) <= resolved})
      over == SubSeq(inflight, 1, n)
      told(k) == Outcome(Units(SubSeq(inflight, 1, k)), ack.written - counts.written, over[k])
      closed == Len(SelectSeq(over, LAMBDA x : x.closes))
  IN /\ rt = "up" /\ acks # <<>>
     /\ acks' = Tail(acks)
     /\ counts' = ack
     /\ inflight' = SubSeq(inflight, n + 1, Len(inflight))
     /\ open_pastes' = IF closed > open_pastes THEN 0 ELSE open_pastes - closed
     /\ fate' = [x \in Pieces |->
          IF \E k \in 1 .. n : IsCaller(over[k]) /\ over[k].id = x
          THEN told(CHOOSE k \in 1 .. n : IsCaller(over[k]) /\ over[k].id = x)
          ELSE fate[x]]
     /\ UNCHANGED <<client, rt, pending, epoch, wire, hq, done, total, deaf, program, broken,
                    asked, losses>>

-----------------------------------------------------------------------------
(* A lost connection: Runtime::reconnect, drop_caller_input, owe_paste_end. *)

lose ==
  /\ rt = "up" /\ ~broken /\ losses < MaxLosses
  /\ broken' = TRUE
  /\ losses' = losses + 1
  /\ UNCHANGED <<client, task, host, program, asked, fate>>

\* Mutant: only a paste whose own opening piece is in flight is cut short.
CutShort_Opening == \E x \in Range(inflight) : x.opens

CutShort == open_pastes > 0 /\ inflight # <<>>

Dropped == \E x \in Range(inflight) : IsCaller(x)

\* owe_paste_end: first on the new connection, once.
Owe(items) ==
  IF ~CutShort THEN items
  ELSE IF items # <<>> /\ Head(items).from = "recovery" THEN items
  ELSE <<Recovery>> \o items

\* What callers sent is dropped and the epoch moved before anything is told
\* unknown; the answers and the marker are kept.
reconnect ==
  LET kept == IF Dropped THEN SelectSeq(pending, LAMBDA x : ~IsCaller(x)) ELSE pending
      lost == IdsOf(inflight)
  IN /\ rt = "up" /\ broken
     /\ rt' = "dialing"
     /\ epoch' = IF Dropped THEN epoch + 1 ELSE epoch
     /\ fate' = [x \in Pieces |-> IF x \in lost THEN "Unknown"
                   ELSE IF Dropped /\ x \in IdsOf(pending) THEN "NotSent" ELSE fate[x]]
     /\ budget' = budget + (Held(pending) - Held(kept))
     /\ pending' = Owe(kept)
     /\ open_pastes' = IF CutShort THEN 0 ELSE open_pastes
     /\ inflight' = <<>>
     /\ counts' = [written |-> 0, discarded |-> 0]
     /\ UNCHANGED <<caller, channel, host, program, broken, asked, losses>>

\* The host takes the new connection and forgets the old one's input. A dial
\* may fail and be tried again.
resume ==
  /\ rt = "dialing"
  /\ rt' = "up" /\ broken' = FALSE
  /\ wire' = <<>> /\ hq' = <<>> /\ done' = 0 /\ acks' = <<>>
  /\ total' = [written |-> 0, discarded |-> 0]
  /\ UNCHANGED <<client, pending, inflight, counts, open_pastes, epoch, deaf, program, asked,
                 fate, losses>>

\* Mutant: input still in flight is told not sent.
finish_NotSent ==
  /\ rt \in {"up", "dialing"}
  /\ rt' = "ended"
  /\ Tell(IdsOf(inflight) \cup IdsOf(pending)
          \cup UNION {Of(r.c, r.part) : r \in Range(channel)}, "NotSent")
  /\ budget' = budget + Held(pending) + FoldLeft(LAMBDA n, r : n + Share(r.c, r.part), 0, channel)
  /\ channel' = <<>> /\ pending' = <<>> /\ inflight' = <<>>
  /\ UNCHANGED <<caller, counts, open_pastes, epoch, host, program, broken, asked, losses>>

\* The runtime ends: the host is gone or unavailable, the connection keeps
\* ending, a shutdown, no handle left. An abort says nothing, which a receipt
\* reads as unknown.
finish ==
  LET unsent == IdsOf(pending) \cup UNION {Of(r.c, r.part) : r \in Range(channel)}
  IN /\ rt \in {"up", "dialing"}
     /\ rt' = "ended"
     /\ \E said \in {"NotSent", "Unknown"} :
          fate' = [x \in Pieces |-> IF x \in IdsOf(inflight) THEN "Unknown"
                                    ELSE IF x \in unsent THEN said ELSE fate[x]]
     /\ budget' = budget + Held(pending)
                    + FoldLeft(LAMBDA n, r : n + Share(r.c, r.part), 0, channel)
     /\ channel' = <<>> /\ pending' = <<>> /\ inflight' = <<>>
     /\ UNCHANGED <<caller, counts, open_pastes, epoch, host, program, broken, asked, losses>>

-----------------------------------------------------------------------------
(* The host and the program. A host whose client is lost may go on until it *)
(* notices or takes the next connection.                                    *)

handle_input ==
  /\ wire # <<>>
  /\ hq' = Append(hq, Head(wire))
  /\ wire' = Tail(wire)
  /\ UNCHANGED <<client, task, done, total, acks, deaf, program, broken, asked, fate, losses>>

\* One unit of the first Input reaches the program.
write_input ==
  LET x == Head(hq)
      whole == done + 1 = x.len
      mine == IsCaller(x) /\ mode = <<x.id[1], x.id[2]>>
      opened == IF IsCaller(x) /\ x.opens /\ done = 0 THEN <<x.id[1], x.id[2]>> ELSE mode
  IN /\ hq # <<>> /\ ~deaf
     /\ wrote' = IF IsCaller(x) THEN [wrote EXCEPT ![x.id] = @ + 1] ELSE wrote
     /\ got' = IF IsAnswer(x) THEN x.ids[done + 1] ELSE got
     /\ mixed' = (mixed \/ (mode # None /\ ~mine /\ x.from # "recovery"))
     /\ mode' = IF whole /\ x.closes THEN None ELSE opened
     /\ hq' = IF whole THEN Tail(hq) ELSE hq
     /\ done' = IF whole THEN 0 ELSE done + 1
     /\ total' = IF whole THEN [total EXCEPT !.written = @ + x.len] ELSE total
     /\ UNCHANGED <<client, task, wire, acks, deaf, broken, asked, fate, losses>>

\* Nothing reads the terminal any more: everything pending is discarded.
discard_input ==
  /\ deaf' = TRUE
  /\ hq # <<>> \/ ~deaf
  /\ total' = [written |-> total.written + done, discarded |-> total.discarded + (Units(hq) - done)]
  /\ hq' = <<>> /\ done' = 0
  /\ UNCHANGED <<client, task, wire, acks, program, broken, asked, fate, losses>>

\* One acknowledgement for all that was resolved since the last.
send_ack ==
  LET last == IF acks = <<>> THEN counts ELSE acks[Len(acks)]
  IN /\ ~broken /\ total # last
     /\ acks' = Append(acks, total)
     /\ UNCHANGED <<client, task, wire, hq, done, total, deaf, program, broken, asked, fate,
                    losses>>

-----------------------------------------------------------------------------
Task == take_request \/ send_pending \/ acknowledge \/ reconnect \/ resume
Host == handle_input \/ write_input \/ send_ack

Next ==
  \/ \E c \in Callers : call(c) \/ acquire(c) \/ queue_input(c) \/ give_up(c)
  \/ Task \/ act_on_effects \/ lose \/ finish
  \/ Host \/ discard_input

Spec == Init /\ [][Next]_vars

-----------------------------------------------------------------------------
Items == [from : {"caller", "answer", "recovery"}, id : Pieces \cup {None},
          ids : Seq(1 .. Answers), opens : BOOLEAN, closes : BOOLEAN, len : 1 .. PIECE]
Totals == [written : Nat, discarded : Nat]

TypeOK ==
  /\ caller \in [Callers -> [pc : {"idle", "budget", "send", "gone"}, part : Nat, epoch : Nat]]
  /\ epoch \in 0 .. MaxLosses
  /\ channel \in Seq([c : Callers, part : Nat, epoch : Nat]) /\ Len(channel) <= QUEUE
  /\ budget \in 0 .. MAX_PASTE
  /\ rt \in {"up", "dialing", "ended"}
  /\ broken \in BOOLEAN /\ deaf \in BOOLEAN /\ mixed \in BOOLEAN
  /\ pending \in Seq(Items) /\ inflight \in Seq(Items) /\ wire \in Seq(Items) /\ hq \in Seq(Items)
  /\ Len(inflight) <= WINDOW
  /\ counts \in Totals /\ total \in Totals /\ acks \in Seq(Totals)
  /\ open_pastes \in 0 .. WINDOW + 1 /\ done \in 0 .. PIECE
  /\ asked \in 0 .. Answers /\ got \in 0 .. Answers
  /\ wrote \in [Pieces -> 0 .. PIECE]
  /\ fate \in [Pieces -> {"Written", "Discarded", "Unknown", "NotSent", None}]
  /\ losses \in 0 .. MaxLosses

\* A receipt never says what is not so: written input reached the program
\* whole, input not sent reached it nowhere and never will, discarded input
\* did not reach it whole (Runtime::acknowledge, reconnect, finish).
FatesHonest ==
  \A x \in Pieces :
    /\ fate[x] = "Written" => wrote[x] = PIECE
    /\ fate[x] = "NotSent" => wrote[x] = 0
    /\ fate[x] = "Discarded" => wrote[x] < PIECE

\* No piece reaches the program behind a hole in the sequence it belongs to,
\* however many connections were lost and whether or not its caller looked at
\* a receipt (the input epoch).
NoHole ==
  \A x, y \in Pieces :
    /\ x[1] = y[1] /\ x[1] \in Sequenced
    /\ x[2] < y[2] \/ (x[2] = y[2] /\ x[3] < y[3])
    /\ wrote[y] > 0
    => wrote[x] = PIECE

\* Nothing reaches the program inside a bracketed paste but the paste and the
\* marker that closes it (queue_request, owe_paste_end).
NothingInside == ~mixed

\* Every unit of the paste budget is free, or held by a paste that waits for
\* the channel, in it, or for the window; none is lost on any path.
BudgetAccounted ==
  LET waiting(c) == IF caller[c].pc = "send" THEN Share(c, caller[c].part) ELSE 0
      sum == FoldLeft(LAMBDA n, c : n + waiting(c), 0, SetToSeq(Callers))
  IN budget + sum + FoldLeft(LAMBDA n, r : n + Share(r.c, r.part), 0, channel)
       + Held(pending) = MAX_PASTE

AnswerIds(items) ==
  FlattenSeq([i \in 1 .. Len(items) |-> IF IsAnswer(items[i]) THEN items[i].ids ELSE <<>>])

\* The program's queries are answered in the order it asked and never twice:
\* so are the answers on their way, on this connection or a lost one the host
\* has not noticed the end of, and those kept for the next.
AnswersInOrder ==
  LET way == AnswerIds(hq \o wire \o pending)
      told == IF hq # <<>> /\ IsAnswer(Head(hq)) THEN done ELSE 0
  IN \A i \in 1 .. Len(way) : (i > told => way[i] > got) /\ \A k \in 1 .. (i - 1) : way[k] < way[i]

\* What reaches the program is whole and in order: no piece behind a hole,
\* nothing inside a paste, no answer late or twice.
StreamSound == NoHole /\ NothingInside /\ AnswersInOrder

\* However requests, pieces and totals were dropped, what is left adds up.
Consistent == TypeOK /\ BudgetAccounted
=============================================================================

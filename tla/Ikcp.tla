-------------------------------- MODULE Ikcp --------------------------------
(***************************************************************************)
(* The KCP control block (ikcp.c): retransmission, windows, selective and  *)
(* cumulative acknowledgement, fast resend, window probing and congestion  *)
(* window, as functions from control block to control block.               *)
(*                                                                         *)
(* Clocks are abstracted: which retransmission timers and whether the      *)
(* probe timer have expired is an argument of ikcp_flush.  The round-trip  *)
(* estimate only sets those timers and is left out with the time stamps.   *)
(* Fragments fill the MTU, so every data segment is a datagram of its own  *)
(* and acknowledgements and window commands share another.  Stream mode is *)
(* never switched on in this repository.                                   *)
(***************************************************************************)
EXTENDS Integers, Sequences, FiniteSets, SequencesExt, FiniteSetsExt

CONSTANTS
  SnMod,         \* sequence numbers count modulo SnMod (2^32 in the code)
  IKCP_WND_SND,  \* send window
  IKCP_WND_RCV,  \* receive window; also the limit for one message
  IKCP_FASTACK_LIMIT,
  IKCP_DEADLINK,
  Mss            \* bytes of a full segment

ASSUME WindowAssumption ==
  /\ IKCP_WND_SND \in Nat \ {0} /\ IKCP_WND_RCV \in Nat \ {0}
  /\ SnMod \in Nat /\ SnMod > 2 * (IKCP_WND_SND + IKCP_WND_RCV)
ASSUME LimitAssumption ==
  /\ IKCP_FASTACK_LIMIT \in Nat /\ IKCP_DEADLINK \in Nat \ {0} /\ Mss \in Nat \ {0}

IKCP_THRESH_INIT == 2
IKCP_THRESH_MIN == 2

\* The signed difference of two sequence numbers.
itimediff(later, earlier) ==
  LET d == (later - earlier) % SnMod
  IN  IF 2 * d < SnMod THEN d ELSE d - SnMod

Plus(sn, n) == (sn + n) % SnMod

LeastOf(m, n) == IF m < n THEN m ELSE n
GreatestOf(m, n) == IF m < n THEN n ELSE m

\* A control block after ikcp_create, when sn segments went each way before.
ikcp_create(sn) ==
  [snd_una |-> sn, snd_nxt |-> sn, rcv_nxt |-> sn,
   rmt_wnd |-> IKCP_WND_RCV, cwnd |-> 0, incr |-> 0, ssthresh |-> IKCP_THRESH_INIT,
   probe |-> {}, probe_wait |-> FALSE,
   snd_queue |-> <<>>, snd_buf |-> <<>>,
   rcv_buf |-> {}, rcv_queue |-> <<>>,
   acklist |-> {}, dead |-> FALSE]

-----------------------------------------------------------------------------
(* The user's side. *)

\* A message of count fragments, numbered downwards, joins the send queue;
\* one that the peer's initial window could not hold is refused.
ikcp_send(k, msg, count) ==
  IF count >= IKCP_WND_RCV THEN k
  ELSE [k EXCEPT !.snd_queue = @ \o [i \in 1 .. count |-> [msg |-> msg, frg |-> count - i]]]

\* In order and while the receive queue has room, segments leave rcv_buf.
MoveAvailable(k) ==
  LET room == IKCP_WND_RCV - Len(k.rcv_queue)
      held == {s.sn : s \in k.rcv_buf}
      n == Max({m \in 0 .. room : \A i \in 0 .. m - 1 : Plus(k.rcv_nxt, i) \in held})
      moved == [i \in 1 .. n |-> CHOOSE s \in k.rcv_buf : s.sn = Plus(k.rcv_nxt, i - 1)]
  IN  [k EXCEPT !.rcv_buf = @ \ ToSet(moved),
                !.rcv_queue = @ \o [i \in 1 .. n |-> [msg |-> moved[i].msg, frg |-> moved[i].frg]],
                !.rcv_nxt = Plus(@, n)]

\* Mutant of ikcp_peeksize: a fragment is taken for a message.
PeeksFragment(k) == IF k.rcv_queue = <<>> THEN 0 ELSE 1

\* The number of fragments of the first message if all have arrived; 0 if not.
\* The loop ends with fragment 0 or with the queue.
ikcp_peeksize(k) ==
  IF k.rcv_queue = <<>> \/ Len(k.rcv_queue) < Head(k.rcv_queue).frg + 1 THEN 0
  ELSE Min({i \in DOMAIN k.rcv_queue : k.rcv_queue[i].frg = 0} \union {Len(k.rcv_queue)})

\* Takes the first message out.  A queue that was full asks for the window to
\* be announced.
ikcp_recv(k) ==
  LET n == ikcp_peeksize(k)
      taken == MoveAvailable([k EXCEPT !.rcv_queue = SubSeq(@, n + 1, Len(@))])
  IN  [taken EXCEPT !.probe =
         IF Len(k.rcv_queue) >= IKCP_WND_RCV /\ Len(taken.rcv_queue) < IKCP_WND_RCV
         THEN @ \union {"TELL"} ELSE @]

-----------------------------------------------------------------------------
(* Input of a datagram. *)

ikcp_shrink_buf(k) ==
  [k EXCEPT !.snd_una = IF k.snd_buf = <<>> THEN k.snd_nxt ELSE Head(k.snd_buf).sn]

\* The first segments of snd_buf, as long as they lie n or more before una.
Before(k, una, n) ==
  Max({m \in 0 .. Len(k.snd_buf) : \A i \in 1 .. m : itimediff(una, k.snd_buf[i].sn) >= n})

\* Mutant of ikcp_parse_una: off by one.
ParsesUnaToo(k, una) ==
  [k EXCEPT !.snd_buf = SubSeq(@, Before(k, una, 0) + 1, Len(@))]

ikcp_parse_una(k, una) ==
  [k EXCEPT !.snd_buf = SubSeq(@, Before(k, una, 1) + 1, Len(@))]

\* The elements of s that are in S, in order.
Sift(s, S) ==
  LET upTo[i \in 0 .. Len(s)] ==
        IF i = 0 THEN <<>>
        ELSE IF s[i] \in S THEN Append(upTo[i - 1], s[i]) ELSE upTo[i - 1]
  IN  upTo[Len(s)]

ikcp_parse_ack(k, acks) ==
  [k EXCEPT !.snd_buf = Sift(@, {s \in ToSet(@) : s.sn \notin acks})]

Skipped(s, resent) == [s EXCEPT !.fastack = LeastOf(@ + 1, resent)]

\* The segments the newest acknowledgement skipped.
ikcp_parse_fastack(k, sn, resent) ==
  IF itimediff(sn, k.snd_una) < 0 \/ itimediff(sn, k.snd_nxt) >= 0 THEN k
  ELSE [k EXCEPT !.snd_buf = [i \in DOMAIN @ |->
          IF itimediff(sn, @[i].sn) > 0 THEN Skipped(@[i], resent) ELSE @[i]]]

\* A segment inside the window is kept unless it is there already.
ikcp_parse_data(k, seg) ==
  MoveAvailable(
    IF \E s \in k.rcv_buf : s.sn = seg.sn THEN k ELSE [k EXCEPT !.rcv_buf = @ \union {seg}])

\* Mutant of InputPush: segments before rcv_nxt are kept as well.
PushesOld(k, seg) ==
  IF itimediff(seg.sn, k.rcv_nxt + IKCP_WND_RCV) >= 0 THEN k
  ELSE ikcp_parse_data([k EXCEPT !.acklist = @ \union {seg.sn}], seg)

\* Whatever lies before the end of the window is acknowledged, what was
\* delivered before included.
InputPush(k, seg) ==
  LET acked == [k EXCEPT !.acklist = @ \union {seg.sn}]
  IN  IF itimediff(seg.sn, k.rcv_nxt + IKCP_WND_RCV) >= 0 THEN k
      ELSE IF itimediff(seg.sn, k.rcv_nxt) >= 0 THEN ikcp_parse_data(acked, seg)
      ELSE acked

\* The congestion window grows when snd_una advanced.
GrowCwnd(k) ==
  LET incr == GreatestOf(k.incr, Mss)
      avoid == incr + (Mss * Mss) \div incr + Mss \div 16
      grown ==
        IF k.cwnd < k.ssthresh THEN [k EXCEPT !.cwnd = @ + 1, !.incr = @ + Mss]
        ELSE [k EXCEPT !.incr = avoid,
                       !.cwnd = IF (@ + 1) * Mss <= avoid THEN (avoid + Mss - 1) \div Mss ELSE @]
  IN  IF k.cwnd >= k.rmt_wnd THEN k
      ELSE IF grown.cwnd > k.rmt_wnd
      THEN [grown EXCEPT !.cwnd = k.rmt_wnd, !.incr = k.rmt_wnd * Mss]
      ELSE grown

\* The segments of a datagram: window and una, acknowledgements, data, and the
\* question for the window.
InputSegments(k, d) ==
  LET una == ikcp_shrink_buf(ikcp_parse_una([k EXCEPT !.rmt_wnd = d.wnd], d.una))
      ack == ikcp_shrink_buf(ikcp_parse_ack(una, d.acks))
      data == IF d.push = <<>> THEN ack ELSE InputPush(ack, d.push[1])
  IN  IF "WASK" \in d.cmds THEN [data EXCEPT !.probe = @ \union {"TELL"}] ELSE data

\* After them the segments that were skipped, and the congestion window.
ikcp_input(k, d, resent) ==
  LET parsed == InputSegments(k, d)
      maxack == CHOOSE sn \in d.acks : \A other \in d.acks : itimediff(other, sn) <= 0
      skipped == IF d.acks = {} THEN parsed ELSE ikcp_parse_fastack(parsed, maxack, resent)
  IN  IF itimediff(skipped.snd_una, k.snd_una) > 0 THEN GrowCwnd(skipped) ELSE skipped

-----------------------------------------------------------------------------
(* Output. *)

ikcp_wnd_unused(k) == IKCP_WND_RCV - LeastOf(Len(k.rcv_queue), IKCP_WND_RCV)

Datagram(k, acks, cmds, push) ==
  [wnd |-> ikcp_wnd_unused(k), una |-> k.rcv_nxt, acks |-> acks, cmds |-> cmds, push |-> push]

\* While the peer's window is closed it is asked for from time to time.
ProbeWindow(k, probeDue) ==
  [k EXCEPT !.probe_wait = (k.rmt_wnd = 0),
            !.probe = IF k.rmt_wnd = 0 /\ k.probe_wait /\ probeDue THEN @ \union {"ASK"} ELSE @]

\* The window new segments may fill.
SendWindow(k, nocwnd) ==
  LET w == LeastOf(IKCP_WND_SND, k.rmt_wnd)
  IN  IF nocwnd THEN w ELSE LeastOf(k.cwnd, w)

\* Segments move from the queue to snd_buf and get their numbers.
FillSndBuf(k, cwnd) ==
  LET n == LeastOf(Len(k.snd_queue), GreatestOf(0, itimediff(k.snd_una + cwnd, k.snd_nxt)))
  IN  [k EXCEPT !.snd_queue = SubSeq(@, n + 1, Len(@)),
                !.snd_nxt = Plus(@, n),
                !.snd_buf = @ \o [i \in 1 .. n |->
                  [sn |-> Plus(k.snd_nxt, i - 1), frg |-> k.snd_queue[i].frg,
                   msg |-> k.snd_queue[i].msg, xmit |-> 0, fastack |-> 0]]]

\* Why a segment of snd_buf is sent: "new", "lost", "fast", or "no".
Reason(s, due, resent) ==
  CASE s.xmit = 0 -> "new"
    [] s.xmit > 0 /\ s.sn \in due -> "lost"
    [] s.xmit > 0 /\ s.sn \notin due /\ resent > 0 /\ s.fastack >= resent
         /\ s.xmit <= IKCP_FASTACK_LIMIT -> "fast"
    [] OTHER -> "no"

\* xmit is only compared with the two limits.
Transmitted(s, reason) ==
  IF reason = "no" THEN s
  ELSE [s EXCEPT !.xmit = LeastOf(@ + 1, GreatestOf(IKCP_DEADLINK, IKCP_FASTACK_LIMIT + 1)),
                 !.fastack = IF reason = "fast" THEN 0 ELSE @]

\* The congestion window after a fast resend and after a loss.
ShrinkCwnd(k, reasons, cwnd, resent) ==
  LET fast == IF "fast" \notin reasons THEN k
              ELSE LET t == GreatestOf(itimediff(k.snd_nxt, k.snd_una) \div 2, IKCP_THRESH_MIN)
                   IN  [k EXCEPT !.ssthresh = t, !.cwnd = t + resent, !.incr = (t + resent) * Mss]
      lost == IF "lost" \notin reasons THEN fast
              ELSE [fast EXCEPT !.ssthresh = GreatestOf(cwnd \div 2, IKCP_THRESH_MIN),
                                !.cwnd = 1, !.incr = Mss]
  IN  IF lost.cwnd < 1 THEN [lost EXCEPT !.cwnd = 1, !.incr = Mss] ELSE lost

\* The control block afterwards and the datagrams sent.
ikcp_flush(k, due, probeDue, resent, nocwnd) ==
  LET asks == ProbeWindow(k, probeDue)
      cmds == (IF "ASK" \in asks.probe THEN {"WASK"} ELSE {}) \union
              (IF "TELL" \in asks.probe THEN {"WINS"} ELSE {})
      cwnd == SendWindow(k, nocwnd)
      filled == FillSndBuf([asks EXCEPT !.acklist = {}, !.probe = {}], cwnd)
      why == [i \in DOMAIN filled.snd_buf |-> Reason(filled.snd_buf[i], due, resent)]
      sent == {i \in DOMAIN why : why[i] # "no"}
      buf == [i \in DOMAIN why |-> Transmitted(filled.snd_buf[i], why[i])]
      after == [filled EXCEPT !.snd_buf = buf,
                  !.dead = @ \/ \E i \in sent : buf[i].xmit >= IKCP_DEADLINK]
  IN  [kcp |-> ShrinkCwnd(after, ToSet(why), cwnd, resent),
       out |-> {Datagram(k, {}, {}, <<[sn |-> buf[i].sn, frg |-> buf[i].frg, msg |-> buf[i].msg]>>)
                  : i \in sent}
               \union (IF k.acklist = {} /\ cmds = {} THEN {}
                       ELSE {Datagram(k, k.acklist, cmds, <<>>)})]
=============================================================================

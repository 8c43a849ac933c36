----------------------------- MODULE KcpProofs -----------------------------
(***************************************************************************)
(* KCP: no control block leaves its windows, for every number of clients,  *)
(* every window, every modulus of the sequence numbers and whatever        *)
(* datagrams are lost, duplicated, reordered or come from a session that   *)
(* the other end has forgotten.                                            *)
(***************************************************************************)
EXTENDS KcpChat, SequenceTheorems, FiniteSetTheorems, WellFoundedInduction, TLAPS

-----------------------------------------------------------------------------
(* Types. *)

Sn == 0 .. SnMod - 1
Msg == {Alive} \union {Say(c, l) : c \in Client, l \in Line}
       \union {Joins(c) : c \in Client} \union {Leaves(c) : c \in Client}
Queued == [msg : Msg, frg : Nat]
Segment == [sn : Sn, frg : Nat, msg : Msg]
Flying == [sn : Sn, frg : Nat, msg : Msg, xmit : Nat, fastack : Nat]
Probes == {"ASK", "TELL"}
Block == [snd_una : Sn, snd_nxt : Sn, rcv_nxt : Sn,
          rmt_wnd : Nat, cwnd : Nat, incr : Nat, ssthresh : Nat,
          probe : SUBSET Probes, probe_wait : BOOLEAN,
          snd_queue : Seq(Queued), snd_buf : Seq(Flying),
          rcv_buf : SUBSET Segment, rcv_queue : Seq(Queued),
          acklist : SUBSET Sn, dead : BOOLEAN]
Dgram == [wnd : Nat, una : Sn, acks : SUBSET Sn, cmds : SUBSET {"WASK", "WINS"},
          push : {s \in Seq(Segment) : Len(s) <= 1}]

-----------------------------------------------------------------------------
(* The inductive invariant. *)

\* How far a lies ahead of b.
Off(a, b) == (a - b) % SnMod

\* The segments of buf lie between una and nxt, in order, and there are no
\* more of them than the send window has room for.
InOrder(una, nxt, buf) ==
  /\ Off(nxt, una) <= IKCP_WND_SND
  /\ \A i \in 1 .. Len(buf) : Off(buf[i].sn, una) < Off(nxt, una)
  /\ \A i, j \in 1 .. Len(buf) : i < j => Off(buf[i].sn, una) < Off(buf[j].sn, una)

\* snd_una is the first segment that was not acknowledged.
Oldest(una, nxt, buf) == una = IF buf = <<>> THEN nxt ELSE buf[1].sn

\* The segments of buf lie in the window that starts with nxt, each once.
Inside(nxt, buf) ==
  /\ IsFiniteSet(buf)
  /\ \A x \in buf : Off(x.sn, nxt) < IKCP_WND_RCV
  /\ \A x, y \in buf : x.sn = y.sn => x = y

SndOK(k) == InOrder(k.snd_una, k.snd_nxt, k.snd_buf)
RcvOK(k) == Inside(k.rcv_nxt, k.rcv_buf) /\ Len(k.rcv_queue) <= IKCP_WND_RCV

\* The blocks of a session between two calls, and within ikcp_input before
\* snd_una is brought up to date.
Open == {k \in Block : SndOK(k) /\ RcvOK(k)}
Good == {k \in Open : Oldest(k.snd_una, k.snd_nxt, k.snd_buf)}

BlocksGood ==
  /\ opt.resend \in Nat
  /\ kcp \in [Client -> Good]
  /\ DOMAIN session \subseteq Client /\ session \in [DOMAIN session -> Good]
  /\ "app" \in DOMAIN left /\ (left.app = "demo" => DOMAIN session = Client)
  /\ up \in [Client -> SUBSET Dgram] /\ down \in [Client -> SUBSET Dgram]

-----------------------------------------------------------------------------
(* Sequence numbers.                                                        *)

\* The remainder of a number at most twice the modulus away from zero.
LEMMA Remainder ==
  ASSUME NEW x \in Int
  PROVE  /\ x % SnMod \in Sn
         /\ 0 <= x /\ x < SnMod => x % SnMod = x
         /\ SnMod <= x /\ x < 2 * SnMod => x % SnMod = x - SnMod
         /\ x < 0 /\ 0 <= x + SnMod => x % SnMod = x + SnMod
         /\ x + SnMod < 0 /\ 0 <= x + 2 * SnMod => x % SnMod = x + 2 * SnMod
<1>1. SnMod \in Nat /\ SnMod > 0
  BY WindowAssumption
<1>2. x % SnMod \in 0 .. SnMod - 1
  BY <1>1
<1>3. 0 <= x /\ x < SnMod => x % SnMod = x
  BY <1>1
<1>4. SnMod <= x /\ x < 2 * SnMod => x % SnMod = x - SnMod
  BY <1>1
<1>5. x < 0 /\ 0 <= x + SnMod => x % SnMod = x + SnMod
  BY <1>1
<1>6. x + SnMod < 0 /\ 0 <= x + 2 * SnMod => x % SnMod = x + 2 * SnMod
  BY <1>1
<1> QED
  BY <1>2, <1>3, <1>4, <1>5, <1>6 DEF Sn

\* The distance of two sequence numbers.
LEMMA OffCases ==
  ASSUME NEW a \in Sn, NEW b \in Sn
  PROVE  Off(a, b) \in Sn /\ Off(a, b) = IF b <= a THEN a - b ELSE a - b + SnMod
<1>1. SnMod \in Nat /\ a \in Int /\ b \in Int /\ 0 <= a /\ a < SnMod /\ 0 <= b /\ b < SnMod /\ a - b \in Int
  BY WindowAssumption DEF Sn
<1>2. PICK x \in Int : x = a - b
  BY <1>1
<1>3. /\ x % SnMod \in Sn
      /\ 0 <= x /\ x < SnMod => x % SnMod = x
      /\ x < 0 /\ 0 <= x + SnMod => x % SnMod = x + SnMod
  BY Remainder
<1>4. Off(a, b) = x % SnMod
  BY <1>2 DEF Off
<1>5. CASE b <= a
  BY <1>1, <1>2, <1>3, <1>4, <1>5
<1>6. CASE ~(b <= a)
  BY <1>1, <1>2, <1>3, <1>4, <1>6
<1> QED
  BY <1>5, <1>6

\* It is a natural number.
LEMMA OffNat ==
  ASSUME NEW a \in Sn, NEW b \in Sn
  PROVE  Off(a, b) \in Nat /\ Off(a, b) < SnMod
  BY OffCases, WindowAssumption DEF Sn

\* A number n ahead of b.
LEMMA PlusCases ==
  ASSUME NEW b \in Sn, NEW n \in Nat, n < SnMod
  PROVE  /\ Plus(b, n) \in Sn /\ Plus(b, n) = IF b + n < SnMod THEN b + n ELSE b + n - SnMod
         /\ Off(Plus(b, n), b) = n
<1>1. SnMod \in Nat /\ b \in Int /\ 0 <= b /\ b < SnMod /\ b + n \in Int
  BY WindowAssumption DEF Sn
<1>2. Plus(b, n) \in Sn /\ Plus(b, n) = IF b + n < SnMod THEN b + n ELSE b + n - SnMod
  BY <1>1, Remainder DEF Plus
<1> QED
  BY <1>1, <1>2, OffCases

\* A number is as far ahead of b as Off says.
LEMMA OffPlus ==
  ASSUME NEW a \in Sn, NEW b \in Sn
  PROVE  a = Plus(b, Off(a, b))
<1>1. SnMod \in Nat /\ a \in Int /\ b \in Int /\ 0 <= a /\ a < SnMod /\ 0 <= b /\ b < SnMod
  BY WindowAssumption DEF Sn
<1>2. Off(a, b) \in Nat /\ Off(a, b) < SnMod /\ Off(a, b) = IF b <= a THEN a - b ELSE a - b + SnMod
  BY <1>1, OffCases DEF Sn
<1> QED
  BY <1>1, <1>2, PlusCases

\* Two numbers at the same distance are the same.
LEMMA OffInjective ==
  ASSUME NEW a \in Sn, NEW c \in Sn, NEW b \in Sn, Off(a, b) = Off(c, b)
  PROVE  a = c
  BY OffPlus

\* The distance from a later start.
LEMMA OffShift ==
  ASSUME NEW a \in Sn, NEW b \in Sn, NEW c \in Sn, Off(b, c) <= Off(a, c)
  PROVE  Off(a, b) = Off(a, c) - Off(b, c)
<1>1. SnMod \in Nat /\ a \in Int /\ b \in Int /\ c \in Int /\ 0 <= a /\ a < SnMod /\ 0 <= b /\ b < SnMod /\ 0 <= c /\ c < SnMod
  BY WindowAssumption DEF Sn
<1>2. /\ Off(a, b) = IF b <= a THEN a - b ELSE a - b + SnMod
      /\ Off(a, c) = IF c <= a THEN a - c ELSE a - c + SnMod
      /\ Off(b, c) = IF c <= b THEN b - c ELSE b - c + SnMod
  BY <1>1, OffCases
<1> QED
  BY <1>1, <1>2

\* The signed difference, of a number up to half a round ahead or behind.
LEMMA DiffCases ==
  ASSUME NEW a \in Sn, NEW b \in Sn
  PROVE  itimediff(a, b) = IF 2 * Off(a, b) < SnMod THEN Off(a, b) ELSE Off(a, b) - SnMod
  BY DEF itimediff, Off

-----------------------------------------------------------------------------
(* Least and greatest numbers, and recursive functions.                     *)

\* A non-empty set of naturals has a least element.
LEMMA Least ==
  ASSUME NEW S, S \subseteq Nat, S # {}
  PROVE  \E m \in S : \A j \in S : m <= j
<1>1. PICK x \in S : \A y \in S : ~(<<y, x>> \in OpToRel(<, Nat))
  BY NatLessThanWellFounded, WFMin
<1>2. ASSUME NEW y \in S, y < x PROVE FALSE
  <2>1. <<y, x>> \in Nat \X Nat /\ <<y, x>>[1] = y /\ <<y, x>>[2] = x /\ <<y, x>>[1] < <<y, x>>[2]
    BY <1>2
  <2>2. <<y, x>> \in OpToRel(<, Nat)
    BY <2>1, Zenon DEF OpToRel
  <2> QED
    BY <1>1, <2>2
<1> QED
  BY <1>2

\* Min finds it.
LEMMA MinIsLeast ==
  ASSUME NEW S, S \subseteq Nat, S # {}
  PROVE  Min(S) \in S /\ \A j \in S : Min(S) <= j
<1>1. \E m \in S : \A j \in S : m =< j
  BY Least
<1> QED
  BY <1>1 DEF Min

\* Max finds the greatest element of a bounded set.
LEMMA MaxIsGreatest ==
  ASSUME NEW n \in Nat, NEW S, S \subseteq 0 .. n, S # {}
  PROVE  Max(S) \in S /\ \A j \in S : j <= Max(S)
<1>1. PICK R : R = {x \in Nat : \E y \in S : x = n - y}
  OBVIOUS
<1>2. R # {} /\ R \subseteq Nat
  <2>1. PICK y \in S : TRUE
    OBVIOUS
  <2>2. n - y \in Nat
    OBVIOUS
  <2>3. n - y \in R
    BY <1>1, <2>2
  <2> QED
    BY <1>1, <2>3
<1>3. PICK m \in R : \A j \in R : m <= j
  BY <1>2, Least
<1>4. PICK y \in S : m = n - y
  BY <1>1
<1>5. ASSUME NEW z \in S PROVE y >= z
  <2>1. n - z \in R
    BY <1>1
  <2>2. n \in Int /\ z \in Int /\ y \in Int /\ m <= n - z
    BY <1>3, <2>1
  <2> QED
    BY <1>4, <2>2
<1>6. \E x \in S : \A z \in S : x >= z
  BY <1>5
<1>7. Max(S) \in S /\ \A z \in S : Max(S) >= z
  BY <1>6 DEF Max
<1> QED
  BY <1>7

\* h is a on 0 and what G makes of its last value on the others.
Iterates(h, n, a, G) ==
  /\ h = [i \in 0 .. n |-> h[i]]
  /\ h[0] = a
  /\ \A i \in 1 .. n : h[i] = G[<<h[i - 1], i>>]

\* A function on 0 .. n can be defined by what it is at 0 and by how its next
\* value depends on the last one.
LEMMA Recursion ==
  ASSUME NEW n \in Nat, NEW a, NEW G
  PROVE  \E h : Iterates(h, n, a, G)
<1>1. PICK S : S = {m \in Nat : ~\E h : Iterates(h, m, a, G)}
  OBVIOUS
<1>2. S \subseteq Nat
  BY <1>1
<1> SUFFICES ASSUME S # {} PROVE FALSE
  BY <1>1
<1>3. PICK m \in S : \A j \in S : m <= j
  BY <1>2, Least
<1>4. m \in Nat /\ ~\E h : Iterates(h, m, a, G)
  BY <1>1, <1>3
<1>5. m # 0
  <2>1. PICK h : h = [i \in 0 .. 0 |-> a]
    OBVIOUS
  <2>2. Iterates(h, 0, a, G)
    BY <2>1 DEF Iterates
  <2> QED
    BY <1>4, <2>2
<1>6. m - 1 \in Nat /\ m - 1 \notin S
  BY <1>3, <1>4, <1>5
<1>7. PICK h : Iterates(h, m - 1, a, G)
  BY <1>1, <1>6
<1>8. PICK g : g = [i \in 0 .. m |-> IF i = m THEN G[<<h[m - 1], m>>] ELSE h[i]]
  OBVIOUS
<1>9. h[0] = a /\ \A i \in 1 .. m - 1 : h[i] = G[<<h[i - 1], i>>]
  BY <1>7 DEF Iterates
<1>10. g[0] = a
  BY <1>4, <1>5, <1>8, <1>9
<1>11. ASSUME NEW i \in 1 .. m PROVE g[i] = G[<<g[i - 1], i>>]
  <2>1. i - 1 \in 0 .. m /\ i - 1 # m /\ i \in 0 .. m
    BY <1>4
  <2>2. g[i - 1] = h[i - 1]
    BY <1>8, <2>1
  <2>3. CASE i = m
    BY <1>8, <2>1, <2>2, <2>3
  <2>4. CASE i # m
    BY <1>4, <1>8, <1>9, <2>1, <2>2, <2>4
  <2> QED
    BY <2>3, <2>4
<1>12. Iterates(g, m, a, G)
  BY <1>8, <1>10, <1>11 DEF Iterates
<1> QED
  BY <1>4, <1>12

\* What holds of the first value and is kept from one value to the next holds
\* of all values; V[i] are the values allowed at i.
LEMMA Induct ==
  ASSUME NEW n \in Nat, NEW h, NEW V, h[0] \in V[0],
         \A i \in 1 .. n : h[i - 1] \in V[i - 1] => h[i] \in V[i]
  PROVE  \A i \in 0 .. n : h[i] \in V[i]
<1>1. PICK S : S = {m \in 0 .. n : h[m] \notin V[m]}
  OBVIOUS
<1>2. S \subseteq Nat
  BY <1>1
<1> SUFFICES ASSUME S # {} PROVE FALSE
  BY <1>1
<1>3. PICK m \in S : \A j \in S : m <= j
  BY <1>2, Least
<1>4. m \in 0 .. n /\ m # 0 /\ h[m] \notin V[m]
  BY <1>1, <1>3
<1>5. m - 1 \in 0 .. n /\ m \in 1 .. n /\ ~(m <= m - 1)
  BY <1>4
<1>6. m - 1 \notin S
  BY <1>3, <1>5
<1>7. h[m - 1] \in V[m - 1]
  BY <1>1, <1>5, <1>6
<1> QED
  BY <1>4, <1>5, <1>7

\* A recursive function whose step keeps a set V has its values there.
LEMMA RecursionIn ==
  ASSUME NEW n \in Nat, NEW V, NEW a \in V, NEW G,
         \A x \in V : \A i \in 1 .. n : G[<<x, i>>] \in V
  PROVE  \E h : /\ Iterates(h, n, a, G)
                /\ \A i \in 0 .. n : h[i] \in V
<1>1. PICK h : Iterates(h, n, a, G)
  BY Recursion
<1>2. PICK W : W = [i \in 0 .. n |-> V]
  OBVIOUS
<1>3. h[0] = a /\ \A i \in 1 .. n : h[i] = G[<<h[i - 1], i>>]
  BY <1>1 DEF Iterates
<1>4. h[0] \in W[0]
  BY <1>2, <1>3
<1>5. ASSUME NEW i \in 1 .. n, h[i - 1] \in W[i - 1] PROVE h[i] \in W[i]
  <2>1. i - 1 \in 0 .. n /\ i \in 0 .. n
    OBVIOUS
  <2>2. W[i - 1] = V /\ W[i] = V
    BY <1>2, <2>1
  <2> QED
    BY <1>3, <1>5, <2>2
<1>6. \A i \in 0 .. n : h[i] \in W[i]
  BY <1>4, <1>5, Induct
<1> QED
  BY <1>1, <1>2, <1>6

-----------------------------------------------------------------------------
(* Sifting a list.                                                          *)

\* Sift is the loop it says it is.
LEMMA SiftLoop ==
  ASSUME NEW T, NEW s \in Seq(T), NEW S
  PROVE  \E f : /\ f = [i \in 0 .. Len(s) |-> IF i = 0 THEN <<>>
                          ELSE IF s[i] \in S THEN Append(f[i - 1], s[i]) ELSE f[i - 1]]
                /\ Sift(s, S) = f[Len(s)]
                /\ \A i \in 0 .. Len(s) : f[i] \in Seq(T)
<1>1. PICK n \in Nat : n = Len(s)
  OBVIOUS
<1>2. PICK G : G = [x \in Seq(T) \X (1 .. n) |-> IF s[x[2]] \in S THEN Append(x[1], s[x[2]]) ELSE x[1]]
  OBVIOUS
<1>3. \A q \in Seq(T) : \A i \in 1 .. n :
        G[<<q, i>>] = (IF s[i] \in S THEN Append(q, s[i]) ELSE q)
  <2> SUFFICES ASSUME NEW q \in Seq(T), NEW i \in 1 .. n
               PROVE  G[<<q, i>>] = (IF s[i] \in S THEN Append(q, s[i]) ELSE q)
    OBVIOUS
  <2>1. PICK x : x = <<q, i>>
    OBVIOUS
  <2>2. x \in Seq(T) \X (1 .. n) /\ x[1] = q /\ x[2] = i
    BY <2>1
  <2> QED
    BY <1>2, <2>1, <2>2
<1>4. \A q \in Seq(T) : \A i \in 1 .. n : G[<<q, i>>] \in Seq(T)
  <2> SUFFICES ASSUME NEW q \in Seq(T), NEW i \in 1 .. n PROVE G[<<q, i>>] \in Seq(T)
    OBVIOUS
  <2>1. s[i] \in T
    BY <1>1
  <2>2. CASE s[i] \in S
    <3>1. G[<<q, i>>] = Append(q, s[i])
      BY <1>3, <2>2
    <3>2. Append(q, s[i]) \in Seq(T)
      BY <2>1, AppendProperties
    <3> QED
      BY <3>1, <3>2
  <2>3. CASE s[i] \notin S
    BY <1>3, <2>3
  <2> QED
    BY <2>2, <2>3
<1>5. <<>> \in Seq(T)
  OBVIOUS
<1>6. PICK h : Iterates(h, n, <<>>, G) /\ \A i \in 0 .. n : h[i] \in Seq(T)
  BY <1>4, <1>5, RecursionIn
<1>7. PICK g : g = [i \in 0 .. n |-> IF i = 0 THEN <<>> ELSE IF s[i] \in S THEN Append(h[i - 1], s[i]) ELSE h[i - 1]]
  OBVIOUS
<1>8. \A i \in 0 .. n : g[i] = h[i]
  <2> SUFFICES ASSUME NEW i \in 0 .. n PROVE g[i] = h[i]
    OBVIOUS
  <2>1. CASE i = 0
    BY <1>6, <1>7, <2>1 DEF Iterates
  <2>2. CASE i # 0
    <3>1. i \in 1 .. n /\ h[i - 1] \in Seq(T)
      BY <1>6, <2>2
    <3>2. h[i] = G[<<h[i - 1], i>>]
      BY <1>6, <3>1 DEF Iterates
    <3> QED
      BY <1>3, <1>7, <2>2, <3>1, <3>2
  <2> QED
    BY <2>1, <2>2
<1>9. h = [i \in 0 .. n |-> h[i]]
  BY <1>6 DEF Iterates
<1>10. g = h
  BY <1>7, <1>8, <1>9
<1>11. \E f : f = [i \in 0 .. Len(s) |-> IF i = 0 THEN <<>> ELSE IF s[i] \in S THEN Append(f[i - 1], s[i]) ELSE f[i - 1]]
  BY <1>1, <1>7, <1>10
<1>12. PICK f : f = CHOOSE upTo : upTo = [i \in 0 .. Len(s) |-> IF i = 0 THEN <<>> ELSE IF s[i] \in S THEN Append(upTo[i - 1], s[i]) ELSE upTo[i - 1]]
  OBVIOUS
<1>13. f = [i \in 0 .. Len(s) |-> IF i = 0 THEN <<>> ELSE IF s[i] \in S THEN Append(f[i - 1], s[i]) ELSE f[i - 1]]
  BY <1>11, <1>12
<1>14. Sift(s, S) = f[Len(s)]
  BY <1>12 DEF Sift
<1>15. \A i \in 0 .. n : f[i] \in Seq(T)
  <2>1. PICK W : W = [i \in 0 .. n |-> Seq(T)]
    OBVIOUS
  <2>2. f[0] = <<>> /\ \A i \in 1 .. n : f[i] = IF s[i] \in S THEN Append(f[i - 1], s[i]) ELSE f[i - 1]
    <3>1. f[0] = <<>>
      BY <1>1, <1>13
    <3> SUFFICES ASSUME NEW i \in 1 .. n
                 PROVE  f[i] = IF s[i] \in S THEN Append(f[i - 1], s[i]) ELSE f[i - 1]
      BY <3>1
    <3>2. i \in 0 .. Len(s) /\ i # 0
      BY <1>1
    <3> QED
      BY <1>13, <3>2
  <2>3. f[0] \in W[0]
    BY <1>5, <2>1, <2>2
  <2>4. ASSUME NEW i \in 1 .. n, f[i - 1] \in W[i - 1] PROVE f[i] \in W[i]
    <3>1. i - 1 \in 0 .. n /\ i \in 0 .. n /\ s[i] \in T
      BY <1>1
    <3>2. W[i - 1] = Seq(T) /\ W[i] = Seq(T)
      BY <2>1, <3>1
    <3>3. f[i - 1] \in Seq(T) /\ Append(f[i - 1], s[i]) \in Seq(T)
      BY <2>4, <3>1, <3>2, AppendProperties
    <3>4. f[i] \in Seq(T)
      BY <2>2, <3>3
    <3> QED
      BY <3>2, <3>4
  <2>5. \A i \in 0 .. n : f[i] \in W[i]
    BY <2>3, <2>4, Induct
  <2> QED
    BY <2>1, <2>5
<1> QED
  BY <1>1, <1>13, <1>14, <1>15

\* The elements of r are among the first n of s, in the same order.
FromFirst(r, s, n) ==
  \E m \in [1 .. Len(r) -> 1 .. n] :
    /\ \A j \in 1 .. Len(r) : r[j] = s[m[j]]
    /\ \A j, l \in 1 .. Len(r) : j < l => m[j] < m[l]

\* One round of the loop.
LEMMA SiftRound ==
  ASSUME NEW T, NEW s \in Seq(T), NEW S, NEW i \in 1 .. Len(s), NEW q \in Seq(T), FromFirst(q, s, i - 1)
  PROVE  FromFirst(q, s, i) /\ FromFirst(Append(q, s[i]), s, i)
<1>1. PICK n \in Nat : n = Len(q)
  OBVIOUS
<1>2. PICK m \in [1 .. n -> 1 .. i - 1] :
        /\ \A j \in 1 .. n : q[j] = s[m[j]]
        /\ \A j, l \in 1 .. n : j < l => m[j] < m[l]
  BY <1>1 DEF FromFirst
<1>3. FromFirst(q, s, i)
  <2>1. m \in [1 .. n -> 1 .. i]
    BY <1>2
  <2> QED
    BY <1>1, <1>2, <2>1 DEF FromFirst
<1>4. PICK r : r = Append(q, s[i])
  OBVIOUS
<1>5. Len(r) = n + 1 /\ r[n + 1] = s[i] /\ \A j \in 1 .. n : r[j] = q[j]
  <2>1. s[i] \in T
    OBVIOUS
  <2> QED
    BY <1>1, <1>4, <2>1, AppendProperties
<1>6. PICK g : g = [j \in 1 .. n + 1 |-> IF j = n + 1 THEN i ELSE m[j]]
  OBVIOUS
<1>7. g \in [1 .. n + 1 -> 1 .. i]
  <2> SUFFICES ASSUME NEW j \in 1 .. n + 1 PROVE (IF j = n + 1 THEN i ELSE m[j]) \in 1 .. i
    BY <1>6
  <2>1. CASE j = n + 1
    BY <2>1
  <2>2. CASE j # n + 1
    <3>1. j \in 1 .. n
      BY <2>2
    <3>2. m[j] \in 1 .. i - 1
      BY <1>2, <3>1
    <3> QED
      BY <2>2, <3>2
  <2> QED
    BY <2>1, <2>2
<1>8. \A j \in 1 .. n + 1 : r[j] = s[g[j]]
  BY <1>2, <1>5, <1>6
<1>9. ASSUME NEW j \in 1 .. n + 1, NEW l \in 1 .. n + 1, j < l PROVE g[j] < g[l]
  <2>1. j \in 1 .. n /\ g[j] = m[j] /\ m[j] \in 1 .. i - 1
    BY <1>2, <1>6, <1>9
  <2>2. CASE l = n + 1
    BY <1>6, <2>1, <2>2
  <2>3. CASE l # n + 1
    BY <1>2, <1>6, <1>9, <2>1, <2>3
  <2> QED
    BY <2>2, <2>3
<1>10. FromFirst(r, s, i)
  BY <1>5, <1>7, <1>8, <1>9 DEF FromFirst
<1> QED
  BY <1>3, <1>4, <1>10

\* What is left of a list, in the old order.
LEMMA SiftKeepsOrder ==
  ASSUME NEW T, NEW s \in Seq(T), NEW S
  PROVE  Sift(s, S) \in Seq(T) /\ FromFirst(Sift(s, S), s, Len(s))
<1>1. PICK f : /\ f = [i \in 0 .. Len(s) |-> IF i = 0 THEN <<>>
                        ELSE IF s[i] \in S THEN Append(f[i - 1], s[i]) ELSE f[i - 1]]
               /\ Sift(s, S) = f[Len(s)]
               /\ \A i \in 0 .. Len(s) : f[i] \in Seq(T)
  BY SiftLoop
<1>2. PICK n \in Nat : n = Len(s)
  OBVIOUS
<1>3. PICK V : V = [i \in 0 .. n |-> {q \in Seq(T) : FromFirst(q, s, i)}]
  OBVIOUS
<1>4. f[0] \in V[0]
  <2>1. f[0] = <<>> /\ <<>> \in Seq(T) /\ Len(<<>>) = 0
    BY <1>1
  <2>2. PICK m : m = [j \in 1 .. 0 |-> 0]
    OBVIOUS
  <2>3. m \in [1 .. 0 -> 1 .. 0] /\ \A j, l \in 1 .. 0 : FALSE
    BY <2>2
  <2>4. FromFirst(<<>>, s, 0)
    BY <2>1, <2>3 DEF FromFirst
  <2> QED
    BY <1>3, <2>1, <2>4
<1>5. ASSUME NEW i \in 1 .. n, f[i - 1] \in V[i - 1] PROVE f[i] \in V[i]
  <2>1. i - 1 \in 0 .. n /\ i \in 0 .. n /\ i # 0 /\ i \in 1 .. Len(s)
    BY <1>2
  <2>2. f[i - 1] \in Seq(T) /\ FromFirst(f[i - 1], s, i - 1)
    BY <1>3, <1>5, <2>1
  <2>3. f[i] = (IF s[i] \in S THEN Append(f[i - 1], s[i]) ELSE f[i - 1]) /\ f[i] \in Seq(T)
    BY <1>1, <1>2, <2>1
  <2>4. FromFirst(f[i - 1], s, i) /\ FromFirst(Append(f[i - 1], s[i]), s, i)
    BY <2>1, <2>2, SiftRound
  <2>5. FromFirst(f[i], s, i)
    BY <2>3, <2>4
  <2> QED
    BY <1>3, <2>1, <2>3, <2>5
<1>6. \A i \in 0 .. n : f[i] \in V[i]
  BY <1>4, <1>5, Induct
<1> QED
  BY <1>1, <1>2, <1>3, <1>6

-----------------------------------------------------------------------------
(* The send buffer.                                                         *)

\* A part of the buffer, in order, is in order.
LEMMA InOrderPart ==
  ASSUME NEW una \in Sn, NEW nxt \in Sn, NEW b \in Seq(Flying), InOrder(una, nxt, b),
         NEW r \in Seq(Flying), FromFirst(r, b, Len(b))
  PROVE  InOrder(una, nxt, r)
<1>1. PICK m \in [1 .. Len(r) -> 1 .. Len(b)] :
        /\ \A j \in 1 .. Len(r) : r[j] = b[m[j]]
        /\ \A j, l \in 1 .. Len(r) : j < l => m[j] < m[l]
  BY DEF FromFirst
<1>2. ASSUME NEW j \in 1 .. Len(r) PROVE Off(r[j].sn, una) < Off(nxt, una)
  BY <1>1 DEF InOrder
<1>3. ASSUME NEW j \in 1 .. Len(r), NEW l \in 1 .. Len(r), j < l PROVE Off(r[j].sn, una) < Off(r[l].sn, una)
  <2>1. m[j] \in 1 .. Len(b) /\ m[l] \in 1 .. Len(b) /\ m[j] < m[l] /\ r[j] = b[m[j]] /\ r[l] = b[m[l]]
    BY <1>1, <1>3
  <2> QED
    BY <2>1 DEF InOrder
<1> QED
  BY <1>2, <1>3 DEF InOrder

\* The rest of a list is a part of it, in order.
LEMMA RestIsPart ==
  ASSUME NEW T, NEW b \in Seq(T), NEW n \in 0 .. Len(b)
  PROVE  SubSeq(b, n + 1, Len(b)) \in Seq(T) /\ FromFirst(SubSeq(b, n + 1, Len(b)), b, Len(b))
         /\ Len(SubSeq(b, n + 1, Len(b))) = Len(b) - n
<1>1. PICK r : r = SubSeq(b, n + 1, Len(b))
  OBVIOUS
<1>2. r \in Seq(T) /\ Len(r) = Len(b) - n /\ \A j \in 1 .. Len(b) - n : r[j] = b[n + j]
  BY <1>1
<1>3. PICK m : m = [j \in 1 .. Len(r) |-> n + j]
  OBVIOUS
<1>4. m \in [1 .. Len(r) -> 1 .. Len(b)]
  BY <1>2, <1>3
<1>5. /\ \A j \in 1 .. Len(r) : r[j] = b[m[j]]
      /\ \A j, l \in 1 .. Len(r) : j < l => m[j] < m[l]
  BY <1>2, <1>3
<1>6. FromFirst(r, b, Len(b))
  BY <1>4, <1>5 DEF FromFirst
<1> QED
  BY <1>1, <1>2, <1>6

\* snd_una moves to the first segment.
LEMMA Shrinks ==
  ASSUME NEW una \in Sn, NEW nxt \in Sn, NEW b \in Seq(Flying), InOrder(una, nxt, b),
         NEW new, Oldest(new, nxt, b)
  PROVE  new \in Sn /\ InOrder(new, nxt, b)
<1>0. IKCP_WND_SND \in Nat /\ SnMod \in Nat /\ \A x \in Sn : x \in Int /\ 0 <= x
  BY WindowAssumption DEF Sn
<1>1. CASE b = <<>>
  <2>1. new = nxt /\ Len(b) = 0
    BY <1>1 DEF Oldest
  <2>2. Off(nxt, nxt) = 0
    BY <1>0, OffCases
  <2> QED
    BY <1>0, <2>1, <2>2 DEF InOrder
<1>2. CASE b # <<>>
  <2>1. new = b[1].sn /\ 1 \in 1 .. Len(b)
    BY <1>2 DEF Oldest
  <2>2. \A i \in 1 .. Len(b) : b[i] \in Flying
    OBVIOUS
  <2>3. \A i \in 1 .. Len(b) : b[i].sn \in Sn
    BY <2>2 DEF Flying
  <2>4. new \in Sn
    BY <2>1, <2>3
  <2>5. Off(nxt, una) \in Int /\ Off(new, una) \in Int /\ 0 <= Off(new, una)
    BY <1>0, <2>4, OffCases
  <2>6. Off(new, una) < Off(nxt, una)
    BY <2>1 DEF InOrder
  <2>7. Off(nxt, new) = Off(nxt, una) - Off(new, una)
    BY <2>4, <2>5, <2>6, OffShift
  <2>8. ASSUME NEW i \in 1 .. Len(b)
        PROVE  /\ Off(b[i].sn, una) \in Int /\ Off(b[i].sn, una) < Off(nxt, una)
               /\ Off(b[i].sn, new) = Off(b[i].sn, una) - Off(new, una)
    <3>1. Off(b[i].sn, una) \in Int /\ Off(b[i].sn, una) < Off(nxt, una)
      BY <1>0, <2>3, OffCases DEF InOrder
    <3>2. Off(new, una) <= Off(b[i].sn, una)
      BY <2>1, <2>5, <3>1 DEF InOrder
    <3> QED
      BY <2>3, <2>4, <3>1, <3>2, OffShift
  <2>9. Off(nxt, new) <= IKCP_WND_SND
    BY <1>0, <2>5, <2>7 DEF InOrder
  <2>10. ASSUME NEW i \in 1 .. Len(b) PROVE Off(b[i].sn, new) < Off(nxt, new)
    BY <2>5, <2>7, <2>8
  <2>11. ASSUME NEW i \in 1 .. Len(b), NEW j \in 1 .. Len(b), i < j PROVE Off(b[i].sn, new) < Off(b[j].sn, new)
    <3>1. Off(b[i].sn, una) < Off(b[j].sn, una)
      BY <2>11 DEF InOrder
    <3> QED
      BY <2>5, <2>8, <3>1
  <2> QED
    BY <2>4, <2>9, <2>10, <2>11 DEF InOrder
<1> QED
  BY <1>1, <1>2

\* Only the numbers matter.
LEMMA SameNumbers ==
  ASSUME NEW una, NEW nxt, NEW b \in Seq(Flying), NEW r \in Seq(Flying), Len(r) = Len(b),
         \A i \in 1 .. Len(b) : r[i].sn = b[i].sn
  PROVE  /\ InOrder(una, nxt, b) => InOrder(una, nxt, r)
         /\ Oldest(una, nxt, b) => Oldest(una, nxt, r)
<1>1. b = <<>> <=> r = <<>>
  OBVIOUS
<1>2. b # <<>> => 1 \in 1 .. Len(b)
  OBVIOUS
<1> QED
  BY <1>1, <1>2 DEF InOrder, Oldest

-----------------------------------------------------------------------------
(* The fields of a control block.                                           *)

\* The types of the fields.
LEMMA Fields ==
  ASSUME NEW k \in Block
  PROVE  /\ k.snd_una \in Sn /\ k.snd_nxt \in Sn /\ k.rcv_nxt \in Sn
         /\ k.rmt_wnd \in Nat /\ k.cwnd \in Nat /\ k.incr \in Nat /\ k.ssthresh \in Nat
         /\ k.probe \in SUBSET Probes /\ k.probe_wait \in BOOLEAN
         /\ k.snd_queue \in Seq(Queued) /\ k.snd_buf \in Seq(Flying)
         /\ k.rcv_buf \in SUBSET Segment /\ k.rcv_queue \in Seq(Queued)
         /\ k.acklist \in SUBSET Sn /\ k.dead \in BOOLEAN
  BY DEF Block

\* Two blocks with the same windows.
SameWindows(k, l) ==
  /\ l.snd_una = k.snd_una /\ l.snd_nxt = k.snd_nxt /\ l.snd_buf = k.snd_buf
  /\ l.rcv_nxt = k.rcv_nxt /\ l.rcv_buf = k.rcv_buf /\ l.rcv_queue = k.rcv_queue

\* What is not about the windows may change.
LEMMA GoodByWindows ==
  ASSUME NEW k, NEW l \in Block, SameWindows(k, l)
  PROVE  (k \in Good => l \in Good) /\ (k \in Open => l \in Open)
  BY DEF SameWindows, Good, Open, SndOK, RcvOK

\* A new send buffer.
LEMMA SetSndBuf ==
  ASSUME NEW k \in Block, NEW b \in Seq(Flying)
  PROVE  /\ [k EXCEPT !.snd_buf = b] \in Block
         /\ [k EXCEPT !.snd_buf = b].snd_buf = b
         /\ [k EXCEPT !.snd_buf = b].snd_una = k.snd_una
         /\ [k EXCEPT !.snd_buf = b].snd_nxt = k.snd_nxt
         /\ RcvOK(k) => RcvOK([k EXCEPT !.snd_buf = b])
<1>1. [k EXCEPT !.snd_buf = b] \in Block
  BY DEF Block
<1>2. PICK l : l = [k EXCEPT !.snd_buf = b]
  OBVIOUS
<1>3. /\ l.snd_buf = b /\ l.snd_una = k.snd_una /\ l.snd_nxt = k.snd_nxt
      /\ l.rcv_nxt = k.rcv_nxt /\ l.rcv_buf = k.rcv_buf /\ l.rcv_queue = k.rcv_queue
  BY <1>2 DEF Block
<1> QED
  BY <1>1, <1>2, <1>3 DEF RcvOK

\* A new send buffer that is a part of the old one.
LEMMA SetPart ==
  ASSUME NEW k \in Open, NEW b \in Seq(Flying), FromFirst(b, k.snd_buf, Len(k.snd_buf))
  PROVE  [k EXCEPT !.snd_buf = b] \in Open
<1>1. k \in Block /\ SndOK(k) /\ RcvOK(k)
  BY DEF Open
<1>2. k.snd_una \in Sn /\ k.snd_nxt \in Sn /\ k.snd_buf \in Seq(Flying)
  BY <1>1, Fields
<1>3. InOrder(k.snd_una, k.snd_nxt, b)
  BY <1>1, <1>2, InOrderPart DEF SndOK
<1>4. PICK l : l = [k EXCEPT !.snd_buf = b]
  OBVIOUS
<1>5. l \in Block /\ l.snd_buf = b /\ l.snd_una = k.snd_una /\ l.snd_nxt = k.snd_nxt /\ RcvOK(l)
  BY <1>1, <1>4, SetSndBuf
<1>6. SndOK(l)
  BY <1>3, <1>5 DEF SndOK
<1> QED
  BY <1>4, <1>5, <1>6 DEF Open

\* ikcp_parse_una stops at the end of the buffer at the latest.
LEMMA BeforeBounds ==
  ASSUME NEW k \in Block, NEW una, NEW n
  PROVE  Before(k, una, n) \in 0 .. Len(k.snd_buf)
<1>1. k.snd_buf \in Seq(Flying)
  BY Fields
<1>2. PICK m \in Nat : m = Len(k.snd_buf)
  BY <1>1
<1>3. PICK S : S = {j \in 0 .. Len(k.snd_buf) : \A i \in 1 .. j : itimediff(una, k.snd_buf[i].sn) >= n}
  OBVIOUS
<1>4. 0 \in S /\ S \subseteq 0 .. m
  BY <1>2, <1>3
<1>5. Max(S) \in S
  BY <1>4, MaxIsGreatest
<1> QED
  BY <1>2, <1>3, <1>4, <1>5 DEF Before

\* ikcp_parse_una removes a beginning.
LEMMA ParseUna ==
  ASSUME NEW k \in Open, NEW una
  PROVE  ikcp_parse_una(k, una) \in Open
<1>1. k \in Block
  BY DEF Open
<1>2. k.snd_buf \in Seq(Flying)
  BY <1>1, Fields
<1>3. PICK n : n = Before(k, una, 1)
  OBVIOUS
<1>4. n \in 0 .. Len(k.snd_buf)
  BY <1>1, <1>3, BeforeBounds
<1>5. PICK b : b = SubSeq(k.snd_buf, n + 1, Len(k.snd_buf))
  OBVIOUS
<1>6. b \in Seq(Flying) /\ FromFirst(b, k.snd_buf, Len(k.snd_buf))
  BY <1>2, <1>4, <1>5, RestIsPart
<1>7. ikcp_parse_una(k, una) = [k EXCEPT !.snd_buf = b]
  BY <1>3, <1>5 DEF ikcp_parse_una
<1> QED
  BY <1>6, <1>7, SetPart

\* ikcp_parse_ack removes segments anywhere.
LEMMA ParseAck ==
  ASSUME NEW k \in Open, NEW acks
  PROVE  ikcp_parse_ack(k, acks) \in Open
<1>1. k \in Block
  BY DEF Open
<1>2. k.snd_buf \in Seq(Flying)
  BY <1>1, Fields
<1>3. PICK b : b = Sift(k.snd_buf, {s \in ToSet(k.snd_buf) : s.sn \notin acks})
  OBVIOUS
<1>4. b \in Seq(Flying) /\ FromFirst(b, k.snd_buf, Len(k.snd_buf))
  BY <1>2, <1>3, SiftKeepsOrder
<1>5. ikcp_parse_ack(k, acks) = [k EXCEPT !.snd_buf = b]
  BY <1>3 DEF ikcp_parse_ack
<1> QED
  BY <1>4, <1>5, SetPart

\* ikcp_shrink_buf brings snd_una up to date.
LEMMA ShrinkBuf ==
  ASSUME NEW k \in Open
  PROVE  ikcp_shrink_buf(k) \in Good
<1>1. k \in Block /\ SndOK(k) /\ RcvOK(k)
  BY DEF Open
<1>2. k.snd_una \in Sn /\ k.snd_nxt \in Sn /\ k.snd_buf \in Seq(Flying)
  BY <1>1, Fields
<1>3. PICK new : new = IF k.snd_buf = <<>> THEN k.snd_nxt ELSE Head(k.snd_buf).sn
  OBVIOUS
<1>4. Oldest(new, k.snd_nxt, k.snd_buf)
  BY <1>2, <1>3 DEF Oldest
<1>5. new \in Sn /\ InOrder(new, k.snd_nxt, k.snd_buf)
  BY <1>1, <1>2, <1>4, Shrinks DEF SndOK
<1>6. PICK l : l = [k EXCEPT !.snd_una = new]
  OBVIOUS
<1>7. l \in Block
  BY <1>1, <1>5, <1>6 DEF Block
<1>8. /\ l.snd_una = new /\ l.snd_nxt = k.snd_nxt /\ l.snd_buf = k.snd_buf
      /\ l.rcv_nxt = k.rcv_nxt /\ l.rcv_buf = k.rcv_buf /\ l.rcv_queue = k.rcv_queue
  BY <1>1, <1>6 DEF Block
<1>9. SndOK(l) /\ RcvOK(l) /\ Oldest(l.snd_una, l.snd_nxt, l.snd_buf)
  BY <1>1, <1>4, <1>5, <1>8 DEF SndOK, RcvOK
<1>10. ikcp_shrink_buf(k) = l
  BY <1>3, <1>6 DEF ikcp_shrink_buf
<1> QED
  BY <1>7, <1>9, <1>10 DEF Good, Open

\* ikcp_parse_fastack only counts.
LEMMA ParseFastack ==
  ASSUME NEW k \in Good, NEW sn, NEW resent \in Nat
  PROVE  ikcp_parse_fastack(k, sn, resent) \in Good
<1>1. k \in Block /\ SndOK(k) /\ RcvOK(k) /\ Oldest(k.snd_una, k.snd_nxt, k.snd_buf)
  BY DEF Good, Open
<1>2. k.snd_buf \in Seq(Flying) /\ DOMAIN k.snd_buf = 1 .. Len(k.snd_buf)
  BY <1>1, Fields
<1>3. PICK b : b = [i \in DOMAIN k.snd_buf |->
          IF itimediff(sn, k.snd_buf[i].sn) > 0 THEN Skipped(k.snd_buf[i], resent) ELSE k.snd_buf[i]]
  OBVIOUS
<1>4. ASSUME NEW i \in 1 .. Len(k.snd_buf) PROVE b[i] \in Flying /\ b[i].sn = k.snd_buf[i].sn
  <2>1. PICK s : s = k.snd_buf[i]
    OBVIOUS
  <2>2. s \in Flying
    BY <1>2, <2>1
  <2>3. s.fastack \in Nat
    BY <2>2 DEF Flying
  <2>4. LeastOf(s.fastack + 1, resent) \in Nat
    BY <2>3 DEF LeastOf
  <2>5. PICK t : t = Skipped(s, resent)
    OBVIOUS
  <2>6. t \in Flying /\ t.sn = s.sn
    BY <2>2, <2>4, <2>5 DEF Flying, Skipped
  <2>7. b[i] = t \/ b[i] = s
    BY <1>2, <1>3, <2>1, <2>5
  <2> QED
    BY <2>1, <2>2, <2>6, <2>7
<1>5. b \in Seq(Flying) /\ Len(b) = Len(k.snd_buf)
  <2>1. Len(k.snd_buf) \in Nat /\ DOMAIN b = 1 .. Len(k.snd_buf)
    BY <1>2, <1>3
  <2>2. b = [i \in 1 .. Len(k.snd_buf) |-> b[i]]
    BY <1>2, <1>3
  <2> QED
    BY <1>4, <2>1, <2>2
<1>6. PICK l : l = [k EXCEPT !.snd_buf = b]
  OBVIOUS
<1>7. l \in Block /\ l.snd_buf = b /\ l.snd_una = k.snd_una /\ l.snd_nxt = k.snd_nxt /\ RcvOK(l)
  BY <1>1, <1>5, <1>6, SetSndBuf
<1>8. InOrder(k.snd_una, k.snd_nxt, b) /\ Oldest(k.snd_una, k.snd_nxt, b)
  BY <1>1, <1>2, <1>4, <1>5, SameNumbers DEF SndOK
<1>9. l \in Good
  BY <1>7, <1>8 DEF Good, Open, SndOK
<1>10. ikcp_parse_fastack(k, sn, resent) = k \/ ikcp_parse_fastack(k, sn, resent) = l
  BY <1>3, <1>6 DEF ikcp_parse_fastack
<1> QED
  BY <1>9, <1>10

-----------------------------------------------------------------------------
(* The receive buffer.                                                      *)

\* The window moves past the segments that are taken out: those left lie in
\* the new window.
LEMMA WindowMoves ==
  ASSUME NEW nxt \in Sn, NEW b \in SUBSET Segment, Inside(nxt, b), NEW n \in 0 .. IKCP_WND_RCV, NEW gone,
         \A x \in b : Off(x.sn, nxt) < n => x \in gone
  PROVE  Plus(nxt, n) \in Sn /\ Inside(Plus(nxt, n), b \ gone)
<1>1. IKCP_WND_RCV \in Nat /\ SnMod \in Nat /\ n \in Nat /\ n < SnMod /\ n <= IKCP_WND_RCV
  BY WindowAssumption
<1>2. PICK new : new = Plus(nxt, n)
  OBVIOUS
<1>3. new \in Sn /\ Off(new, nxt) = n
  BY <1>1, <1>2, PlusCases
<1>4. IsFiniteSet(b \ gone)
  BY FS_Difference DEF Inside
<1>5. ASSUME NEW x \in b \ gone PROVE Off(x.sn, new) < IKCP_WND_RCV
  <2>1. x.sn \in Sn
    BY <1>5 DEF Segment
  <2>2. Off(x.sn, nxt) \in Int /\ Off(x.sn, nxt) < IKCP_WND_RCV
    BY <1>5, <2>1, OffNat DEF Inside
  <2>3. n <= Off(x.sn, nxt)
    BY <1>1, <1>5, <2>2
  <2>4. Off(x.sn, new) = Off(x.sn, nxt) - n
    BY <1>3, <2>1, <2>3, OffShift
  <2> QED
    BY <1>1, <2>2, <2>4
<1> QED
  BY <1>2, <1>3, <1>4, <1>5 DEF Inside

\* Segments leave rcv_buf for a receive queue that has room for them.
LEMMA Moves ==
  ASSUME NEW k \in Good
  PROVE  MoveAvailable(k) \in Good
<1>1. k \in Block /\ SndOK(k) /\ RcvOK(k) /\ Oldest(k.snd_una, k.snd_nxt, k.snd_buf)
  BY DEF Good, Open
<1>2. k.rcv_nxt \in Sn /\ k.rcv_buf \in SUBSET Segment /\ k.rcv_queue \in Seq(Queued)
  BY <1>1, Fields
<1>3. PICK nxt, b, q : nxt = k.rcv_nxt /\ b = k.rcv_buf /\ q = k.rcv_queue
  OBVIOUS
<1>4. PICK room : room = IKCP_WND_RCV - Len(q)
  OBVIOUS
<1>5. IKCP_WND_RCV \in Nat /\ SnMod \in Nat /\ IKCP_WND_RCV < SnMod /\ Len(q) \in Nat /\ Len(q) <= IKCP_WND_RCV /\ room \in Nat
  BY <1>1, <1>2, <1>3, <1>4, WindowAssumption DEF RcvOK
<1>6. PICK held : held = {s.sn : s \in b}
  OBVIOUS
<1>7. PICK N : N = {m \in 0 .. room : \A i \in 0 .. m - 1 : Plus(nxt, i) \in held}
  OBVIOUS
<1>8. 0 \in N /\ N \subseteq 0 .. room
  BY <1>5, <1>7
<1>9. PICK n : n = Max(N)
  OBVIOUS
<1>10. n \in N
  BY <1>5, <1>8, <1>9, MaxIsGreatest
<1>11. n \in 0 .. room /\ n \in 0 .. IKCP_WND_RCV /\ n + Len(q) <= IKCP_WND_RCV
  BY <1>4, <1>5, <1>8, <1>10
<1>12. PICK moved : moved = [i \in 1 .. n |-> CHOOSE s \in b : s.sn = Plus(nxt, i - 1)]
  OBVIOUS
<1>13. ASSUME NEW i \in 1 .. n PROVE moved[i] \in b /\ moved[i].sn = Plus(nxt, i - 1)
  <2>1. i - 1 \in 0 .. n - 1
    BY <1>11
  <2>2. Plus(nxt, i - 1) \in held
    BY <1>7, <1>10, <2>1
  <2>3. \E s \in b : s.sn = Plus(nxt, i - 1)
    BY <1>6, <2>2
  <2>4. PICK s : s = CHOOSE x \in b : x.sn = Plus(nxt, i - 1)
    OBVIOUS
  <2>5. s \in b /\ s.sn = Plus(nxt, i - 1)
    BY <2>3, <2>4
  <2> QED
    BY <1>12, <2>4, <2>5
<1>14. ASSUME NEW x \in b, Off(x.sn, nxt) < n PROVE x \in ToSet(moved)
  <2>1. x.sn \in Sn
    BY <1>2, <1>3 DEF Segment
  <2>2. Off(x.sn, nxt) \in Nat /\ x.sn = Plus(nxt, Off(x.sn, nxt))
    BY <1>2, <1>3, <2>1, OffNat, OffPlus
  <2>3. PICK i : i = Off(x.sn, nxt) + 1
    OBVIOUS
  <2>4. i \in 1 .. n /\ i - 1 = Off(x.sn, nxt)
    BY <1>11, <1>14, <2>2, <2>3
  <2>5. moved[i].sn = x.sn /\ moved[i] \in b
    BY <1>13, <2>2, <2>4
  <2>6. moved[i] = x
    BY <1>1, <1>3, <2>5 DEF RcvOK, Inside
  <2>7. i \in DOMAIN moved
    BY <1>12, <2>4
  <2> QED
    BY <2>6, <2>7 DEF ToSet
<1>15. PICK b2, nxt2 : b2 = b \ ToSet(moved) /\ nxt2 = Plus(nxt, n)
  OBVIOUS
<1>16. nxt2 \in Sn /\ Inside(nxt2, b2) /\ b2 \in SUBSET Segment
  BY <1>1, <1>2, <1>3, <1>11, <1>14, <1>15, WindowMoves DEF RcvOK
<1>17. PICK new : new = [i \in 1 .. n |-> [msg |-> moved[i].msg, frg |-> moved[i].frg]]
  OBVIOUS
<1>18. new \in Seq(Queued) /\ Len(new) = n
  <2>1. ASSUME NEW i \in 1 .. n PROVE new[i] \in Queued
    <3>1. moved[i] \in Segment
      BY <1>2, <1>3, <1>13
    <3>2. moved[i].msg \in Msg /\ moved[i].frg \in Nat
      BY <3>1 DEF Segment
    <3> QED
      BY <1>17, <3>2 DEF Queued
  <2>2. n \in Nat
    BY <1>11
  <2> QED
    BY <1>17, <2>1, <2>2
<1>19. PICK q2 : q2 = q \o new
  OBVIOUS
<1>20. q2 \in Seq(Queued) /\ Len(q2) <= IKCP_WND_RCV
  <2>1. q2 \in Seq(Queued) /\ Len(q2) = Len(q) + n
    BY <1>2, <1>3, <1>18, <1>19, ConcatProperties
  <2> QED
    BY <1>5, <1>11, <2>1
<1>21. PICK l : l = [k EXCEPT !.rcv_buf = b2, !.rcv_queue = q2, !.rcv_nxt = nxt2]
  OBVIOUS
<1>22. l \in Block
  BY <1>1, <1>16, <1>20, <1>21 DEF Block
<1>23. /\ l.snd_una = k.snd_una /\ l.snd_nxt = k.snd_nxt /\ l.snd_buf = k.snd_buf
       /\ l.rcv_nxt = nxt2 /\ l.rcv_buf = b2 /\ l.rcv_queue = q2
  BY <1>1, <1>21 DEF Block
<1>24. l \in Good
  BY <1>1, <1>16, <1>20, <1>22, <1>23 DEF Good, Open, SndOK, RcvOK
<1>25. MoveAvailable(k) = l
  BY <1>3, <1>4, <1>6, <1>7, <1>9, <1>12, <1>15, <1>17, <1>19, <1>21 DEF MoveAvailable
<1> QED
  BY <1>24, <1>25

\* The fields of the receiving side change, within the window.
LEMMA SetRcvBuf ==
  ASSUME NEW k \in Good, NEW b \in SUBSET Segment, Inside(k.rcv_nxt, b)
  PROVE  [k EXCEPT !.rcv_buf = b] \in Good
<1>1. k \in Block /\ SndOK(k) /\ RcvOK(k) /\ Oldest(k.snd_una, k.snd_nxt, k.snd_buf)
  BY DEF Good, Open
<1>2. PICK l : l = [k EXCEPT !.rcv_buf = b]
  OBVIOUS
<1>3. l \in Block
  BY <1>1, <1>2 DEF Block
<1>4. /\ l.snd_una = k.snd_una /\ l.snd_nxt = k.snd_nxt /\ l.snd_buf = k.snd_buf
      /\ l.rcv_nxt = k.rcv_nxt /\ l.rcv_buf = b /\ l.rcv_queue = k.rcv_queue
  BY <1>1, <1>2 DEF Block
<1> QED
  BY <1>1, <1>2, <1>3, <1>4 DEF Good, Open, SndOK, RcvOK

\* ikcp_parse_data keeps a segment of the window once.
LEMMA ParseData ==
  ASSUME NEW k \in Good, NEW seg \in Segment, Off(seg.sn, k.rcv_nxt) < IKCP_WND_RCV
  PROVE  ikcp_parse_data(k, seg) \in Good
<1>1. k \in Block /\ Inside(k.rcv_nxt, k.rcv_buf)
  BY DEF Good, Open, RcvOK
<1>2. k.rcv_buf \in SUBSET Segment
  BY <1>1, Fields
<1>3. CASE \E s \in k.rcv_buf : s.sn = seg.sn
  <2>1. ikcp_parse_data(k, seg) = MoveAvailable(k)
    BY <1>3 DEF ikcp_parse_data
  <2> QED
    BY <2>1, Moves
<1>4. CASE ~\E s \in k.rcv_buf : s.sn = seg.sn
  <2>1. PICK b : b = k.rcv_buf \union {seg}
    OBVIOUS
  <2>2. b \in SUBSET Segment
    BY <1>2, <2>1
  <2>3. IsFiniteSet(b)
    BY <1>1, <2>1, FS_AddElement DEF Inside
  <2>4. Inside(k.rcv_nxt, b)
    BY <1>1, <1>4, <2>1, <2>3 DEF Inside
  <2>5. PICK l : l = [k EXCEPT !.rcv_buf = b]
    OBVIOUS
  <2>6. l \in Good
    BY <2>2, <2>4, <2>5, SetRcvBuf
  <2>7. ikcp_parse_data(k, seg) = MoveAvailable(l)
    BY <1>4, <2>1, <2>5 DEF ikcp_parse_data
  <2> QED
    BY <2>6, <2>7, Moves
<1> QED
  BY <1>3, <1>4

\* What lies before the end of the window and not behind its start is in it.
LEMMA InWindow ==
  ASSUME NEW a \in Sn, NEW b \in Sn, ~(itimediff(a, b + IKCP_WND_RCV) >= 0), itimediff(a, b) >= 0
  PROVE  Off(a, b) < IKCP_WND_RCV
<1>1. /\ SnMod \in Nat /\ IKCP_WND_RCV \in Nat /\ SnMod > 2 * IKCP_WND_RCV
      /\ a \in Int /\ b \in Int /\ 0 <= a /\ a < SnMod /\ 0 <= b /\ b < SnMod
  BY WindowAssumption DEF Sn
<1>2. PICK w \in Nat : w = IKCP_WND_RCV
  BY <1>1
<1>3. Off(a, b) \in Nat /\ Off(a, b) = (IF b <= a THEN a - b ELSE a - b + SnMod) /\ Off(a, b) < SnMod
  BY OffCases, OffNat
<1>4. 2 * Off(a, b) < SnMod
  BY <1>1, <1>3, DiffCases
<1>5. PICK x \in Int : x = a - (b + w)
  BY <1>1
<1>6. SUFFICES ASSUME w <= Off(a, b) PROVE FALSE
  BY <1>2, <1>3
<1>7. x % SnMod = Off(a, b) - w
  <2>1. 0 <= Off(a, b) - w /\ Off(a, b) - w < SnMod /\ (x = Off(a, b) - w \/ x = Off(a, b) - w - SnMod)
    BY <1>1, <1>3, <1>5, <1>6
  <2>2. PICK y \in Int : y = Off(a, b) - w
    BY <1>3
  <2>3. 0 <= y /\ y < SnMod /\ (x = y \/ x = y - SnMod)
    BY <2>1, <2>2
  <2>4. /\ 0 <= x /\ x < SnMod => x % SnMod = x
        /\ x < 0 /\ 0 <= x + SnMod => x % SnMod = x + SnMod
    BY Remainder
  <2>5. x % SnMod = y
    BY <1>1, <2>3, <2>4
  <2> QED
    BY <2>2, <2>5
<1>8. itimediff(a, b + IKCP_WND_RCV) = Off(a, b) - w
  <2>1. PICK y \in Int : y = Off(a, b) - w
    BY <1>3
  <2>2. 2 * y < SnMod /\ x % SnMod = y
    BY <1>1, <1>3, <1>4, <1>7, <2>1
  <2>3. (a - (b + IKCP_WND_RCV)) % SnMod = y
    BY <1>2, <1>5, <2>2
  <2> QED
    BY <2>1, <2>2, <2>3 DEF itimediff
<1> QED
  BY <1>1, <1>3, <1>6, <1>8

\* A data segment of a datagram.
LEMMA Push ==
  ASSUME NEW k \in Good, NEW seg \in Segment
  PROVE  InputPush(k, seg) \in Good
<1>1. k \in Block
  BY DEF Good, Open
<1>2. seg.sn \in Sn /\ k.rcv_nxt \in Sn /\ k.acklist \in SUBSET Sn
  BY <1>1, Fields DEF Segment
<1>3. PICK l : l = [k EXCEPT !.acklist = @ \union {seg.sn}]
  OBVIOUS
<1>4. l \in Block
  BY <1>1, <1>2, <1>3 DEF Block
<1>5. SameWindows(k, l)
  BY <1>1, <1>3 DEF Block, SameWindows
<1>6. l \in Good /\ l.rcv_nxt = k.rcv_nxt
  BY <1>4, <1>5, GoodByWindows DEF SameWindows
<1>7. CASE itimediff(seg.sn, k.rcv_nxt + IKCP_WND_RCV) >= 0
  BY <1>7 DEF InputPush
<1>8. CASE ~(itimediff(seg.sn, k.rcv_nxt + IKCP_WND_RCV) >= 0) /\ itimediff(seg.sn, k.rcv_nxt) >= 0
  <2>1. Off(seg.sn, l.rcv_nxt) < IKCP_WND_RCV
    BY <1>2, <1>6, <1>8, InWindow
  <2>2. InputPush(k, seg) = ikcp_parse_data(l, seg)
    BY <1>3, <1>8 DEF InputPush
  <2> QED
    BY <1>6, <2>1, <2>2, ParseData
<1>9. CASE ~(itimediff(seg.sn, k.rcv_nxt + IKCP_WND_RCV) >= 0) /\ ~(itimediff(seg.sn, k.rcv_nxt) >= 0)
  <2>1. InputPush(k, seg) = l
    BY <1>3, <1>9 DEF InputPush
  <2> QED
    BY <1>6, <2>1
<1> QED
  BY <1>7, <1>8, <1>9

-----------------------------------------------------------------------------
(* The congestion window.                                                   *)

\* Natural numbers divide to natural numbers.
LEMMA Quotient == ASSUME NEW a \in Nat, NEW b \in Nat \ {0} PROVE a \div b \in Nat
  OBVIOUS

\* cwnd and incr stay natural numbers.
LEMMA Grows ==
  ASSUME NEW k \in Good
  PROVE  GrowCwnd(k) \in Good
<1>1. k \in Block
  BY DEF Good, Open
<1>2. k.incr \in Nat /\ k.cwnd \in Nat /\ k.rmt_wnd \in Nat /\ Mss \in Nat \ {0}
  BY <1>1, Fields, LimitAssumption
<1>3. PICK incr : incr = GreatestOf(k.incr, Mss)
  OBVIOUS
<1>4. incr \in Nat \ {0}
  BY <1>2, <1>3 DEF GreatestOf
<1>5. PICK avoid : avoid = incr + (Mss * Mss) \div incr + Mss \div 16
  OBVIOUS
<1>6. avoid \in Nat
  <2>1. Mss * Mss \in Nat
    BY <1>2
  <2>2. (Mss * Mss) \div incr \in Nat
    BY <1>4, <2>1, Quotient
  <2>3. Mss \div 16 \in Nat
    BY <1>2, Quotient
  <2> QED
    BY <1>4, <1>5, <2>2, <2>3
<1>7. (avoid + Mss - 1) \div Mss \in Nat
  <2>1. avoid + Mss - 1 \in Nat
    BY <1>2, <1>6
  <2> QED
    BY <1>2, <2>1, Quotient
<1>8. PICK cw : cw = IF (k.cwnd + 1) * Mss <= avoid THEN (avoid + Mss - 1) \div Mss ELSE k.cwnd
  OBVIOUS
<1>9. cw \in Nat
  BY <1>2, <1>7, <1>8
<1>10. PICK g1, g2, g3 : /\ g1 = [k EXCEPT !.cwnd = @ + 1, !.incr = @ + Mss]
                         /\ g2 = [k EXCEPT !.incr = avoid, !.cwnd = cw]
                         /\ g3 = [k EXCEPT !.cwnd = k.rmt_wnd, !.incr = k.rmt_wnd * Mss]
  OBVIOUS
<1>11. k.cwnd + 1 \in Nat /\ k.incr + Mss \in Nat /\ k.rmt_wnd * Mss \in Nat
  BY <1>2
<1>12. g1 \in Block /\ SameWindows(k, g1)
  BY <1>1, <1>10, <1>11 DEF Block, SameWindows
<1>13. g2 \in Block /\ SameWindows(k, g2)
  BY <1>1, <1>6, <1>9, <1>10 DEF Block, SameWindows
<1>14. g3 \in Block /\ SameWindows(k, g3)
  BY <1>1, <1>2, <1>10, <1>11 DEF Block, SameWindows
<1>15. g1 \in Good /\ g2 \in Good /\ g3 \in Good
  BY <1>12, <1>13, <1>14, GoodByWindows
<1>16. [g1 EXCEPT !.cwnd = k.rmt_wnd, !.incr = k.rmt_wnd * Mss] = g3
  BY <1>1, <1>10 DEF Block
<1>17. [g2 EXCEPT !.cwnd = k.rmt_wnd, !.incr = k.rmt_wnd * Mss] = g3
  BY <1>1, <1>10 DEF Block
<1>18. GrowCwnd(k) \in {k, g1, g2, g3}
  <2>1. PICK grown : grown = IF k.cwnd < k.ssthresh THEN g1 ELSE g2
    OBVIOUS
  <2>2. GrowCwnd(k) = IF k.cwnd >= k.rmt_wnd THEN k
                      ELSE IF grown.cwnd > k.rmt_wnd
                      THEN [grown EXCEPT !.cwnd = k.rmt_wnd, !.incr = k.rmt_wnd * Mss]
                      ELSE grown
    BY <1>3, <1>5, <1>8, <1>10, <2>1 DEF GrowCwnd
  <2>3. [grown EXCEPT !.cwnd = k.rmt_wnd, !.incr = k.rmt_wnd * Mss] = g3
    BY <1>16, <1>17, <2>1
  <2> QED
    BY <2>1, <2>2, <2>3
<1> QED
  BY <1>15, <1>18

-----------------------------------------------------------------------------
(* Input of a datagram.                                                     *)

\* The types of the fields of a datagram.
LEMMA DgramFields ==
  ASSUME NEW d \in Dgram
  PROVE  /\ d.wnd \in Nat /\ d.una \in Sn /\ d.acks \in SUBSET Sn
         /\ d.push = <<>> \/ (d.push # <<>> /\ d.push[1] \in Segment)
<1>1. d.wnd \in Nat /\ d.una \in Sn /\ d.acks \in SUBSET Sn /\ d.push \in Seq(Segment)
  BY DEF Dgram
<1>2. ASSUME d.push # <<>> PROVE d.push[1] \in Segment
  <2>1. 1 \in 1 .. Len(d.push)
    BY <1>1, <1>2
  <2> QED
    BY <1>1, <2>1
<1> QED
  BY <1>1, <1>2

\* A flag of probe.
LEMMA SetProbe ==
  ASSUME NEW k \in Good, NEW p \in SUBSET Probes
  PROVE  [k EXCEPT !.probe = p] \in Good
<1>1. k \in Block
  BY DEF Good, Open
<1>2. PICK l : l = [k EXCEPT !.probe = p]
  OBVIOUS
<1>3. l \in Block /\ SameWindows(k, l)
  BY <1>1, <1>2 DEF Block, SameWindows
<1> QED
  BY <1>2, <1>3, GoodByWindows

\* A block between two calls is typed and within its windows.
LEMMA GoodIsOpen == ASSUME NEW k \in Good PROVE k \in Open /\ k \in Block
  BY DEF Good, Open

\* The segments of a datagram.
LEMMA Segments ==
  ASSUME NEW k \in Good, NEW d \in Dgram
  PROVE  InputSegments(k, d) \in Good
<1>1. k \in Block /\ d.wnd \in Nat
  BY DgramFields, GoodIsOpen
<1>2. PICK k1 : k1 = [k EXCEPT !.rmt_wnd = d.wnd]
  OBVIOUS
<1>3. k1 \in Block /\ SameWindows(k, k1)
  BY <1>1, <1>2 DEF Block, SameWindows
<1>4. k1 \in Open
  BY <1>3, GoodByWindows, GoodIsOpen
<1>5. PICK una : una = ikcp_shrink_buf(ikcp_parse_una(k1, d.una))
  OBVIOUS
<1>6. una \in Good
  BY <1>4, <1>5, ParseUna, ShrinkBuf
<1>7. PICK ack : ack = ikcp_shrink_buf(ikcp_parse_ack(una, d.acks))
  OBVIOUS
<1>8. ack \in Good
  BY <1>6, <1>7, GoodIsOpen, ParseAck, ShrinkBuf
<1>9. PICK data : data = IF d.push = <<>> THEN ack ELSE InputPush(ack, d.push[1])
  OBVIOUS
<1>10. data \in Good
  <2>1. CASE d.push = <<>>
    BY <1>8, <1>9, <2>1
  <2>2. CASE d.push # <<>>
    <3>1. d.push[1] \in Segment
      BY <2>2, DgramFields
    <3>2. InputPush(ack, d.push[1]) \in Good
      BY <1>8, <3>1, Push
    <3> QED
      BY <1>9, <2>2, <3>2
  <2> QED
    BY <2>1, <2>2
<1>11. PICK p : p = data.probe \union {"TELL"}
  OBVIOUS
<1>12. p \in SUBSET Probes
  BY <1>10, <1>11, GoodIsOpen, Fields DEF Probes
<1>13. [data EXCEPT !.probe = p] \in Good
  BY <1>10, <1>12, SetProbe
<1>14. InputSegments(k, d) = IF "WASK" \in d.cmds THEN [data EXCEPT !.probe = p] ELSE data
  BY <1>2, <1>5, <1>7, <1>9, <1>11 DEF InputSegments
<1> QED
  BY <1>10, <1>13, <1>14

\* ikcp_input keeps a block good whatever the datagram says.
LEMMA Input ==
  ASSUME NEW k \in Good, NEW d \in Dgram, NEW resent \in Nat
  PROVE  ikcp_input(k, d, resent) \in Good
<1>1. PICK parsed : parsed = InputSegments(k, d)
  OBVIOUS
<1>2. parsed \in Good
  BY <1>1, Segments
<1>3. PICK maxack : maxack = CHOOSE sn \in d.acks : \A other \in d.acks : itimediff(other, sn) <= 0
  OBVIOUS
<1>4. PICK skipped : skipped = IF d.acks = {} THEN parsed ELSE ikcp_parse_fastack(parsed, maxack, resent)
  OBVIOUS
<1>5. skipped \in Good
  BY <1>2, <1>4, ParseFastack
<1>6. ikcp_input(k, d, resent) = IF itimediff(skipped.snd_una, k.snd_una) > 0 THEN GrowCwnd(skipped) ELSE skipped
  BY <1>1, <1>3, <1>4 DEF ikcp_input
<1> QED
  BY <1>5, <1>6, Grows

-----------------------------------------------------------------------------
(* Output.                                                                  *)

\* Counting on from a number that lies ahead.
LEMMA PlusOff ==
  ASSUME NEW a \in Sn, NEW b \in Sn, NEW n \in Nat, Off(a, b) + n < SnMod
  PROVE  Plus(a, n) \in Sn /\ Off(Plus(a, n), b) = Off(a, b) + n
<1>1. /\ SnMod \in Nat /\ a \in Int /\ b \in Int /\ 0 <= a /\ a < SnMod /\ 0 <= b /\ b < SnMod
  BY WindowAssumption DEF Sn
<1>2. Off(a, b) \in Nat /\ Off(a, b) = IF b <= a THEN a - b ELSE a - b + SnMod
  BY OffCases, OffNat
<1>3. Plus(a, n) \in Sn /\ Plus(a, n) = IF a + n < SnMod THEN a + n ELSE a + n - SnMod
  BY <1>1, <1>2, PlusCases
<1>4. Off(Plus(a, n), b) = IF b <= Plus(a, n) THEN Plus(a, n) - b ELSE Plus(a, n) - b + SnMod
  BY <1>3, OffCases
<1> QED
  BY <1>1, <1>2, <1>3, <1>4

\* The room that is left in the send window.
LEMMA Room ==
  ASSUME NEW una \in Sn, NEW nxt \in Sn, Off(nxt, una) <= IKCP_WND_SND, NEW cwnd \in 0 .. IKCP_WND_SND
  PROVE  itimediff(una + cwnd, nxt) = cwnd - Off(nxt, una)
<1>1. /\ SnMod \in Nat /\ IKCP_WND_SND \in Nat /\ SnMod > 2 * IKCP_WND_SND
      /\ una \in Int /\ nxt \in Int /\ 0 <= una /\ una < SnMod /\ 0 <= nxt /\ nxt < SnMod
      /\ cwnd \in Int /\ 0 <= cwnd /\ cwnd <= IKCP_WND_SND
  BY WindowAssumption DEF Sn
<1>2. PICK out \in Nat : out = Off(nxt, una)
  BY OffNat
<1>3. out <= IKCP_WND_SND /\ out = IF una <= nxt THEN nxt - una ELSE nxt - una + SnMod
  BY <1>2, OffCases
<1>4. PICK x \in Int : x = (una + cwnd) - nxt
  BY <1>1
<1>5. x = cwnd - out \/ x = cwnd - out + SnMod
  BY <1>1, <1>3, <1>4
<1>6. /\ 0 <= x /\ x < SnMod => x % SnMod = x
      /\ SnMod <= x /\ x < 2 * SnMod => x % SnMod = x - SnMod
      /\ x < 0 /\ 0 <= x + SnMod => x % SnMod = x + SnMod
  BY Remainder
<1>7. PICK y \in Int : y = x % SnMod
  <2>1. x % SnMod \in Sn
    BY Remainder
  <2>2. Sn \subseteq Int
    BY <1>1 DEF Sn
  <2> QED
    BY <2>1, <2>2
<1>8. y = IF out <= cwnd THEN cwnd - out ELSE cwnd - out + SnMod
  BY <1>1, <1>3, <1>5, <1>6, <1>7
<1>9. (IF 2 * y < SnMod THEN y ELSE y - SnMod) = cwnd - out
  BY <1>1, <1>3, <1>8
<1>10. itimediff(una + cwnd, nxt) = IF 2 * y < SnMod THEN y ELSE y - SnMod
  <2>1. ((una + cwnd) - nxt) % SnMod = y
    BY <1>4, <1>7
  <2> QED
    BY <2>1 DEF itimediff
<1> QED
  BY <1>2, <1>9, <1>10

\* New segments are appended at the end of the send buffer.
LEMMA Appends ==
  ASSUME NEW una \in Sn, NEW nxt \in Sn, NEW b \in Seq(Flying), InOrder(una, nxt, b), Oldest(una, nxt, b),
         NEW n \in Nat, Off(nxt, una) + n <= IKCP_WND_SND, NEW new \in Seq(Flying), Len(new) = n,
         \A i \in 1 .. n : new[i].sn = Plus(nxt, i - 1)
  PROVE  /\ Plus(nxt, n) \in Sn /\ b \o new \in Seq(Flying)
         /\ InOrder(una, Plus(nxt, n), b \o new) /\ Oldest(una, Plus(nxt, n), b \o new)
<1>1. SnMod \in Nat /\ IKCP_WND_SND \in Nat /\ IKCP_WND_SND < SnMod
  BY WindowAssumption
<1>2. PICK out \in Nat : out = Off(nxt, una)
  BY OffNat
<1>3. PICK nxt2, r, m : nxt2 = Plus(nxt, n) /\ r = b \o new /\ m = Len(b)
  OBVIOUS
<1>4. nxt2 \in Sn /\ Off(nxt2, una) = out + n
  BY <1>1, <1>2, <1>3, PlusOff
<1>5. /\ r \in Seq(Flying) /\ m \in Nat /\ Len(r) = m + n
      /\ \A i \in 1 .. m : r[i] = b[i]
      /\ \A i \in m + 1 .. m + n : r[i] = new[i - m]
  <2>1. r \in Seq(Flying) /\ m \in Nat /\ Len(r) = m + n
    <3>1. b \o new \in Seq(Flying) /\ Len(b \o new) = Len(b) + Len(new)
      BY ConcatProperties
    <3> QED
      BY <1>3, <3>1
  <2>2. ASSUME NEW i \in 1 .. m PROVE r[i] = b[i]
    BY <1>3, <2>1, ConcatProperties
  <2>3. ASSUME NEW i \in m + 1 .. m + n PROVE r[i] = new[i - m]
    BY <1>3, <2>1, ConcatProperties
  <2> QED
    BY <2>1, <2>2, <2>3
<1>6. ASSUME NEW i \in 1 .. m PROVE r[i].sn \in Sn /\ Off(r[i].sn, una) \in Nat /\ Off(r[i].sn, una) < out
  <2>1. r[i] = b[i] /\ b[i] \in Flying
    BY <1>3, <1>5
  <2>2. r[i].sn \in Sn
    BY <2>1 DEF Flying
  <2> QED
    BY <1>2, <1>3, <2>1, <2>2, OffNat DEF InOrder
<1>7. ASSUME NEW i \in m + 1 .. m + n PROVE Off(r[i].sn, una) = out + (i - m - 1)
  <2>1. i - m \in 1 .. n /\ (i - m) - 1 \in Nat /\ out + ((i - m) - 1) < SnMod
    BY <1>1, <1>2, <1>5
  <2>2. r[i].sn = Plus(nxt, (i - m) - 1)
    BY <1>5, <2>1
  <2>3. Off(r[i].sn, una) = out + ((i - m) - 1)
    BY <1>2, <2>1, <2>2, PlusOff
  <2> QED
    BY <1>5, <2>3
<1>8. ASSUME NEW i \in 1 .. Len(r) PROVE Off(r[i].sn, una) < out + n
  <2>1. CASE i \in 1 .. m
    BY <1>2, <1>6, <2>1
  <2>2. CASE i \in m + 1 .. m + n
    BY <1>2, <1>5, <1>7, <2>2
  <2> QED
    BY <1>5, <2>1, <2>2
<1>9. ASSUME NEW i \in 1 .. Len(r), NEW j \in 1 .. Len(r), i < j PROVE Off(r[i].sn, una) < Off(r[j].sn, una)
  <2>1. CASE j \in 1 .. m
    <3>1. i \in 1 .. m
      BY <1>5, <1>9, <2>1
    <3> QED
      BY <1>3, <1>5, <1>9, <2>1, <3>1 DEF InOrder
  <2>2. CASE i \in 1 .. m /\ j \in m + 1 .. m + n
    <3>1. Off(r[i].sn, una) \in Nat /\ Off(r[i].sn, una) < out /\ Off(r[j].sn, una) = out + (j - m - 1)
      BY <1>6, <1>7, <2>2
    <3> QED
      BY <1>2, <1>5, <2>2, <3>1
  <2>3. CASE i \in m + 1 .. m + n /\ j \in m + 1 .. m + n
    <3>1. Off(r[i].sn, una) = out + (i - m - 1) /\ Off(r[j].sn, una) = out + (j - m - 1)
      BY <1>7, <2>3
    <3> QED
      BY <1>2, <1>5, <1>9, <2>3, <3>1
  <2> QED
    BY <1>5, <1>9, <2>1, <2>2, <2>3
<1>10. InOrder(una, nxt2, r)
  BY <1>2, <1>4, <1>8, <1>9 DEF InOrder
<1>11. Oldest(una, nxt2, r)
  <2>1. CASE b # <<>>
    <3>1. 1 \in 1 .. m /\ r # <<>> /\ una = b[1].sn
      BY <1>3, <1>5, <2>1 DEF Oldest
    <3> QED
      BY <1>5, <3>1 DEF Oldest
  <2>2. CASE b = <<>> /\ n = 0
    <3>1. r = <<>> /\ una = nxt
      BY <1>3, <1>5, <2>2 DEF Oldest
    <3>2. nxt2 = nxt
      BY <1>1, <1>3, <2>2, PlusCases DEF Sn
    <3> QED
      BY <3>1, <3>2 DEF Oldest
  <2>3. CASE b = <<>> /\ n # 0
    <3>1. una = nxt /\ m = 0 /\ 1 \in m + 1 .. m + n /\ 1 \in 1 .. n
      BY <1>3, <2>3 DEF Oldest
    <3>2. r[1] = new[1] /\ r # <<>> /\ new[1].sn = Plus(nxt, 0)
      BY <1>5, <2>3, <3>1
    <3>3. Plus(nxt, 0) = nxt
      BY <1>1, PlusCases DEF Sn
    <3> QED
      BY <3>1, <3>2, <3>3 DEF Oldest
  <2> QED
    BY <2>1, <2>2, <2>3
<1> QED
  BY <1>3, <1>4, <1>5, <1>10, <1>11

\* The window for new segments never exceeds the send window.
LEMMA SendWindowBounds ==
  ASSUME NEW k \in Block, NEW nocwnd
  PROVE  SendWindow(k, nocwnd) \in 0 .. IKCP_WND_SND
<1>1. k.rmt_wnd \in Nat /\ k.cwnd \in Nat /\ IKCP_WND_SND \in Nat
  BY Fields, WindowAssumption
<1> QED
  BY <1>1 DEF SendWindow, LeastOf

\* The segments that get their numbers.
LEMMA Fills ==
  ASSUME NEW k \in Good, NEW cwnd \in 0 .. IKCP_WND_SND
  PROVE  FillSndBuf(k, cwnd) \in Good
<1>1. k \in Block /\ SndOK(k) /\ RcvOK(k) /\ Oldest(k.snd_una, k.snd_nxt, k.snd_buf)
  BY DEF Good, Open
<1>2. PICK una, nxt, b, q : una = k.snd_una /\ nxt = k.snd_nxt /\ b = k.snd_buf /\ q = k.snd_queue
  OBVIOUS
<1>3. una \in Sn /\ nxt \in Sn /\ b \in Seq(Flying) /\ q \in Seq(Queued)
  BY <1>1, <1>2, Fields
<1>4. InOrder(una, nxt, b) /\ Oldest(una, nxt, b)
  BY <1>1, <1>2 DEF SndOK
<1>5. PICK out \in Nat : out = Off(nxt, una)
  BY <1>3, OffNat
<1>6. out <= IKCP_WND_SND /\ IKCP_WND_SND \in Nat /\ SnMod \in Nat /\ IKCP_WND_SND < SnMod
  BY <1>4, <1>5, WindowAssumption DEF InOrder
<1>7. itimediff(una + cwnd, nxt) = cwnd - out
  BY <1>3, <1>5, <1>6, Room
<1>8. PICK n : n = LeastOf(Len(q), GreatestOf(0, itimediff(una + cwnd, nxt)))
  OBVIOUS
<1>9. n \in Nat /\ n <= Len(q) /\ out + n <= IKCP_WND_SND
  <2>1. Len(q) \in Nat /\ cwnd \in Nat /\ cwnd <= IKCP_WND_SND
    BY <1>3, <1>6
  <2>2. n = LeastOf(Len(q), GreatestOf(0, cwnd - out))
    BY <1>7, <1>8
  <2> QED
    BY <1>5, <1>6, <2>1, <2>2 DEF LeastOf, GreatestOf
<1>10. PICK new : new = [i \in 1 .. n |-> [sn |-> Plus(nxt, i - 1), frg |-> q[i].frg, msg |-> q[i].msg, xmit |-> 0, fastack |-> 0]]
  OBVIOUS
<1>11. ASSUME NEW i \in 1 .. n PROVE new[i] \in Flying /\ new[i].sn = Plus(nxt, i - 1)
  <2>1. q[i] \in Queued
    BY <1>3, <1>9
  <2>2. q[i].frg \in Nat /\ q[i].msg \in Msg
    BY <2>1 DEF Queued
  <2>3. i - 1 \in Nat /\ i - 1 < SnMod
    BY <1>5, <1>6, <1>9
  <2>4. Plus(nxt, i - 1) \in Sn
    BY <1>3, <2>3, PlusCases
  <2>5. PICK s : s = [sn |-> Plus(nxt, i - 1), frg |-> q[i].frg, msg |-> q[i].msg, xmit |-> 0, fastack |-> 0]
    OBVIOUS
  <2>6. s \in Flying /\ s.sn = Plus(nxt, i - 1)
    BY <2>2, <2>4, <2>5 DEF Flying
  <2> QED
    BY <1>10, <2>5, <2>6
<1>12. new \in Seq(Flying) /\ Len(new) = n
  BY <1>9, <1>10, <1>11
<1>13. PICK nxt2, b2, q2 : nxt2 = Plus(nxt, n) /\ b2 = b \o new /\ q2 = SubSeq(q, n + 1, Len(q))
  OBVIOUS
<1>14. nxt2 \in Sn /\ b2 \in Seq(Flying) /\ InOrder(una, nxt2, b2) /\ Oldest(una, nxt2, b2)
  BY <1>3, <1>4, <1>5, <1>9, <1>11, <1>12, <1>13, Appends
<1>15. q2 \in Seq(Queued)
  BY <1>3, <1>9, <1>13, RestIsPart
<1>16. PICK l : l = [k EXCEPT !.snd_queue = q2, !.snd_nxt = nxt2, !.snd_buf = b2]
  OBVIOUS
<1>17. l \in Block
  BY <1>1, <1>14, <1>15, <1>16 DEF Block
<1>18. /\ l.snd_una = una /\ l.snd_nxt = nxt2 /\ l.snd_buf = b2
       /\ l.rcv_nxt = k.rcv_nxt /\ l.rcv_buf = k.rcv_buf /\ l.rcv_queue = k.rcv_queue
  BY <1>1, <1>2, <1>16 DEF Block
<1>19. l \in Good
  BY <1>1, <1>14, <1>17, <1>18 DEF Good, Open, SndOK, RcvOK
<1>20. FillSndBuf(k, cwnd) = l
  BY <1>2, <1>8, <1>10, <1>13, <1>16 DEF FillSndBuf
<1> QED
  BY <1>19, <1>20

\* The congestion window after a flush is a natural number.
LEMMA ShrinksCwnd ==
  ASSUME NEW k \in Good, NEW reasons, NEW cwnd \in Nat, NEW resent \in Nat
  PROVE  ShrinkCwnd(k, reasons, cwnd, resent) \in Good
<1> DEFINE Set(l, t, w, i) == [l EXCEPT !.ssthresh = t, !.cwnd = w, !.incr = i]
<1>1. ASSUME NEW l \in Good, NEW t \in Nat, NEW w \in Nat, NEW i \in Nat PROVE Set(l, t, w, i) \in Good
  <2>1. PICK m : m = Set(l, t, w, i)
    OBVIOUS
  <2>2. l \in Block
    BY GoodIsOpen
  <2>3. m \in Block /\ SameWindows(l, m)
    BY <2>1, <2>2 DEF Block, SameWindows
  <2> QED
    BY <2>1, <2>3, GoodByWindows
<1>2. Mss \in Nat /\ k \in Block /\ k.snd_nxt \in Sn /\ k.snd_una \in Sn /\ SnMod \in Nat
  BY LimitAssumption, WindowAssumption, GoodIsOpen, Fields
<1>3. PICK t : t = GreatestOf(itimediff(k.snd_nxt, k.snd_una) \div 2, IKCP_THRESH_MIN)
  OBVIOUS
<1>4. t \in Nat
  <2>1. itimediff(k.snd_nxt, k.snd_una) \in Int
    BY <1>2, DiffCases, OffNat
  <2>2. itimediff(k.snd_nxt, k.snd_una) \div 2 \in Int
    BY <2>1
  <2> QED
    BY <1>3, <2>2 DEF GreatestOf, IKCP_THRESH_MIN
<1>5. PICK fast : fast = IF "fast" \notin reasons THEN k ELSE [k EXCEPT !.ssthresh = t, !.cwnd = t + resent, !.incr = (t + resent) * Mss]
  OBVIOUS
<1>6. fast \in Good
  <2>1. t + resent \in Nat /\ (t + resent) * Mss \in Nat
    BY <1>2, <1>4
  <2>2. Set(k, t, t + resent, (t + resent) * Mss) \in Good
    BY <1>1, <1>4, <2>1
  <2> QED
    BY <1>5, <2>2
<1>7. PICK u : u = GreatestOf(cwnd \div 2, IKCP_THRESH_MIN)
  OBVIOUS
<1>8. u \in Nat
  <2>1. cwnd \div 2 \in Nat
    BY Quotient
  <2> QED
    BY <1>7, <2>1 DEF GreatestOf, IKCP_THRESH_MIN
<1>9. PICK lost : lost = IF "lost" \notin reasons THEN fast ELSE [fast EXCEPT !.ssthresh = u, !.cwnd = 1, !.incr = Mss]
  OBVIOUS
<1>10. lost \in Good
  <2>1. Set(fast, u, 1, Mss) \in Good
    BY <1>1, <1>2, <1>6, <1>8
  <2> QED
    BY <1>6, <1>9, <2>1
<1>11. PICK last : last = [lost EXCEPT !.cwnd = 1, !.incr = Mss]
  OBVIOUS
<1>12. last \in Good
  <2>1. lost \in Block
    BY <1>10, GoodIsOpen
  <2>2. last \in Block /\ SameWindows(lost, last)
    BY <1>2, <1>11, <2>1 DEF Block, SameWindows
  <2> QED
    BY <1>10, <2>2, GoodByWindows
<1>13. ShrinkCwnd(k, reasons, cwnd, resent) = IF lost.cwnd < 1 THEN last ELSE lost
  BY <1>3, <1>5, <1>7, <1>9, <1>11 DEF ShrinkCwnd
<1> QED
  BY <1>10, <1>12, <1>13

\* Why a segment is sent changes neither its number nor its type.
LEMMA TransmittedKeeps ==
  ASSUME NEW s \in Flying, NEW reason
  PROVE  Transmitted(s, reason) \in Flying /\ Transmitted(s, reason).sn = s.sn
<1>1. s.xmit \in Nat /\ s.fastack \in Nat
  BY DEF Flying
<1>2. PICK x : x = LeastOf(s.xmit + 1, GreatestOf(IKCP_DEADLINK, IKCP_FASTACK_LIMIT + 1))
  OBVIOUS
<1>3. x \in Nat
  BY <1>1, <1>2, LimitAssumption DEF LeastOf, GreatestOf
<1>4. PICK f : f = IF reason = "fast" THEN 0 ELSE s.fastack
  OBVIOUS
<1>5. f \in Nat
  BY <1>1, <1>4
<1>6. PICK t : t = [s EXCEPT !.xmit = x, !.fastack = f]
  OBVIOUS
<1>7. t \in Flying /\ t.sn = s.sn
  BY <1>3, <1>5, <1>6 DEF Flying
<1>8. Transmitted(s, reason) = s \/ Transmitted(s, reason) = t
  BY <1>2, <1>4, <1>6 DEF Transmitted
<1> QED
  BY <1>7, <1>8

\* The flags of a flush.
LEMMA ClearsFlags ==
  ASSUME NEW k \in Good, NEW probeDue
  PROVE  [ProbeWindow(k, probeDue) EXCEPT !.acklist = {}, !.probe = {}] \in Good
<1>1. k \in Block
  BY GoodIsOpen
<1>2. k.probe \in SUBSET Probes
  BY <1>1, Fields
<1>3. PICK w : w = (k.rmt_wnd = 0)
  OBVIOUS
<1>4. w \in BOOLEAN
  BY <1>3
<1>5. PICK p : p = IF k.rmt_wnd = 0 /\ k.probe_wait /\ probeDue THEN k.probe \union {"ASK"} ELSE k.probe
  OBVIOUS
<1>6. p \in SUBSET Probes
  BY <1>2, <1>5 DEF Probes
<1>7. PICK l : l = [k EXCEPT !.probe_wait = w, !.probe = p]
  OBVIOUS
<1>8. l \in Block /\ SameWindows(k, l)
  BY <1>1, <1>4, <1>6, <1>7 DEF Block, SameWindows
<1>9. PICK m : m = [l EXCEPT !.acklist = {}, !.probe = {}]
  OBVIOUS
<1>10. m \in Block /\ SameWindows(l, m)
  BY <1>8, <1>9 DEF Block, SameWindows
<1>11. m \in Good
  BY <1>8, <1>10, GoodByWindows
<1>12. ProbeWindow(k, probeDue) = l
  BY <1>3, <1>5, <1>7 DEF ProbeWindow
<1> QED
  BY <1>9, <1>11, <1>12

\* What ikcp_flush puts into a datagram has its type.
LEMMA DatagramTyped ==
  ASSUME NEW k \in Good, NEW acks \in SUBSET Sn, NEW cmds \in SUBSET {"WASK", "WINS"},
         NEW push \in Seq(Segment), Len(push) <= 1
  PROVE  Datagram(k, acks, cmds, push) \in Dgram
<1>1. k \in Block
  BY GoodIsOpen
<1>2. k.rcv_nxt \in Sn /\ k.rcv_queue \in Seq(Queued)
  BY <1>1, Fields
<1>3. Len(k.rcv_queue) \in Nat /\ IKCP_WND_RCV \in Nat
  BY <1>2, WindowAssumption
<1>4. ikcp_wnd_unused(k) \in Nat
  BY <1>3 DEF ikcp_wnd_unused, LeastOf
<1> QED
  BY <1>2, <1>4 DEF Datagram, Dgram

\* ikcp_flush keeps a block good, and what it sends is a datagram.
LEMMA Flushes ==
  ASSUME NEW k \in Good, NEW due, NEW probeDue, NEW resent \in Nat, NEW nocwnd
  PROVE  /\ ikcp_flush(k, due, probeDue, resent, nocwnd).kcp \in Good
         /\ ikcp_flush(k, due, probeDue, resent, nocwnd).out \subseteq Dgram
<1> DEFINE asks == ProbeWindow(k, probeDue)
<1> DEFINE cmds == (IF "ASK" \in asks.probe THEN {"WASK"} ELSE {}) \union
                         (IF "TELL" \in asks.probe THEN {"WINS"} ELSE {})
<1> DEFINE cwnd == SendWindow(k, nocwnd)
<1> DEFINE l == [asks EXCEPT !.acklist = {}, !.probe = {}]
<1> DEFINE filled == FillSndBuf(l, cwnd)
<1> DEFINE b == filled.snd_buf
<1> DEFINE why == [i \in DOMAIN b |-> Reason(b[i], due, resent)]
<1> DEFINE sent1 == {i \in DOMAIN why : why[i] # "no"}
<1> DEFINE buf == [i \in DOMAIN why |-> Transmitted(b[i], why[i])]
<1> DEFINE dead == (filled.dead \/ \E i \in sent1 : buf[i].xmit >= IKCP_DEADLINK)
<1> DEFINE after == [filled EXCEPT !.snd_buf = buf, !.dead = dead]
<1> DEFINE out == {Datagram(k, {}, {}, <<[sn |-> buf[i].sn, frg |-> buf[i].frg, msg |-> buf[i].msg]>>) : i \in sent1}
               \union (IF k.acklist = {} /\ cmds = {} THEN {} ELSE {Datagram(k, k.acklist, cmds, <<>>)})
<1>0. ikcp_flush(k, due, probeDue, resent, nocwnd) = [kcp |-> ShrinkCwnd(after, ToSet(why), cwnd, resent), out |-> out]
  BY DEF ikcp_flush
<1> HIDE DEF asks, cmds, cwnd, l, filled, b, why, sent1, buf, dead, after, out
<1>1. k \in Block
  BY GoodIsOpen
<1>2. asks = ProbeWindow(k, probeDue)
  BY DEF asks
<1>3. cmds = (IF "ASK" \in asks.probe THEN {"WASK"} ELSE {}) \union
                         (IF "TELL" \in asks.probe THEN {"WINS"} ELSE {})
  BY DEF cmds
<1>4. cmds \in SUBSET {"WASK", "WINS"}
  BY <1>3
<1>5. cwnd = SendWindow(k, nocwnd)
  BY DEF cwnd
<1>6. cwnd \in 0 .. IKCP_WND_SND /\ cwnd \in Nat
  BY <1>1, <1>5, SendWindowBounds
<1>7. l = [asks EXCEPT !.acklist = {}, !.probe = {}]
  BY DEF l
<1>8. l \in Good
  BY <1>2, <1>7, ClearsFlags
<1>9. filled = FillSndBuf(l, cwnd)
  BY DEF filled
<1>10. filled \in Good
  BY <1>6, <1>8, <1>9, Fills
<1>11. /\ filled \in Block /\ SndOK(filled) /\ RcvOK(filled)
       /\ Oldest(filled.snd_una, filled.snd_nxt, filled.snd_buf)
  BY <1>10 DEF Good, Open
<1>12. b = filled.snd_buf
  BY DEF b
<1>13. b \in Seq(Flying) /\ DOMAIN b = 1 .. Len(b) /\ Len(b) \in Nat
  BY <1>11, <1>12, Fields
<1>14. why = [i \in DOMAIN b |-> Reason(b[i], due, resent)]
  BY DEF why
<1>15. sent1 = {i \in DOMAIN why : why[i] # "no"}
  BY DEF sent1
<1>16. buf = [i \in DOMAIN why |-> Transmitted(b[i], why[i])]
  BY DEF buf
<1>17. DOMAIN why = 1 .. Len(b) /\ sent1 \subseteq 1 .. Len(b)
  BY <1>13, <1>14, <1>15
<1>18. ASSUME NEW i \in 1 .. Len(b) PROVE buf[i] \in Flying /\ buf[i].sn = b[i].sn
  <2>1. b[i] \in Flying
    BY <1>13
  <2>2. buf[i] = Transmitted(b[i], why[i])
    BY <1>16, <1>17
  <2> QED
    BY <2>1, <2>2, TransmittedKeeps
<1>19. buf \in Seq(Flying) /\ Len(buf) = Len(b)
  <2>1. buf = [i \in 1 .. Len(b) |-> buf[i]]
    BY <1>16, <1>17
  <2> QED
    BY <1>13, <1>18, <2>1
<1>20. dead = (filled.dead \/ \E i \in sent1 : buf[i].xmit >= IKCP_DEADLINK)
  BY DEF dead
<1>21. dead \in BOOLEAN
  BY <1>20
<1>22. PICK m : m = [filled EXCEPT !.snd_buf = buf]
  OBVIOUS
<1>23. m \in Good
  <2>1. m \in Block /\ m.snd_buf = buf /\ m.snd_una = filled.snd_una /\ m.snd_nxt = filled.snd_nxt /\ RcvOK(m)
    BY <1>11, <1>19, <1>22, SetSndBuf
  <2>2. InOrder(filled.snd_una, filled.snd_nxt, buf) /\ Oldest(filled.snd_una, filled.snd_nxt, buf)
    BY <1>11, <1>12, <1>13, <1>18, <1>19, SameNumbers DEF SndOK
  <2> QED
    BY <2>1, <2>2 DEF Good, Open, SndOK
<1>24. after = [filled EXCEPT !.snd_buf = buf, !.dead = dead]
  BY DEF after
<1>25. after \in Block /\ SameWindows(m, after)
  BY <1>11, <1>19, <1>21, <1>22, <1>24 DEF Block, SameWindows
<1>26. after \in Good
  BY <1>23, <1>25, GoodByWindows
<1>27. ShrinkCwnd(after, ToSet(why), cwnd, resent) \in Good
  BY <1>6, <1>26, ShrinksCwnd
<1>28. ASSUME NEW i \in sent1
       PROVE  Datagram(k, {}, {}, <<[sn |-> buf[i].sn, frg |-> buf[i].frg, msg |-> buf[i].msg]>>) \in Dgram
  <2>1. buf[i] \in Flying
    BY <1>17, <1>18
  <2>2. PICK x : x = [sn |-> buf[i].sn, frg |-> buf[i].frg, msg |-> buf[i].msg]
    OBVIOUS
  <2>3. x \in Segment
    BY <2>1, <2>2 DEF Flying, Segment
  <2>4. <<x>> \in Seq(Segment) /\ Len(<<x>>) <= 1 /\ {} \in SUBSET Sn /\ {} \in SUBSET {"WASK", "WINS"}
    BY <2>3
  <2>5. Datagram(k, {}, {}, <<x>>) \in Dgram
    BY <2>4, DatagramTyped
  <2> QED
    BY <2>2, <2>5
<1>29. Datagram(k, k.acklist, cmds, <<>>) \in Dgram
  <2>1. <<>> \in Seq(Segment) /\ Len(<<>>) <= 1
    OBVIOUS
  <2> QED
    BY <1>1, <1>4, <2>1, Fields, DatagramTyped
<1>30. out = {Datagram(k, {}, {}, <<[sn |-> buf[i].sn, frg |-> buf[i].frg, msg |-> buf[i].msg]>>) : i \in sent1}
               \union (IF k.acklist = {} /\ cmds = {} THEN {} ELSE {Datagram(k, k.acklist, cmds, <<>>)})
  BY DEF out
<1>31. out \subseteq Dgram
  BY <1>28, <1>29, <1>30
<1> QED
  BY <1>0, <1>27, <1>31

-----------------------------------------------------------------------------
(* The user's side.                                                         *)

\* A new block is good.
LEMMA Creates ==
  ASSUME NEW sn \in Sn
  PROVE  ikcp_create(sn) \in Good
<1>1. PICK l : l = ikcp_create(sn)
  OBVIOUS
<1>2. IKCP_WND_RCV \in Nat /\ IKCP_WND_SND \in Nat /\ <<>> \in Seq(Queued) /\ <<>> \in Seq(Flying)
  BY WindowAssumption
<1>3. l \in Block
  BY <1>1, <1>2 DEF ikcp_create, Block, IKCP_THRESH_INIT
<1>4. /\ l.snd_una = sn /\ l.snd_nxt = sn /\ l.snd_buf = <<>> /\ Len(l.snd_buf) = 0
      /\ l.rcv_nxt = sn /\ l.rcv_buf = {} /\ Len(l.rcv_queue) = 0
  BY <1>1 DEF ikcp_create
<1>5. Off(sn, sn) = 0
  BY OffCases, WindowAssumption DEF Sn
<1>6. InOrder(sn, sn, l.snd_buf) /\ Oldest(sn, sn, l.snd_buf)
  BY <1>2, <1>4, <1>5 DEF InOrder, Oldest
<1>7. Inside(sn, {})
  BY FS_EmptySet DEF Inside
<1>8. SndOK(l) /\ Oldest(l.snd_una, l.snd_nxt, l.snd_buf)
  BY <1>4, <1>6 DEF SndOK
<1>9. RcvOK(l)
  <2>1. 0 <= IKCP_WND_RCV
    BY <1>2
  <2> QED
    BY <1>4, <1>7, <2>1 DEF RcvOK
<1> QED
  BY <1>1, <1>3, <1>8, <1>9 DEF Good, Open

\* ikcp_send only appends to the send queue.
LEMMA Sends ==
  ASSUME NEW k \in Good, NEW msg \in Msg, NEW count \in Nat
  PROVE  ikcp_send(k, msg, count) \in Good
<1>1. k \in Block
  BY GoodIsOpen
<1>2. k.snd_queue \in Seq(Queued)
  BY <1>1, Fields
<1>3. PICK new : new = [i \in 1 .. count |-> [msg |-> msg, frg |-> count - i]]
  OBVIOUS
<1>4. ASSUME NEW i \in 1 .. count PROVE new[i] \in Queued
  <2>1. count - i \in Nat
    OBVIOUS
  <2> QED
    BY <1>3, <2>1 DEF Queued
<1>5. new \in Seq(Queued)
  <2>1. new = [i \in 1 .. count |-> new[i]]
    BY <1>3
  <2> QED
    BY <1>4, <2>1
<1>6. PICK q : q = k.snd_queue \o new
  OBVIOUS
<1>7. q \in Seq(Queued)
  BY <1>2, <1>5, <1>6, ConcatProperties
<1>8. PICK l : l = [k EXCEPT !.snd_queue = q]
  OBVIOUS
<1>9. l \in Block /\ SameWindows(k, l)
  BY <1>1, <1>7, <1>8 DEF Block, SameWindows
<1>10. l \in Good
  BY <1>9, GoodByWindows
<1>11. ikcp_send(k, msg, count) = k \/ ikcp_send(k, msg, count) = l
  BY <1>3, <1>6, <1>8 DEF ikcp_send
<1> QED
  BY <1>10, <1>11

\* The messages ikcp_peeksize counts are in the queue.
LEMMA Peeks ==
  ASSUME NEW k \in Good
  PROVE  /\ ikcp_peeksize(k) \in 0 .. Len(k.rcv_queue)
         /\ ikcp_peeksize(k) # 0 => Head(k.rcv_queue).msg \in Msg
<1>1. k \in Block
  BY GoodIsOpen
<1>2. k.rcv_queue \in Seq(Queued)
  BY <1>1, Fields
<1>3. PICK q : q = k.rcv_queue
  OBVIOUS
<1>4. q \in Seq(Queued) /\ Len(q) \in Nat /\ DOMAIN q = 1 .. Len(q)
  BY <1>2, <1>3
<1>5. CASE q = <<>>
  BY <1>3, <1>4, <1>5 DEF ikcp_peeksize
<1>6. CASE q # <<>>
  <2>1. Head(q) \in Queued
    BY <1>4, <1>6
  <2>2. Head(q).msg \in Msg
    BY <2>1 DEF Queued
  <2>3. PICK S : S = {i \in DOMAIN q : q[i].frg = 0} \union {Len(q)}
    OBVIOUS
  <2>4. S # {} /\ S \subseteq Nat /\ S \subseteq 0 .. Len(q)
    BY <1>4, <2>3
  <2>5. Min(S) \in 0 .. Len(q)
    BY <2>4, MinIsLeast
  <2>6. ikcp_peeksize(k) = 0 \/ ikcp_peeksize(k) = Min(S)
    BY <1>3, <2>3 DEF ikcp_peeksize
  <2> QED
    BY <1>3, <1>4, <2>2, <2>5, <2>6
<1> QED
  BY <1>5, <1>6

\* ikcp_recv takes from the queue and refills it from the buffer.
LEMMA Receives ==
  ASSUME NEW k \in Good
  PROVE  ikcp_recv(k) \in Good
<1>1. k \in Block /\ SndOK(k) /\ RcvOK(k) /\ Oldest(k.snd_una, k.snd_nxt, k.snd_buf)
  BY DEF Good, Open
<1>2. k.rcv_queue \in Seq(Queued)
  BY <1>1, Fields
<1>3. PICK n : n = ikcp_peeksize(k)
  OBVIOUS
<1>4. n \in 0 .. Len(k.rcv_queue)
  BY <1>3, Peeks
<1>5. PICK q : q = SubSeq(k.rcv_queue, n + 1, Len(k.rcv_queue))
  OBVIOUS
<1>6. q \in Seq(Queued) /\ Len(q) = Len(k.rcv_queue) - n
  BY <1>2, <1>4, <1>5, RestIsPart
<1>7. Len(q) <= IKCP_WND_RCV
  <2>1. Len(k.rcv_queue) \in Nat /\ Len(k.rcv_queue) <= IKCP_WND_RCV /\ IKCP_WND_RCV \in Nat
    BY <1>1, <1>2, WindowAssumption DEF RcvOK
  <2> QED
    BY <1>4, <1>6, <2>1
<1>8. PICK l : l = [k EXCEPT !.rcv_queue = q]
  OBVIOUS
<1>9. l \in Block
  BY <1>1, <1>6, <1>8 DEF Block
<1>10. /\ l.snd_una = k.snd_una /\ l.snd_nxt = k.snd_nxt /\ l.snd_buf = k.snd_buf
       /\ l.rcv_nxt = k.rcv_nxt /\ l.rcv_buf = k.rcv_buf /\ l.rcv_queue = q
  BY <1>1, <1>8 DEF Block
<1>11. l \in Good
  BY <1>1, <1>7, <1>9, <1>10 DEF Good, Open, SndOK, RcvOK
<1>12. PICK taken : taken = MoveAvailable(l)
  OBVIOUS
<1>13. taken \in Good
  BY <1>11, <1>12, Moves
<1>14. PICK p : p = IF Len(k.rcv_queue) >= IKCP_WND_RCV /\ Len(taken.rcv_queue) < IKCP_WND_RCV
                    THEN taken.probe \union {"TELL"} ELSE taken.probe
  OBVIOUS
<1>15. p \in SUBSET Probes
  <2>1. taken.probe \in SUBSET Probes
    BY <1>13, GoodIsOpen, Fields
  <2> QED
    BY <1>14, <2>1 DEF Probes
<1>16. ikcp_recv(k) = [taken EXCEPT !.probe = p]
  BY <1>3, <1>5, <1>8, <1>12, <1>14 DEF ikcp_recv
<1> QED
  BY <1>13, <1>15, <1>16, SetProbe

-----------------------------------------------------------------------------
(* The loops of the applications.                                           *)

\* A block and the messages taken from it.
Taken == [kcp : Good, msgs : Seq(Msg)]

\* One message taken.
LEMMA TakesMessage ==
  ASSUME NEW r \in Taken, ikcp_peeksize(r.kcp) # 0
  PROVE  [kcp |-> ikcp_recv(r.kcp), msgs |-> Append(r.msgs, Head(r.kcp.rcv_queue).msg)] \in Taken
<1>1. r.kcp \in Good /\ r.msgs \in Seq(Msg)
  BY DEF Taken
<1>2. Head(r.kcp.rcv_queue).msg \in Msg
  BY <1>1, Peeks
<1>3. Append(r.msgs, Head(r.kcp.rcv_queue).msg) \in Seq(Msg)
  BY <1>1, <1>2, AppendProperties
<1>4. ikcp_recv(r.kcp) \in Good
  BY <1>1, Receives
<1> QED
  BY <1>3, <1>4 DEF Taken

\* The demonstration takes one message at most.
LEMMA TakesOne ==
  ASSUME NEW k \in Good, NEW fits
  PROVE  TakeOne(k, fits) \in Taken
<1>1. <<>> \in Seq(Msg)
  OBVIOUS
<1>2. PICK r : r = [kcp |-> k, msgs |-> <<>>]
  OBVIOUS
<1>3. r \in Taken
  BY <1>1, <1>2 DEF Taken
<1>4. CASE ~fits \/ ikcp_peeksize(k) = 0
  BY <1>2, <1>3, <1>4 DEF TakeOne
<1>5. CASE ~(~fits \/ ikcp_peeksize(k) = 0)
  <2>1. Head(k.rcv_queue).msg \in Msg /\ ikcp_recv(k) \in Good
    BY <1>5, Peeks, Receives
  <2>2. PICK m : m = Head(k.rcv_queue).msg
    OBVIOUS
  <2>3. <<m>> \in Seq(Msg)
    BY <2>1, <2>2
  <2>4. TakeOne(k, fits) = [kcp |-> ikcp_recv(k), msgs |-> <<m>>]
    BY <1>5, <2>2 DEF TakeOne
  <2> QED
    BY <2>1, <2>3, <2>4 DEF Taken
<1> QED
  BY <1>4, <1>5

\* A step of Drain.
Round(r) ==
  IF ikcp_peeksize(r.kcp) = 0 THEN r
  ELSE [kcp |-> ikcp_recv(r.kcp), msgs |-> Append(r.msgs, Head(r.kcp.rcv_queue).msg)]

\* Drain keeps the block good and takes messages.
LEMMA Drains ==
  ASSUME NEW k \in Good
  PROVE  Drain(k) \in Taken
<1>1. PICK n \in Nat : n = 2 * IKCP_WND_RCV
  BY WindowAssumption
<1>2. PICK a : a = [kcp |-> k, msgs |-> <<>>]
  OBVIOUS
<1>3. a \in Taken
  <2>1. <<>> \in Seq(Msg)
    OBVIOUS
  <2> QED
    BY <1>2, <2>1 DEF Taken
<1>4. \A r \in Taken : Round(r) \in Taken
  BY TakesMessage DEF Round
<1>5. PICK G : G = [x \in Taken \X (1 .. n) |-> Round(x[1])]
  OBVIOUS
<1>6. \A r \in Taken : \A i \in 1 .. n : G[<<r, i>>] = Round(r)
  <2> SUFFICES ASSUME NEW r \in Taken, NEW i \in 1 .. n PROVE G[<<r, i>>] = Round(r)
    OBVIOUS
  <2>1. PICK x : x = <<r, i>>
    OBVIOUS
  <2>2. x \in Taken \X (1 .. n) /\ x[1] = r
    BY <2>1
  <2> QED
    BY <1>5, <2>1, <2>2
<1>7. \A r \in Taken : \A i \in 1 .. n : G[<<r, i>>] \in Taken
  BY <1>4, <1>6
<1>8. PICK h : Iterates(h, n, a, G) /\ \A i \in 0 .. n : h[i] \in Taken
  BY <1>3, <1>7, RecursionIn
<1>9. PICK g : g = [i \in 0 .. n |-> IF i = 0 THEN a ELSE Round(h[i - 1])]
  OBVIOUS
<1>10. \A i \in 0 .. n : g[i] = h[i]
  <2> SUFFICES ASSUME NEW i \in 0 .. n PROVE g[i] = h[i]
    OBVIOUS
  <2>1. CASE i = 0
    BY <1>8, <1>9, <2>1 DEF Iterates
  <2>2. CASE i # 0
    <3>1. i \in 1 .. n /\ h[i - 1] \in Taken
      BY <1>8, <2>2
    <3>2. h[i] = G[<<h[i - 1], i>>]
      BY <1>8, <3>1 DEF Iterates
    <3> QED
      BY <1>6, <1>9, <2>2, <3>1, <3>2
  <2> QED
    BY <2>1, <2>2
<1>11. h = [i \in 0 .. n |-> h[i]]
  BY <1>8 DEF Iterates
<1>12. g = h
  BY <1>9, <1>10, <1>11
<1>13. \E f : f = [i \in 0 .. n |-> IF i = 0 THEN a ELSE Round(f[i - 1])]
  BY <1>9, <1>12
<1>14. PICK f : f = CHOOSE run : run = [i \in 0 .. n |-> IF i = 0 THEN a ELSE Round(run[i - 1])]
  OBVIOUS
<1>15. f = [i \in 0 .. n |-> IF i = 0 THEN a ELSE Round(f[i - 1])]
  BY <1>13, <1>14
<1>16. Drain(k) = f[n]
  BY <1>1, <1>2, <1>14 DEF Drain, Round
<1>17. PICK W : W = [i \in 0 .. n |-> Taken]
  OBVIOUS
<1>18. f[0] \in W[0]
  BY <1>3, <1>15, <1>17
<1>19. ASSUME NEW i \in 1 .. n, f[i - 1] \in W[i - 1] PROVE f[i] \in W[i]
  <2>1. i - 1 \in 0 .. n /\ i \in 0 .. n /\ i # 0
    OBVIOUS
  <2>2. W[i - 1] = Taken /\ W[i] = Taken
    BY <1>17, <2>1
  <2>3. f[i] = Round(f[i - 1])
    BY <1>15, <2>1
  <2> QED
    BY <1>4, <1>19, <2>2, <2>3
<1>20. \A i \in 0 .. n : f[i] \in W[i]
  BY <1>18, <1>19, Induct
<1> QED
  BY <1>16, <1>17, <1>20

\* Every message has a number of fragments.
LEMMA FragsTyped ==
  ASSUME NEW m \in Msg
  PROVE  FragsOf(m) \in Nat
<1>1. CASE m = Alive
  BY <1>1 DEF FragsOf, Alive
<1>2. CASE m \in {Say(c, l) : c \in Client, l \in Line}
  <2>1. PICK c \in Client, l \in Line : m = Say(c, l)
    BY <1>2
  <2>2. m.kind = "say" /\ m.line = l
    BY <2>1 DEF Say
  <2>3. Frags[l] \in Nat
    BY FragsAssumption
  <2> QED
    BY <2>2, <2>3 DEF FragsOf
<1>3. CASE m \in {Joins(c) : c \in Client}
  <2>1. PICK c \in Client : m = Joins(c)
    BY <1>3
  <2> QED
    BY <2>1 DEF Joins, FragsOf
<1>4. CASE m \in {Leaves(c) : c \in Client}
  <2>1. PICK c \in Client : m = Leaves(c)
    BY <1>4
  <2> QED
    BY <2>1 DEF Leaves, FragsOf
<1> QED
  BY <1>1, <1>2, <1>3, <1>4 DEF Msg

\* SendAll keeps the block good.
LEMMA SendsAll ==
  ASSUME NEW k \in Good, NEW msgs \in Seq(Msg)
  PROVE  SendAll(k, msgs) \in Good
<1>1. PICK n \in Nat : n = Len(msgs)
  OBVIOUS
<1>2. \A l \in Good : \A i \in 1 .. n : ikcp_send(l, msgs[i], FragsOf(msgs[i])) \in Good
  <2> SUFFICES ASSUME NEW l \in Good, NEW i \in 1 .. n
               PROVE  ikcp_send(l, msgs[i], FragsOf(msgs[i])) \in Good
    OBVIOUS
  <2>1. msgs[i] \in Msg
    BY <1>1
  <2> QED
    BY <2>1, FragsTyped, Sends
<1>3. PICK G : G = [x \in Good \X (1 .. n) |-> ikcp_send(x[1], msgs[x[2]], FragsOf(msgs[x[2]]))]
  OBVIOUS
<1>4. \A l \in Good : \A i \in 1 .. n : G[<<l, i>>] = ikcp_send(l, msgs[i], FragsOf(msgs[i]))
  <2> SUFFICES ASSUME NEW l \in Good, NEW i \in 1 .. n
               PROVE  G[<<l, i>>] = ikcp_send(l, msgs[i], FragsOf(msgs[i]))
    OBVIOUS
  <2>1. PICK x : x = <<l, i>>
    OBVIOUS
  <2>2. x \in Good \X (1 .. n) /\ x[1] = l /\ x[2] = i
    BY <2>1
  <2> QED
    BY <1>3, <2>1, <2>2
<1>5. \A l \in Good : \A i \in 1 .. n : G[<<l, i>>] \in Good
  BY <1>2, <1>4
<1>6. PICK h : Iterates(h, n, k, G) /\ \A i \in 0 .. n : h[i] \in Good
  BY <1>5, RecursionIn
<1>7. PICK g : g = [i \in 0 .. n |-> IF i = 0 THEN k ELSE ikcp_send(h[i - 1], msgs[i], FragsOf(msgs[i]))]
  OBVIOUS
<1>8. \A i \in 0 .. n : g[i] = h[i]
  <2> SUFFICES ASSUME NEW i \in 0 .. n PROVE g[i] = h[i]
    OBVIOUS
  <2>1. CASE i = 0
    BY <1>6, <1>7, <2>1 DEF Iterates
  <2>2. CASE i # 0
    <3>1. i \in 1 .. n /\ h[i - 1] \in Good
      BY <1>6, <2>2
    <3>2. h[i] = G[<<h[i - 1], i>>]
      BY <1>6, <3>1 DEF Iterates
    <3> QED
      BY <1>4, <1>7, <2>2, <3>1, <3>2
  <2> QED
    BY <2>1, <2>2
<1>9. h = [i \in 0 .. n |-> h[i]]
  BY <1>6 DEF Iterates
<1>10. g = h
  BY <1>7, <1>8, <1>9
<1>11. \E f : f = [i \in 0 .. n |-> IF i = 0 THEN k ELSE ikcp_send(f[i - 1], msgs[i], FragsOf(msgs[i]))]
  BY <1>7, <1>10
<1>12. PICK f : f = CHOOSE after : after = [i \in 0 .. n |-> IF i = 0 THEN k ELSE ikcp_send(after[i - 1], msgs[i], FragsOf(msgs[i]))]
  OBVIOUS
<1>13. f = [i \in 0 .. n |-> IF i = 0 THEN k ELSE ikcp_send(f[i - 1], msgs[i], FragsOf(msgs[i]))]
  BY <1>11, <1>12
<1>14. SendAll(k, msgs) = f[n]
  BY <1>1, <1>12 DEF SendAll
<1>15. PICK W : W = [i \in 0 .. n |-> Good]
  OBVIOUS
<1>16. f[0] \in W[0]
  BY <1>13, <1>15
<1>17. ASSUME NEW i \in 1 .. n, f[i - 1] \in W[i - 1] PROVE f[i] \in W[i]
  <2>1. i - 1 \in 0 .. n /\ i \in 0 .. n /\ i # 0
    OBVIOUS
  <2>2. W[i - 1] = Good /\ W[i] = Good
    BY <1>15, <2>1
  <2>3. f[i] = ikcp_send(f[i - 1], msgs[i], FragsOf(msgs[i]))
    BY <1>13, <2>1
  <2> QED
    BY <1>2, <1>17, <2>2, <2>3
<1>18. \A i \in 0 .. n : f[i] \in W[i]
  BY <1>16, <1>17, Induct
<1> QED
  BY <1>14, <1>15, <1>18

\* Notify keeps the sessions and their blocks good.
LEMMA Notifies ==
  ASSUME NEW s, s \in [DOMAIN s -> Good], NEW msgs \in Seq(Msg)
  PROVE  DOMAIN Notify(s, msgs) = DOMAIN s /\ Notify(s, msgs) \in [DOMAIN s -> Good]
<1>1. \A c \in DOMAIN s : SendAll(s[c], msgs) \in Good
  BY SendsAll
<1> QED
  BY <1>1 DEF Notify

\* A session is added with a new block.
LEMMA AddsSession ==
  ASSUME NEW c \in Client, DOMAIN session \subseteq Client, session \in [DOMAIN session -> Good]
  PROVE  /\ DOMAIN GetSession(c) = DOMAIN session \union {c}
         /\ GetSession(c) \in [DOMAIN GetSession(c) -> Good]
<1>1. 0 \in Sn
  BY WindowAssumption DEF Sn
<1>2. ikcp_create(0) \in Good
  BY <1>1, Creates
<1> QED
  BY <1>2 DEF GetSession

-----------------------------------------------------------------------------
(* The steps of the chat room.                                              *)

\* An entry of a function is replaced.
LEMMA SetEntry ==
  ASSUME NEW S, NEW T, NEW f \in [S -> T], NEW c, NEW v, c \in S => v \in T
  PROVE  [f EXCEPT ![c] = v] \in [S -> T] /\ DOMAIN [f EXCEPT ![c] = v] = S
  OBVIOUS

\* Datagrams are added.
LEMMA AddsOut ==
  ASSUME NEW f \in [Client -> SUBSET Dgram], NEW c \in Client, NEW out \in SUBSET Dgram
  PROVE  [f EXCEPT ![c] = @ \union out] \in [Client -> SUBSET Dgram]
  OBVIOUS

\* A datagram is taken off the network.
LEMMA TakesDgram ==
  ASSUME NEW net \in [Client -> SUBSET Dgram], NEW c, NEW d, NEW fate
  PROVE  Takes(net, c, d, fate) \in [Client -> SUBSET Dgram]
<1>1. [net EXCEPT ![c] = net[c] \ {d}] \in [Client -> SUBSET Dgram]
  OBVIOUS
<1> QED
  BY <1>1 DEF Takes

\* The application never changes.
LEMMA SameApp ==
  ASSUME NEW l, "app" \in DOMAIN l, NEW e
  PROVE  /\ "app" \in DOMAIN [l EXCEPT !.fault = e] /\ [l EXCEPT !.fault = e].app = l.app
         /\ "app" \in DOMAIN [l EXCEPT !.expiry = e] /\ [l EXCEPT !.expiry = e].app = l.app
         /\ "app" \in DOMAIN [l EXCEPT !.alive = e] /\ [l EXCEPT !.alive = e].app = l.app
         /\ "app" \in DOMAIN [l EXCEPT !.timeout = e] /\ [l EXCEPT !.timeout = e].app = l.app
         /\ "app" \in DOMAIN [l EXCEPT !.lines = e] /\ [l EXCEPT !.lines = e].app = l.app
  OBVIOUS

\* Expired timers are drawn from the budget.
LEMMA ExpiresKeepsApp ==
  ASSUME "app" \in DOMAIN left, NEW due, NEW probe
  PROVE  "app" \in DOMAIN Expires(due, probe) /\ Expires(due, probe).app = left.app
  BY SameApp DEF Expires

\* A typed line.
LEMMA SendStep ==
  ASSUME BlocksGood, NEW c \in Client, NEW line \in Line, ChatClientSend(c, line)
  PROVE  BlocksGood'
<1>1. PICK msg : msg = Say(c, line)
  OBVIOUS
<1>2. msg \in Msg
  BY <1>1 DEF Msg
<1>3. PICK k : k = ikcp_send(kcp[c], msg, FragsOf(msg))
  OBVIOUS
<1>4. k \in Good
  <2>1. kcp[c] \in Good
    BY DEF BlocksGood
  <2> QED
    BY <1>2, <1>3, <2>1, FragsTyped, Sends
<1>5. kcp' = [kcp EXCEPT ![c] = k]
  BY <1>1, <1>3 DEF ChatClientSend
<1>6. kcp' \in [Client -> Good]
  BY <1>4, <1>5 DEF BlocksGood
<1>7. "app" \in DOMAIN left' /\ left'.app = left.app
  <2>1. left' = [left EXCEPT !.lines = left.lines \ {line}]
    BY DEF ChatClientSend
  <2> QED
    BY <2>1, SameApp DEF BlocksGood
<1> QED
  BY <1>6, <1>7 DEF BlocksGood, ChatClientSend

\* KcpSession::Update of a client.
LEMMA ClientUpdateStep ==
  ASSUME BlocksGood, NEW c \in Client, NEW due, NEW probe, NEW alive, ClientUpdate(c, due, probe, alive)
  PROVE  BlocksGood'
<1>1. PICK f : f = Flush(kcp[c], due, probe)
  OBVIOUS
<1>2. kcp[c] \in Good /\ opt.resend \in Nat
  BY DEF BlocksGood
<1>3. f.kcp \in Good /\ f.out \subseteq Dgram
  BY <1>1, <1>2, Flushes DEF Flush
<1>4. ikcp_send(f.kcp, Alive, 1) \in Good
  <2>1. Alive \in Msg /\ 1 \in Nat
    BY DEF Msg
  <2> QED
    BY <1>3, <2>1, Sends
<1>5. PICK k : k = IF alive THEN ikcp_send(f.kcp, Alive, 1) ELSE f.kcp
  OBVIOUS
<1>6. k \in Good
  BY <1>3, <1>4, <1>5
<1>7. kcp' = [kcp EXCEPT ![c] = k] /\ up' = [up EXCEPT ![c] = @ \union f.out]
  BY <1>1, <1>5 DEF ClientUpdate
<1>8. kcp' \in [Client -> Good]
  BY <1>6, <1>7 DEF BlocksGood
<1>9. up' \in [Client -> SUBSET Dgram]
  BY <1>3, <1>7, AddsOut DEF BlocksGood
<1>10. "app" \in DOMAIN left' /\ left'.app = left.app
  <2>1. PICK l : l = Expires(due, probe)
    OBVIOUS
  <2>2. "app" \in DOMAIN l /\ l.app = left.app
    BY <2>1, ExpiresKeepsApp DEF BlocksGood
  <2>3. left' = [l EXCEPT !.alive = IF alive THEN l.alive - 1 ELSE l.alive]
    BY <2>1 DEF ClientUpdate
  <2> QED
    BY <2>2, <2>3, SameApp
<1> QED
  BY <1>8, <1>9, <1>10 DEF BlocksGood, ClientUpdate

\* KcpServer::Update of a session.
LEMMA ServerUpdateStep ==
  ASSUME BlocksGood, NEW c \in DOMAIN session, NEW due, NEW probe, ServerUpdate(c, due, probe)
  PROVE  BlocksGood'
<1>1. PICK f : f = Flush(session[c], due, probe)
  OBVIOUS
<1>2. session[c] \in Good /\ opt.resend \in Nat /\ c \in Client
  BY DEF BlocksGood
<1>3. f.kcp \in Good /\ f.out \subseteq Dgram
  BY <1>1, <1>2, Flushes DEF Flush
<1>4. session' = [session EXCEPT ![c] = f.kcp] /\ down' = [down EXCEPT ![c] = @ \union f.out]
  BY <1>1 DEF ServerUpdate
<1>5. DOMAIN session' = DOMAIN session /\ session' \in [DOMAIN session -> Good]
  BY <1>3, <1>4, SetEntry DEF BlocksGood
<1>6. down' \in [Client -> SUBSET Dgram]
  BY <1>2, <1>3, <1>4, AddsOut DEF BlocksGood
<1>7. "app" \in DOMAIN left' /\ left'.app = left.app
  BY ExpiresKeepsApp DEF BlocksGood, ServerUpdate
<1> QED
  BY <1>5, <1>6, <1>7 DEF BlocksGood, ServerUpdate

\* A session that timed out goes, and the others are told.
LEMMA TimeoutStep ==
  ASSUME BlocksGood, NEW c \in DOMAIN session, NEW due, NEW probe, SessionTimeout(c, due, probe)
  PROVE  BlocksGood'
<1>1. PICK f : f = Flush(session[c], due, probe)
  OBVIOUS
<1>2. session[c] \in Good /\ opt.resend \in Nat /\ c \in Client
  BY DEF BlocksGood
<1>3. f.out \subseteq Dgram
  BY <1>1, <1>2, Flushes DEF Flush
<1>4. PICK rest : rest = [u \in DOMAIN session \ {c} |-> session[u]]
  OBVIOUS
<1>5. DOMAIN rest \subseteq Client /\ rest \in [DOMAIN rest -> Good]
  BY <1>4 DEF BlocksGood
<1>6. PICK m : m = Leaves(c)
  OBVIOUS
<1>7. <<m>> \in Seq(Msg)
  <2>1. m \in Msg
    BY <1>2, <1>6 DEF Msg
  <2> QED
    BY <2>1
<1>8. session' = Notify(rest, <<m>>) /\ down' = [down EXCEPT ![c] = @ \union f.out]
  BY <1>1, <1>4, <1>6 DEF SessionTimeout
<1>9. DOMAIN session' \subseteq Client /\ session' \in [DOMAIN session' -> Good]
  BY <1>5, <1>7, <1>8, Notifies
<1>10. down' \in [Client -> SUBSET Dgram]
  BY <1>2, <1>3, <1>8, AddsOut DEF BlocksGood
<1>11. "app" \in DOMAIN left' /\ left'.app = left.app /\ left.app = "chat"
  <2>1. PICK l : l = Expires(due, probe)
    OBVIOUS
  <2>2. "app" \in DOMAIN l /\ l.app = left.app
    BY <2>1, ExpiresKeepsApp DEF BlocksGood
  <2>3. left' = [l EXCEPT !.timeout = l.timeout - 1] /\ left.app = "chat"
    BY <2>1 DEF SessionTimeout
  <2> QED
    BY <2>2, <2>3, SameApp
<1> QED
  BY <1>9, <1>10, <1>11 DEF BlocksGood, SessionTimeout

\* The chat server reads a datagram: the session, the room and the lines.
LEMMA ServerInputStep ==
  ASSUME BlocksGood, NEW c \in Client, NEW d \in Dgram, ServerInput(c, d)
  PROVE  /\ DOMAIN session' \subseteq Client /\ session' \in [DOMAIN session' -> Good]
         /\ left.app = "chat" /\ down' = down
<1>1. PICK joined : joined = IF c \in DOMAIN session THEN <<>> ELSE <<Joins(c)>>
  OBVIOUS
<1>2. joined \in Seq(Msg)
  <2>1. Joins(c) \in Msg
    BY DEF Msg
  <2>2. PICK m \in Msg : m = Joins(c)
    BY <2>1
  <2>3. <<>> \in Seq(Msg) /\ <<m>> \in Seq(Msg)
    OBVIOUS
  <2> QED
    BY <1>1, <2>2, <2>3
<1>3. PICK g : g = GetSession(c)
  OBVIOUS
<1>4. DOMAIN g = DOMAIN session \union {c} /\ g \in [DOMAIN g -> Good]
  BY <1>3, AddsSession DEF BlocksGood
<1>5. PICK room : room = Notify(g, joined)
  OBVIOUS
<1>6. DOMAIN room = DOMAIN session \union {c} /\ room \in [DOMAIN room -> Good]
  BY <1>2, <1>4, <1>5, Notifies
<1>7. PICK r : r = Drain(ikcp_input(room[c], d, opt.resend))
  OBVIOUS
<1>8. r \in Taken
  <2>1. room[c] \in Good /\ opt.resend \in Nat
    BY <1>6 DEF BlocksGood
  <2> QED
    BY <1>7, <2>1, Input, Drains
<1>9. r.kcp \in Good /\ r.msgs \in Seq(Msg)
  BY <1>8 DEF Taken
<1>10. PICK lines : lines = Sift(r.msgs, ToSet(r.msgs) \ {Alive})
  OBVIOUS
<1>11. lines \in Seq(Msg)
  BY <1>9, <1>10, SiftKeepsOrder
<1>12. PICK room2 : room2 = [room EXCEPT ![c] = r.kcp]
  OBVIOUS
<1>13. DOMAIN room2 = DOMAIN room /\ room2 \in [DOMAIN room2 -> Good]
  BY <1>6, <1>9, <1>12, SetEntry
<1>14. session' = Notify(room2, lines)
  BY <1>1, <1>3, <1>5, <1>7, <1>10, <1>12 DEF ServerInput
<1>15. DOMAIN session' = DOMAIN room2 /\ session' \in [DOMAIN session' -> Good]
  BY <1>11, <1>13, <1>14, Notifies
<1>16. DOMAIN session \subseteq Client
  BY DEF BlocksGood
<1> QED
  BY <1>6, <1>13, <1>15, <1>16 DEF ServerInput

\* The demonstration server reads a datagram and echoes.
LEMMA DemoInputStep ==
  ASSUME BlocksGood, NEW c \in Client, NEW d \in Dgram, DemoInput(c, d)
  PROVE  /\ DOMAIN session' = DOMAIN session /\ session' \in [DOMAIN session -> Good]
         /\ down' \in [Client -> SUBSET Dgram]
<1>1. left.app = "demo" /\ c \in DOMAIN session /\ session[c] \in Good /\ opt.resend \in Nat
  <2>1. left.app = "demo"
    BY DEF DemoInput
  <2> QED
    BY <2>1 DEF BlocksGood
<1>2. PICK r : r = TakeOne(ikcp_input(session[c], d, opt.resend), d.push # <<>>)
  OBVIOUS
<1>3. r \in Taken
  <2>1. ikcp_input(session[c], d, opt.resend) \in Good
    BY <1>1, Input
  <2> QED
    BY <1>2, <2>1, TakesOne
<1>4. r.kcp \in Good /\ r.msgs \in Seq(Msg)
  BY <1>3 DEF Taken
<1>5. PICK echo : echo = SendAll(r.kcp, r.msgs)
  OBVIOUS
<1>6. echo \in Good
  BY <1>4, <1>5, SendsAll
<1>7. PICK f : f = IF r.msgs = <<>> THEN [kcp |-> echo, out |-> {}] ELSE Flush(echo, {}, FALSE)
  OBVIOUS
<1>8. f.kcp \in Good /\ f.out \subseteq Dgram
  <2>1. Flush(echo, {}, FALSE).kcp \in Good /\ Flush(echo, {}, FALSE).out \subseteq Dgram
    BY <1>1, <1>6, Flushes DEF Flush
  <2>2. CASE r.msgs = <<>>
    BY <1>6, <1>7, <2>2
  <2>3. CASE r.msgs # <<>>
    BY <1>7, <2>1, <2>3
  <2> QED
    BY <2>2, <2>3
<1>9. session' = [session EXCEPT ![c] = f.kcp] /\ down' = [down EXCEPT ![c] = @ \union f.out]
  BY <1>2, <1>5, <1>7 DEF DemoInput
<1>10. DOMAIN session' = DOMAIN session /\ session' \in [DOMAIN session -> Good]
  BY <1>8, <1>9, SetEntry DEF BlocksGood
<1>11. down' \in [Client -> SUBSET Dgram]
  BY <1>8, <1>9, AddsOut DEF BlocksGood
<1> QED
  BY <1>10, <1>11

\* A client reads a datagram.
LEMMA ClientInputStep ==
  ASSUME BlocksGood, NEW c \in Client, NEW d \in Dgram, ClientInput(c, d)
  PROVE  kcp' \in [Client -> Good]
<1>1. PICK k : k = ikcp_input(kcp[c], d, opt.resend)
  OBVIOUS
<1>2. k \in Good
  BY <1>1, Input DEF BlocksGood
<1>3. PICK r : r = IF left.app = "chat" THEN Drain(k) ELSE TakeOne(k, TRUE)
  OBVIOUS
<1>4. r \in Taken
  BY <1>2, <1>3, Drains, TakesOne
<1>5. r.kcp \in Good
  BY <1>4 DEF Taken
<1>6. kcp' = [kcp EXCEPT ![c] = r.kcp]
  BY <1>1, <1>3 DEF ClientInput
<1> QED
  BY <1>5, <1>6 DEF BlocksGood

\* A datagram arrives, at either end, and may arrive again.
LEMMA ArriveStep ==
  ASSUME BlocksGood, NEW c \in Client, NEW d, NEW way, NEW fate, Arrive(c, d, way, fate)
  PROVE  BlocksGood'
<1>1. "app" \in DOMAIN left' /\ left'.app = left.app /\ opt' = opt
  <2>1. left' = left \/ left' = [left EXCEPT !.fault = left.fault - 1]
    BY DEF Arrive
  <2>2. "app" \in DOMAIN left /\ opt' = opt
    BY DEF BlocksGood, Arrive
  <2> QED
    BY <2>1, <2>2, SameApp
<1>2. CASE d \in up[c] /\ ServerInput(c, d) /\ up' = Takes(up, c, d, fate) /\ kcp' = kcp
  <2>1. d \in Dgram
    BY <1>2 DEF BlocksGood
  <2>2. up' \in [Client -> SUBSET Dgram]
    BY <1>2, TakesDgram DEF BlocksGood
  <2>3. /\ DOMAIN session' \subseteq Client /\ session' \in [DOMAIN session' -> Good]
        /\ left.app = "chat" /\ down' = down
    BY <1>2, <2>1, ServerInputStep
  <2> QED
    BY <1>1, <1>2, <2>2, <2>3 DEF BlocksGood
<1>3. CASE d \in up[c] /\ DemoInput(c, d) /\ up' = Takes(up, c, d, fate) /\ kcp' = kcp
  <2>1. d \in Dgram
    BY <1>3 DEF BlocksGood
  <2>2. up' \in [Client -> SUBSET Dgram]
    BY <1>3, TakesDgram DEF BlocksGood
  <2>3. /\ DOMAIN session' = DOMAIN session /\ session' \in [DOMAIN session -> Good]
        /\ down' \in [Client -> SUBSET Dgram]
    BY <1>3, <2>1, DemoInputStep
  <2> QED
    BY <1>1, <1>3, <2>2, <2>3 DEF BlocksGood
<1>4. CASE d \in down[c] /\ ClientInput(c, d) /\ down' = Takes(down, c, d, fate) /\ session' = session /\ up' = up
  <2>1. d \in Dgram
    BY <1>4 DEF BlocksGood
  <2>2. down' \in [Client -> SUBSET Dgram]
    BY <1>4, TakesDgram DEF BlocksGood
  <2>3. kcp' \in [Client -> Good]
    BY <1>4, <2>1, ClientInputStep
  <2> QED
    BY <1>1, <1>4, <2>2, <2>3 DEF BlocksGood
<1> QED
  BY <1>2, <1>3, <1>4 DEF Arrive

\* A datagram is lost.
LEMMA LoseStep ==
  ASSUME BlocksGood, NEW c \in Client, NEW d, Lose(c, d)
  PROVE  BlocksGood'
<1>1. up' = Takes(up, c, d, "lost") /\ down' = Takes(down, c, d, "lost")
  BY DEF Lose
<1>2. up' \in [Client -> SUBSET Dgram] /\ down' \in [Client -> SUBSET Dgram]
  BY <1>1, TakesDgram DEF BlocksGood
<1>3. left' = [left EXCEPT !.fault = left.fault - 1]
  BY DEF Lose
<1>4. "app" \in DOMAIN left' /\ left'.app = left.app
  BY <1>3, SameApp DEF BlocksGood
<1> QED
  BY <1>2, <1>4 DEF BlocksGood, Lose

\* Every behaviour starts with good blocks and an empty network.
LEMMA InitGood == Init => BlocksGood
<1> SUFFICES ASSUME Init PROVE BlocksGood
  OBVIOUS
<1>1. opt.resend \in Nat
  <2>1. opt \in {[resend |-> 0, nc |-> FALSE], [resend |-> 1, nc |-> TRUE]}
    BY DEF Init
  <2> QED
    BY <2>1
<1>2. left \in [app : {"chat", "demo"}, base : 0 .. SnMod - 1, lines : SUBSET Line,
                alive : Nat, timeout : Nat, fault : Nat, expiry : Nat]
  BY BudgetAssumption DEF Init
<1>3. left.base \in Sn /\ "app" \in DOMAIN left
  BY <1>2 DEF Sn
<1>4. ikcp_create(left.base) \in Good
  BY <1>3, Creates
<1>5. kcp \in [Client -> Good]
  BY <1>4 DEF Init
<1>6. /\ DOMAIN session \subseteq Client /\ session \in [DOMAIN session -> Good]
      /\ left.app = "demo" => DOMAIN session = Client
  <2>1. CASE left.app = "chat" /\ left.base = 0
    <3>1. session = <<>>
      BY <2>1 DEF Init
    <3>2. DOMAIN session = {}
      BY <3>1
    <3>3. session = [x \in {} |-> {}]
      BY <3>1
    <3> QED
      BY <2>1, <3>2, <3>3
  <2>2. CASE ~(left.app = "chat" /\ left.base = 0)
    <3>1. session = [c \in Client |-> ikcp_create(left.base)]
      BY <2>2 DEF Init
    <3> QED
      BY <1>4, <3>1
  <2> QED
    BY <2>1, <2>2
<1>7. up \in [Client -> SUBSET Dgram] /\ down \in [Client -> SUBSET Dgram]
  BY DEF Init
<1> QED
  BY <1>1, <1>3, <1>5, <1>6, <1>7 DEF BlocksGood

\* Every step keeps the blocks good.
LEMMA NextGood == BlocksGood /\ [Next]_vars => BlocksGood'
<1> SUFFICES ASSUME BlocksGood, [Next]_vars PROVE BlocksGood'
  OBVIOUS
<1>1. CASE UNCHANGED vars
  BY <1>1 DEF vars, BlocksGood
<1>2. ASSUME NEW c \in Client, ClientThreads(c) PROVE BlocksGood'
  BY <1>2, SendStep, ClientUpdateStep DEF ClientThreads
<1>3. ASSUME NEW c \in Client, UpdateThread(c) PROVE BlocksGood'
  BY <1>3, ServerUpdateStep, TimeoutStep DEF UpdateThread
<1>4. ASSUME NEW c \in Client, Network(c) PROVE BlocksGood'
  BY <1>4, ArriveStep, LoseStep DEF Network
<1> QED
  BY <1>1, <1>2, <1>3, <1>4 DEF Next

-----------------------------------------------------------------------------
(* The windows.                                                             *)

\* The signed difference of two segments of a window.
LEMMA DiffOfOffs ==
  ASSUME NEW a \in Sn, NEW b \in Sn, NEW c \in Sn,
         Off(a, c) < Off(b, c), Off(b, c) <= IKCP_WND_SND
  PROVE  itimediff(a, b) < 0
<1>1. SnMod \in Nat /\ IKCP_WND_SND \in Nat /\ SnMod > 2 * IKCP_WND_SND
  BY WindowAssumption
<1>2. /\ a \in Int /\ b \in Int /\ c \in Int /\ 0 <= a /\ a < SnMod /\ 0 <= b /\ b < SnMod /\ 0 <= c /\ c < SnMod
  BY <1>1 DEF Sn
<1>3. /\ Off(a, b) = IF b <= a THEN a - b ELSE a - b + SnMod
      /\ Off(a, c) = IF c <= a THEN a - c ELSE a - c + SnMod
      /\ Off(b, c) = IF c <= b THEN b - c ELSE b - c + SnMod
  BY OffCases
<1>4. Off(a, b) = SnMod - (Off(b, c) - Off(a, c))
  BY <1>1, <1>2, <1>3
<1>5. Off(a, b) \in Nat /\ Off(a, c) \in Nat /\ Off(b, c) \in Nat /\ Off(a, b) < SnMod
  BY OffNat
<1>6. ~(2 * Off(a, b) < SnMod)
  BY <1>1, <1>4, <1>5
<1>7. itimediff(a, b) = Off(a, b) - SnMod
  BY <1>6, DiffCases
<1> QED
  BY <1>1, <1>5, <1>7

\* A number of a window lies ahead of its start.
LEMMA DiffOfOff ==
  ASSUME NEW a \in Sn, NEW b \in Sn, NEW w \in Nat, Off(a, b) < w, 2 * w < SnMod
  PROVE  itimediff(a, b) \in 0 .. w - 1
<1>1. SnMod \in Nat /\ Off(a, b) \in Nat
  BY OffNat, WindowAssumption
<1>2. 2 * Off(a, b) < SnMod
  BY <1>1
<1>3. itimediff(a, b) = Off(a, b)
  BY <1>2, DiffCases
<1> QED
  BY <1>1, <1>3

\* As many segments as numbers.
LEMMA OnceEach ==
  ASSUME NEW b, IsFiniteSet(b), \A x, y \in b : x.sn = y.sn => x = y
  PROVE  Cardinality({x.sn : x \in b}) = Cardinality(b)
<1>1. PICK f : f = [x \in b |-> x.sn]
  OBVIOUS
<1>2. PICK S : S = {x.sn : x \in b}
  OBVIOUS
<1>3. f \in Bijection(b, S)
  BY <1>1, <1>2 DEF Bijection, Injection, Surjection, IsInjective
<1>4. ExistsBijection(b, S)
  BY <1>3 DEF ExistsBijection
<1> QED
  BY <1>2, <1>4, FS_Bijection

\* A good block respects its windows.
LEMMA GoodRespects ==
  ASSUME NEW k \in Good
  PROVE  /\ \A i, j \in DOMAIN k.snd_buf : i < j => itimediff(k.snd_buf[i].sn, k.snd_buf[j].sn) < 0
         /\ \A i \in DOMAIN k.snd_buf :
              /\ itimediff(k.snd_buf[i].sn, k.snd_una) \in 0 .. IKCP_WND_SND - 1
              /\ itimediff(k.snd_buf[i].sn, k.snd_nxt) < 0
         /\ \A x \in k.rcv_buf : itimediff(x.sn, k.rcv_nxt) \in 0 .. IKCP_WND_RCV - 1
         /\ Cardinality({x.sn : x \in k.rcv_buf}) = Cardinality(k.rcv_buf)
         /\ Len(k.rcv_queue) <= IKCP_WND_RCV
<1>1. k \in Block /\ SndOK(k) /\ RcvOK(k)
  BY DEF Good, Open
<1>2. /\ k.snd_una \in Sn /\ k.snd_nxt \in Sn /\ k.snd_buf \in Seq(Flying) /\ k.rcv_nxt \in Sn
      /\ k.rcv_buf \in SUBSET Segment
  BY <1>1, Fields
<1>3. /\ IKCP_WND_SND \in Nat /\ IKCP_WND_RCV \in Nat /\ SnMod \in Nat
      /\ 2 * IKCP_WND_SND < SnMod /\ 2 * IKCP_WND_RCV < SnMod
  BY WindowAssumption
<1>4. PICK una, nxt, b : una = k.snd_una /\ nxt = k.snd_nxt /\ b = k.snd_buf
  OBVIOUS
<1>5. InOrder(una, nxt, b) /\ una \in Sn /\ nxt \in Sn /\ b \in Seq(Flying) /\ DOMAIN b = 1 .. Len(b)
  BY <1>1, <1>2, <1>4 DEF SndOK
<1>6. Off(nxt, una) \in Nat /\ Off(nxt, una) <= IKCP_WND_SND
  BY <1>5, OffNat DEF InOrder
<1>7. ASSUME NEW i \in DOMAIN b
      PROVE  b[i].sn \in Sn /\ Off(b[i].sn, una) \in Nat /\ Off(b[i].sn, una) < Off(nxt, una)
  <2>1. i \in 1 .. Len(b) /\ b[i] \in Flying
    BY <1>5
  <2>2. b[i].sn \in Sn
    BY <2>1 DEF Flying
  <2> QED
    BY <1>5, <2>1, <2>2, OffNat DEF InOrder
<1>8. ASSUME NEW i \in DOMAIN b, NEW j \in DOMAIN b, i < j PROVE itimediff(b[i].sn, b[j].sn) < 0
  <2>1. Off(b[i].sn, una) < Off(b[j].sn, una)
    BY <1>5, <1>8 DEF InOrder
  <2>2. b[i].sn \in Sn /\ b[j].sn \in Sn
    BY <1>7
  <2>3. Off(b[j].sn, una) <= IKCP_WND_SND
    BY <1>3, <1>6, <1>7
  <2> QED
    BY <1>5, <2>1, <2>2, <2>3, DiffOfOffs
<1>9. ASSUME NEW i \in DOMAIN b
      PROVE  itimediff(b[i].sn, una) \in 0 .. IKCP_WND_SND - 1 /\ itimediff(b[i].sn, nxt) < 0
  <2>1. Off(b[i].sn, una) < IKCP_WND_SND
    BY <1>3, <1>6, <1>7
  <2>2. itimediff(b[i].sn, una) \in 0 .. IKCP_WND_SND - 1
    BY <1>3, <1>5, <1>7, <2>1, DiffOfOff
  <2>3. itimediff(b[i].sn, nxt) < 0
    BY <1>5, <1>6, <1>7, DiffOfOffs
  <2> QED
    BY <2>2, <2>3
<1>10. Inside(k.rcv_nxt, k.rcv_buf) /\ Len(k.rcv_queue) <= IKCP_WND_RCV
  BY <1>1 DEF RcvOK
<1>11. ASSUME NEW x \in k.rcv_buf PROVE itimediff(x.sn, k.rcv_nxt) \in 0 .. IKCP_WND_RCV - 1
  <2>1. x \in Segment
    BY <1>2
  <2>2. x.sn \in Sn
    BY <2>1 DEF Segment
  <2>3. Off(x.sn, k.rcv_nxt) < IKCP_WND_RCV
    BY <1>10 DEF Inside
  <2> QED
    BY <1>2, <1>3, <2>2, <2>3, DiffOfOff
<1>12. Cardinality({x.sn : x \in k.rcv_buf}) = Cardinality(k.rcv_buf)
  BY <1>10, OnceEach DEF Inside
<1> QED
  BY <1>4, <1>8, <1>9, <1>10, <1>11, <1>12

\* The control blocks of both ends stay good in every behaviour: what a session
\* took from the network, the user or its timers leaves snd_buf in order
\* between snd_una and snd_nxt, snd_una at the oldest unacknowledged segment and
\* rcv_buf within the window at rcv_nxt (ikcp_input, ikcp_flush, ikcp_send,
\* ikcp_recv).
THEOREM BlocksStayGood == Spec => []BlocksGood
  BY InitGood, NextGood, PTL DEF Spec

\* No window is overrun, at either end, in any behaviour (ikcp_flush against a
\* stale rmt_wnd, ikcp_parse_data against segments behind or ahead).
THEOREM WindowsHold == Spec => []WindowsRespected
<1>1. BlocksGood => WindowsRespected
  <2> SUFFICES ASSUME BlocksGood,
                      NEW k \in {kcp[c] : c \in Client} \union {session[c] : c \in DOMAIN session}
               PROVE  k \in Good
    BY GoodRespects DEF WindowsRespected
  <2> QED
    BY DEF BlocksGood
<1> QED
  BY <1>1, BlocksStayGood, PTL
=============================================================================

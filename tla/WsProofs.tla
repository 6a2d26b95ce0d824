------------------------------ MODULE WsProofs ------------------------------
(***************************************************************************)
(* Proofs about WsSession: the results of a subscription reach the client   *)
(* in order, each once, and a session that was stopped sends none.          *)
(*                                                                          *)
(* What is on the wire for a session are the numbers after the last one     *)
(* that the client has read, up to the last one that was written, without   *)
(* a gap (Numbered).  A session is opened once, as the client asks once for *)
(* each id; for the first that rests on the one acknowledgement (Greeting). *)
(***************************************************************************)
EXTENDS WsSession, SequenceTheorems, TLAPS

Out == [type : {"connection_ack", "next", "error"}, id : Ids \cup {None}, no : Nat]
In  == [type : {"connection_init", "subscribe", "stop", "unknown"}, id : Ids \cup {None},
        no : Nat]

Types ==
  /\ hpc \in {"read", "ack", "error", "writeAck", "writeError", "stop", "close", "done", "ended"}
  /\ req \in Ids \cup {None}
  /\ spc \in [Ids -> {"none", "select", "next", "error", "writeNext", "writeError", "ended"}]
  /\ results \in [Ids -> Nat] /\ produced \in [Ids -> Nat] /\ seen \in [Ids -> Nat]
  /\ wire \in Seq(Out) /\ inbound \in Seq(In)
  /\ broken \in BOOLEAN
  /\ cpc \in {"connecting", "open", "closed"}

(* The numbers of the results. *)

IsResult(m, i) == m.type = "next" /\ m.id = i

\* In w are the results of i after s, up to t unless some were lost.
Numbered(w, i, s, t, lost) ==
  /\ s =< t
  /\ \A k \in 1..Len(w) : IsResult(w[k], i) => s < w[k].no /\ w[k].no =< t
  /\ \A k, l \in 1..Len(w) :
       IsResult(w[k], i) /\ IsResult(w[l], i) /\ k < l => w[k].no < w[l].no
  /\ \A k \in 1..Len(w), x \in Nat :
       IsResult(w[k], i) /\ s < x /\ x =< w[k].no =>
         \E l \in 1..Len(w) : IsResult(w[l], i) /\ w[l].no = x
  /\ ~lost => \A x \in Nat :
       s < x /\ x =< t => \E l \in 1..Len(w) : IsResult(w[l], i) /\ w[l].no = x

\* The number of results that the session has written, or tried to.
Taken(i) == IF spc[i] \in {"next", "writeNext"} THEN 1 ELSE 0
Sent(i)  == produced[i] - results[i] - Taken(i)

Results ==
  \A i \in Ids : Sent(i) \in Nat /\ Numbered(wire, i, seen[i], Sent(i), broken)

(* The opening of sessions. *)

\* Until the client has the acknowledgement it says and gets nothing else.
Greeting ==
  IF Body \notin asked
  THEN /\ asked = {} /\ \A i \in Ids : spc[i] = "none"
       /\ \A k \in 1..Len(inbound) : inbound[k].type = "connection_init"
       /\ \A k \in 1..Len(wire) : wire[k].type = "connection_ack"
       /\ Len(inbound) =< 1 /\ Len(wire) =< 1
       /\ hpc \in {"read", "ack", "writeAck", "close", "done"}
       /\ cpc = "connecting" => ~broken /\ Len(inbound) = 0 /\ Len(wire) = 0 /\ hpc = "read"
       /\ Len(inbound) = 1 => Len(wire) = 0 /\ hpc = "read"
       /\ hpc \in {"ack", "writeAck"} => Len(wire) = 0
  ELSE /\ \A k \in 1..Len(inbound) : inbound[k].type # "connection_init"
       /\ \A k \in 1..Len(wire) : wire[k].type # "connection_ack"
       /\ hpc \notin {"ack", "writeAck"}
       /\ cpc # "connecting"

Asks(m, i) == m.type = "subscribe" /\ m.id = i

Opened ==
  \A i \in Ids :
    /\ \A k \in 1..Len(inbound) : Asks(inbound[k], i) => i \in asked /\ spc[i] = "none"
    /\ \A k, l \in 1..Len(inbound) : Asks(inbound[k], i) /\ Asks(inbound[l], i) => k = l
    /\ i \notin asked => spc[i] = "none"
    /\ i \notin sessions => spc[i] \in {"none", "ended"}

IInv == Types /\ Results /\ Greeting /\ Opened

-----------------------------------------------------------------------------
(* Sequences. *)

LEMMA Appended ==
  ASSUME NEW S, NEW s \in Seq(S), NEW m \in S
  PROVE  /\ Append(s, m) \in Seq(S) /\ Len(Append(s, m)) = Len(s) + 1 /\ Len(s) \in Nat
         /\ Append(s, m)[Len(s) + 1] = m
         /\ \A k \in 1..Len(s) : k \in 1..Len(Append(s, m)) /\ Append(s, m)[k] = s[k]
         /\ \A k \in 1..Len(Append(s, m)) : k \in 1..Len(s) \/ k = Len(s) + 1
<1>1. Len(s) \in Nat
  OBVIOUS
<1>2. Len(Append(s, m)) = Len(s) + 1
  BY AppendProperties
<1> QED  BY <1>1, <1>2, AppendProperties

LEMMA Rest ==
  ASSUME NEW S, NEW s \in Seq(S), s # <<>>
  PROVE  /\ Tail(s) \in Seq(S) /\ Len(s) \in Nat /\ Len(Tail(s)) \in Nat
         /\ Len(s) = Len(Tail(s)) + 1
         /\ Head(s) = s[1] /\ Head(s) \in S /\ 1 \in 1..Len(s)
         /\ \A k \in 1..Len(Tail(s)) : Tail(s)[k] = s[k + 1] /\ k + 1 \in 1..Len(s)
         /\ \A k \in 1..Len(s) : k = 1 \/ k - 1 \in 1..Len(Tail(s))
<1>1. Len(s) \in Nat /\ Len(s) # 0
  OBVIOUS
<1>2. Tail(s) \in Seq(S) /\ Len(Tail(s)) = Len(s) - 1 /\ Head(s) = s[1] /\ Head(s) \in S
  BY HeadTailProperties
<1>3. \A k \in 1..Len(Tail(s)) : Tail(s)[k] = s[k + 1]
  BY HeadTailProperties
<1> QED  BY <1>1, <1>2, <1>3

LEMMA MessageNo ==
  ASSUME NEW w \in Seq(Out)
  PROVE  /\ \A k \in 1..Len(w) : w[k].no \in Nat
         /\ w # <<>> => Head(w).no \in Nat /\ Head(w) = w[1] /\ 1 \in 1..Len(w)
<1> DEFINE O == Out
<1>1. w \in Seq(O) /\ \A m \in O : m.no \in Nat
  BY DEF Out
<1> HIDE DEF O
<1>2. \A k \in 1..Len(w) : w[k] \in O
  BY <1>1, ElementOfSeq
<1>3. w # <<>> => Head(w) = w[1] /\ 1 \in 1..Len(w)
  BY <1>1, Rest
<1> QED  BY <1>1, <1>2, <1>3

\* A result that is written is the next one.
LEMMA WrittenResult ==
  ASSUME NEW w \in Seq(Out), NEW i \in Ids, NEW s \in Nat, NEW t \in Nat,
         NEW lost \in BOOLEAN, ~lost, Numbered(w, i, s, t, lost),
         NEW m \in Out, IsResult(m, i), m.no = t + 1
  PROVE  Numbered(Append(w, m), i, s, t + 1, lost)
<1> PICK v : v = Append(w, m)
  OBVIOUS
<1>1. /\ Len(v) = Len(w) + 1 /\ Len(w) \in Nat /\ v[Len(w) + 1] = m
      /\ \A k \in 1..Len(w) : k \in 1..Len(v) /\ v[k] = w[k]
      /\ \A k \in 1..Len(v) : k \in 1..Len(w) \/ k = Len(w) + 1
      /\ Len(w) + 1 \in 1..Len(v)
  BY Appended
<1>0. \A k \in 1..Len(w) : w[k].no \in Nat
  BY MessageNo
<1>a. s =< t /\ \A k \in 1..Len(w) : IsResult(w[k], i) => s < w[k].no /\ w[k].no =< t
  BY DEF Numbered
<1>2. \A k \in 1..Len(v) : IsResult(v[k], i) => s < v[k].no /\ v[k].no =< t + 1
  <2> SUFFICES ASSUME NEW k \in 1..Len(v), IsResult(v[k], i)
               PROVE  s < v[k].no /\ v[k].no =< t + 1
    OBVIOUS
  <2>1. CASE k \in 1..Len(w)
    BY <1>0, <1>1, <1>a, <2>1
  <2>2. CASE k = Len(w) + 1
    BY <1>1, <1>a, <2>2
  <2> QED  BY <1>1, <2>1, <2>2
<1>3. \A k, l \in 1..Len(v) :
        IsResult(v[k], i) /\ IsResult(v[l], i) /\ k < l => v[k].no < v[l].no
  <2> SUFFICES ASSUME NEW k \in 1..Len(v), NEW l \in 1..Len(v),
                      IsResult(v[k], i), IsResult(v[l], i), k < l
               PROVE  v[k].no < v[l].no
    OBVIOUS
  <2>1. k \in 1..Len(w) /\ v[k] = w[k] /\ w[k].no \in Nat
    BY <1>0, <1>1
  <2>2. CASE l \in 1..Len(w)
    BY <1>1, <2>1, <2>2 DEF Numbered
  <2>3. CASE l = Len(w) + 1
    BY <1>1, <2>1, <2>3 DEF Numbered
  <2> QED  BY <1>1, <2>2, <2>3
<1>4. \A x \in Nat : s < x /\ x =< t + 1 => \E l \in 1..Len(v) : IsResult(v[l], i) /\ v[l].no = x
  <2> SUFFICES ASSUME NEW x \in Nat, s < x, x =< t + 1
               PROVE  \E l \in 1..Len(v) : IsResult(v[l], i) /\ v[l].no = x
    OBVIOUS
  <2>1. CASE x = t + 1
    BY <1>1, <2>1
  <2>2. CASE x =< t
    <3>1. PICK l \in 1..Len(w) : IsResult(w[l], i) /\ w[l].no = x
      BY <2>2 DEF Numbered
    <3> QED  BY <1>1, <3>1
  <2> QED  BY <2>1, <2>2
<1>5. \A k \in 1..Len(v), x \in Nat :
        IsResult(v[k], i) /\ s < x /\ x =< v[k].no =>
          \E l \in 1..Len(v) : IsResult(v[l], i) /\ v[l].no = x
  <2> SUFFICES ASSUME NEW k \in 1..Len(v), NEW x \in Nat, IsResult(v[k], i), s < x, x =< v[k].no
               PROVE  \E l \in 1..Len(v) : IsResult(v[l], i) /\ v[l].no = x
    OBVIOUS
  <2>1. v[k].no =< t + 1 /\ v[k].no \in Nat
    BY <1>0, <1>1, <1>2
  <2>2. x =< t + 1
    BY <2>1
  <2> QED  BY <2>2, <1>4
<1>6. \A u : u = t + 1 => Numbered(v, i, s, u, lost)
  <2>0. SUFFICES ASSUME NEW u, u = t + 1 PROVE Numbered(v, i, s, u, lost)
    OBVIOUS
  <2>1. \A k \in 1..Len(v) : IsResult(v[k], i) => s < v[k].no /\ v[k].no =< u
    BY <1>2, <2>0
  <2>2. ~lost => \A x \in Nat :
          s < x /\ x =< u => \E l \in 1..Len(v) : IsResult(v[l], i) /\ v[l].no = x
    BY <1>4, <2>0
  <2>3. s =< u
    BY <2>0 DEF Numbered
  <2> QED  BY <2>1, <1>3, <2>2, <2>3, <1>5 DEF Numbered
<1> QED  BY <1>6

\* Another message changes nothing.
LEMMA WrittenOther ==
  ASSUME NEW w \in Seq(Out), NEW i \in Ids, NEW s \in Nat, NEW t \in Nat, NEW lost \in BOOLEAN,
         Numbered(w, i, s, t, lost), NEW m \in Out, ~IsResult(m, i)
  PROVE  Numbered(Append(w, m), i, s, t, lost)
<1> PICK v : v = Append(w, m)
  OBVIOUS
<1>1. /\ \A k \in 1..Len(w) : k \in 1..Len(v) /\ v[k] = w[k]
      /\ \A k \in 1..Len(v) : IsResult(v[k], i) => k \in 1..Len(w) /\ v[k] = w[k]
  <2>1. /\ Len(v) = Len(w) + 1 /\ Len(w) \in Nat /\ v[Len(w) + 1] = m
        /\ \A k \in 1..Len(w) : k \in 1..Len(v) /\ v[k] = w[k]
        /\ \A k \in 1..Len(v) : k \in 1..Len(w) \/ k = Len(w) + 1
    BY Appended
  <2> QED  BY <2>1
<1>2. \A x : (\E l \in 1..Len(w) : IsResult(w[l], i) /\ w[l].no = x) =>
             (\E l \in 1..Len(v) : IsResult(v[l], i) /\ v[l].no = x)
  BY <1>1
<1> QED  BY <1>1, <1>2 DEF Numbered

\* What the client reads of a session is the result after the last one.
LEMMA ReadResult ==
  ASSUME NEW w \in Seq(Out), w # <<>>, NEW i \in Ids, NEW s \in Nat, NEW t \in Nat,
         NEW lost \in BOOLEAN, Numbered(w, i, s, t, lost), IsResult(Head(w), i)
  PROVE  Head(w).no = s + 1 /\ Numbered(Tail(w), i, Head(w).no, t, lost)
<1> PICK v : v = Tail(w)
  OBVIOUS
<1> PICK n : n = Head(w).no
  OBVIOUS
<1>1. /\ Len(w) \in Nat /\ Len(v) \in Nat /\ Len(w) = Len(v) + 1
      /\ n \in Nat /\ n = w[1].no /\ IsResult(w[1], i) /\ 1 \in 1..Len(w)
      /\ \A k \in 1..Len(v) : v[k] = w[k + 1] /\ k + 1 \in 1..Len(w)
      /\ \A k \in 1..Len(w) : k = 1 \/ k - 1 \in 1..Len(v)
  BY Rest, MessageNo
<1>2. \A k \in 1..Len(w) : w[k].no \in Nat
  BY MessageNo
<1>3. \A k \in 1..Len(w) : IsResult(w[k], i) /\ k # 1 => n < w[k].no
  <2>1. \A k \in 1..Len(w) : k # 1 => 1 < k
    BY <1>1
  <2> QED  BY <1>1, <2>1 DEF Numbered
<1>4. s < n /\ n =< t
  BY <1>1 DEF Numbered
<1>5. n = s + 1
  <2> SUFFICES ASSUME s + 1 < n PROVE FALSE
    BY <1>1, <1>4
  <2>0. s + 1 \in Nat /\ s < s + 1 /\ s + 1 =< w[1].no
    BY <1>1
  <2>1. PICK l \in 1..Len(w) : IsResult(w[l], i) /\ w[l].no = s + 1
    BY <1>1, <2>0 DEF Numbered
  <2>2. l # 1 => n < s + 1
    BY <2>1, <1>3
  <2> QED  BY <2>1, <2>2, <1>1
<1>6. \A x \in Nat : n < x /\ (\E l \in 1..Len(w) : IsResult(w[l], i) /\ w[l].no = x) =>
        \E l \in 1..Len(v) : IsResult(v[l], i) /\ v[l].no = x
  <2> SUFFICES ASSUME NEW x \in Nat, n < x, NEW l \in 1..Len(w), IsResult(w[l], i), w[l].no = x
               PROVE  \E j \in 1..Len(v) : IsResult(v[j], i) /\ v[j].no = x
    OBVIOUS
  <2>1. l # 1
    BY <1>1
  <2>2. l - 1 \in 1..Len(v) /\ v[l - 1] = w[l]
    BY <2>1, <1>1
  <2> QED  BY <2>2
<1>7. \A k \in 1..Len(v) : IsResult(v[k], i) => n < v[k].no /\ v[k].no =< t
  <2> TAKE k \in 1..Len(v)
  <2>1. v[k] = w[k + 1] /\ k + 1 \in 1..Len(w) /\ k + 1 # 1
    BY <1>1
  <2> QED  BY <2>1, <1>3 DEF Numbered
<1>8. \A k, l \in 1..Len(v) :
        IsResult(v[k], i) /\ IsResult(v[l], i) /\ k < l => v[k].no < v[l].no
  <2> TAKE k, l \in 1..Len(v)
  <2>1. /\ v[k] = w[k + 1] /\ k + 1 \in 1..Len(w)
        /\ v[l] = w[l + 1] /\ l + 1 \in 1..Len(w) /\ (k < l => k + 1 < l + 1)
    BY <1>1
  <2> QED  BY <2>1 DEF Numbered
<1>9. \A k \in 1..Len(v), x \in Nat :
        IsResult(v[k], i) /\ n < x /\ x =< v[k].no =>
          \E l \in 1..Len(v) : IsResult(v[l], i) /\ v[l].no = x
  <2> SUFFICES ASSUME NEW k \in 1..Len(v), NEW x \in Nat, IsResult(v[k], i), n < x, x =< v[k].no
               PROVE  \E l \in 1..Len(v) : IsResult(v[l], i) /\ v[l].no = x
    OBVIOUS
  <2>1. v[k] = w[k + 1] /\ k + 1 \in 1..Len(w) /\ s < x
    BY <1>1, <1>4
  <2>2. \E l \in 1..Len(w) : IsResult(w[l], i) /\ w[l].no = x
    BY <2>1 DEF Numbered
  <2> QED  BY <2>2, <1>6
<1>10. ~lost => \A x \in Nat :
         n < x /\ x =< t => \E l \in 1..Len(v) : IsResult(v[l], i) /\ v[l].no = x
  <2> SUFFICES ASSUME ~lost, NEW x \in Nat, n < x, x =< t
               PROVE  \E l \in 1..Len(v) : IsResult(v[l], i) /\ v[l].no = x
    OBVIOUS
  <2>1. s < x
    BY <1>1, <1>4
  <2>2. \E l \in 1..Len(w) : IsResult(w[l], i) /\ w[l].no = x
    BY <2>1 DEF Numbered
  <2> QED  BY <2>2, <1>6
<1> QED  BY <1>4, <1>5, <1>7, <1>8, <1>9, <1>10 DEF Numbered

LEMMA ReadOther ==
  ASSUME NEW w \in Seq(Out), w # <<>>, NEW i \in Ids, NEW s \in Nat, NEW t \in Nat,
         NEW lost \in BOOLEAN, Numbered(w, i, s, t, lost), ~IsResult(Head(w), i)
  PROVE  Numbered(Tail(w), i, s, t, lost)
<1> PICK v : v = Tail(w)
  OBVIOUS
<1>1. /\ Len(w) \in Nat /\ Len(v) \in Nat /\ ~IsResult(w[1], i)
      /\ \A k \in 1..Len(v) : v[k] = w[k + 1] /\ k + 1 \in 1..Len(w)
      /\ \A k \in 1..Len(w) : k = 1 \/ k - 1 \in 1..Len(v)
  BY Rest
<1>2. \A x : (\E l \in 1..Len(w) : IsResult(w[l], i) /\ w[l].no = x) =>
             (\E l \in 1..Len(v) : IsResult(v[l], i) /\ v[l].no = x)
  <2> SUFFICES ASSUME NEW x, NEW l \in 1..Len(w), IsResult(w[l], i), w[l].no = x
               PROVE  \E j \in 1..Len(v) : IsResult(v[j], i) /\ v[j].no = x
    OBVIOUS
  <2>1. l - 1 \in 1..Len(v) /\ v[l - 1] = w[l]
    BY <1>1
  <2> QED  BY <2>1
<1>3. \A k, l \in 1..Len(v) :
        IsResult(v[k], i) /\ IsResult(v[l], i) /\ k < l => v[k].no < v[l].no
  <2> TAKE k, l \in 1..Len(v)
  <2>1. /\ v[k] = w[k + 1] /\ k + 1 \in 1..Len(w)
        /\ v[l] = w[l + 1] /\ l + 1 \in 1..Len(w) /\ (k < l => k + 1 < l + 1)
    BY <1>1
  <2> QED  BY <2>1 DEF Numbered
<1>4. \A k \in 1..Len(v) : IsResult(v[k], i) => s < v[k].no /\ v[k].no =< t
  BY <1>1 DEF Numbered
<1>5. \A k \in 1..Len(v), x \in Nat :
        IsResult(v[k], i) /\ s < x /\ x =< v[k].no =>
          \E l \in 1..Len(v) : IsResult(v[l], i) /\ v[l].no = x
  <2> SUFFICES ASSUME NEW k \in 1..Len(v), NEW x \in Nat, IsResult(v[k], i), s < x, x =< v[k].no
               PROVE  \E l \in 1..Len(v) : IsResult(v[l], i) /\ v[l].no = x
    OBVIOUS
  <2>1. v[k] = w[k + 1] /\ k + 1 \in 1..Len(w)
    BY <1>1
  <2>2. \E l \in 1..Len(w) : IsResult(w[l], i) /\ w[l].no = x
    BY <2>1 DEF Numbered
  <2> QED  BY <2>2, <1>2
<1>6. ~lost => \A x \in Nat :
        s < x /\ x =< t => \E l \in 1..Len(v) : IsResult(v[l], i) /\ v[l].no = x
  BY <1>2 DEF Numbered
<1> QED  BY <1>3, <1>4, <1>5, <1>6, ZenonT(30) DEF Numbered

-----------------------------------------------------------------------------
(* What the writes do. *)

LEMMA Messages ==
  /\ \A i \in Ids, n \in Nat : Msg("next", i, n) \in Out /\ Msg("error", i, 0) \in Out
  /\ req \in Ids \cup {None} =>
       Msg("connection_ack", req, 0) \in Out /\ Msg("error", req, 0) \in Out
  /\ \A i \in Ids, t \in {"subscribe", "stop", "unknown"} : Msg(t, i, 0) \in In
  /\ Msg("connection_init", None, 0) \in In
BY DEF Msg, Out, In

LEMMA Appends ==
  ASSUME Types
  PROVE  /\ \A m \in Out : Append(wire, m) \in Seq(Out)
         /\ \A m \in In : Append(inbound, m) \in Seq(In)
<1>1. \A m \in Out : Append(wire, m) \in Seq(Out)
  BY Appended DEF Types
<1>2. \A m \in In : Append(inbound, m) \in Seq(In)
  BY Appended DEF Types
<1> QED  BY <1>1, <1>2

LEMMA Numbering ==
  ASSUME Types, Results, NEW i \in Ids
  PROVE  /\ Sent(i) \in Nat /\ Number(i) \in Nat /\ Number(i) = Sent(i) + Taken(i)
         /\ Taken(i) \in {0, 1} /\ (spc[i] = "writeNext" => Number(i) = Sent(i) + 1)
<1>1. produced[i] \in Nat /\ results[i] \in Nat
  BY DEF Types
<1>2. Taken(i) \in {0, 1} /\ (spc[i] = "writeNext" => Taken(i) = 1)
  BY DEF Taken
<1>3. Sent(i) \in Nat
  BY DEF Results
<1> QED  BY <1>1, <1>2, <1>3 DEF Sent, Number

LEMMA SessionWritten ==
  ASSUME NEW i \in Ids, SessionWrites(i)
  PROVE  \/ /\ ~broken /\ wire' = Append(wire, Msg("next", i, Number(i)))
            /\ Goes(i, "writeNext", "select")
         \/ broken /\ wire' = wire /\ Goes(i, "writeNext", "error")
         \/ /\ ~broken /\ wire' = Append(wire, Msg("error", i, 0))
            /\ Goes(i, "writeError", "select")
         \/ broken /\ wire' = wire /\ Goes(i, "writeError", "select")
<1>1. CASE \E ok \in BOOLEAN : /\ Write(Msg("next", i, Number(i)), ok)
                              /\ Goes(i, "writeNext", IF ok THEN "select" ELSE "error")
  <2> PICK ok \in BOOLEAN : /\ Write(Msg("next", i, Number(i)), ok)
                            /\ Goes(i, "writeNext", IF ok THEN "select" ELSE "error")
    BY <1>1
  <2>1. CASE ok = TRUE
    BY <2>1 DEF Write
  <2>2. CASE ok = FALSE
    BY <2>2 DEF Write
  <2> QED  BY <2>1, <2>2
<1>2. CASE \E ok \in BOOLEAN : Write(Msg("error", i, 0), ok) /\ Goes(i, "writeError", "select")
  BY <1>2 DEF Write
<1> QED  BY <1>1, <1>2 DEF SessionWrites

LEMMA HandlerWritten ==
  ASSUME HandlerWrites
  PROVE  \/ /\ hpc = "writeAck" /\ hpc' = "read" /\ ~broken
            /\ wire' = Append(wire, Msg("connection_ack", req, 0))
         \/ hpc = "writeAck" /\ hpc' = "close" /\ wire' = wire
         \/ /\ hpc = "writeError" /\ hpc' = "close" /\ ~broken
            /\ wire' = Append(wire, Msg("error", req, 0))
         \/ hpc = "writeError" /\ hpc' = "close" /\ wire' = wire
<1> PICK ok \in BOOLEAN :
      /\ Write(Msg(IF hpc = "writeAck" THEN "connection_ack" ELSE "error", req, 0), ok)
      /\ hpc' = IF hpc = "writeAck" /\ ok THEN "read" ELSE "close"
  BY DEF HandlerWrites
<1>1. hpc \in {"writeAck", "writeError"}
  BY DEF HandlerWrites
<1>2. CASE ok = TRUE
  BY <1>1, <1>2 DEF Write
<1>3. CASE ok = FALSE
  BY <1>1, <1>3 DEF Write
<1> QED  BY <1>2, <1>3

-----------------------------------------------------------------------------
(* Types. *)

LEMMA TypesStep == Types /\ Results /\ [Next]_vars => Types'
<1> SUFFICES ASSUME Types, Results, [Next]_vars PROVE Types'
  OBVIOUS
<1> USE DEF Types
<1>0. CASE UNCHANGED vars
  BY <1>0 DEF vars, server, client
<1>1. CASE OnOpen
  <2>1. inbound' \in Seq(In)
    BY <1>1, Messages, Appended DEF OnOpen, Send
  <2> QED  BY <1>1, <2>1 DEF OnOpen, server
<1>2. CASE OnMessage
  <2>0. wire # <<>> /\ wire' = Tail(wire)
    BY <1>2 DEF OnMessage
  <2>1. wire' \in Seq(Out) /\ Head(wire).no \in Nat
    BY <2>0, Rest, MessageNo
  <2>2. inbound' \in Seq(In)
    BY <1>2, Messages, Appends, BodyIsAnId DEF OnMessage, Send
  <2>3. seen' \in [Ids -> Nat]
    BY <1>2, <2>1 DEF OnMessage
  <2>4. broken' \in BOOLEAN /\ cpc' \in {"connecting", "open", "closed"}
    BY <1>2 DEF OnMessage
  <2> QED  BY <1>2, <2>1, <2>2, <2>3, <2>4 DEF OnMessage, server
<1>3. CASE Lose
  BY <1>3 DEF Lose, server
<1>4. ASSUME NEW i \in Ids, SubscribeAgain(i) PROVE Types'
  <2>1. inbound' \in Seq(In)
    BY <1>4, Messages, Appended DEF SubscribeAgain, Send
  <2> QED  BY <1>4, <2>1 DEF SubscribeAgain, server
<1>5. ASSUME NEW i \in Ids, NEW t \in {"stop", "unknown"}, StopOrUnknown(t, i) PROVE Types'
  <2>1. inbound' \in Seq(In)
    BY <1>5, Messages, Appended DEF StopOrUnknown, Send
  <2> QED  BY <1>5, <2>1 DEF StopOrUnknown, server, client
<1>6. CASE Read
  <2>1. inbound' \in Seq(In) /\ Head(inbound) \in In
    BY <1>6, Rest DEF Read
  <2>2. req' \in Ids \cup {None}
    BY <1>6, <2>1 DEF Read, In
  <2>3. hpc' \in {"read", "ack", "error", "stop", "close"}
    BY <1>6 DEF Read
  <2>4. spc' \in [Ids -> {"none", "select", "next", "error", "writeNext", "writeError", "ended"}]
    BY <1>6 DEF Read
  <2> QED  BY <1>6, <2>1, <2>2, <2>3, <2>4 DEF Read, client
<1>7. CASE ReadFails
  BY <1>7 DEF ReadFails, client
<1>8. CASE HandlerLocks
  BY <1>8 DEF HandlerLocks, client
<1>9. CASE HandlerWrites
  <2>1. wire' \in Seq(Out) /\ hpc' \in {"read", "close"}
    BY <1>9, HandlerWritten, Messages, Appends
  <2> QED  BY <1>9, <2>1 DEF HandlerWrites, client
<1>10. CASE Stop
  BY <1>10 DEF Stop, client
<1>11. CASE Close
  BY <1>11 DEF Close, client
<1>12. ASSUME NEW i \in Ids, Done(i) PROVE Types'
  BY <1>12 DEF Done, client
<1>13. ASSUME NEW i \in Ids, Produce(i) PROVE Types'
  BY <1>13 DEF Produce, client
<1>14. ASSUME NEW i \in Ids, TakeResult(i) PROVE Types'
  <2>1. results[i] \in Nat /\ results[i] - 1 \in Nat
    BY <1>14 DEF TakeResult
  <2> QED  BY <1>14, <2>1 DEF TakeResult, client, Goes
<1>15. ASSUME NEW i \in Ids, Lock(i) PROVE Types'
  BY <1>15 DEF Lock, client, Goes
<1>16. ASSUME NEW i \in Ids, SessionWrites(i) PROVE Types'
  <2>1. Msg("next", i, Number(i)) \in Out /\ Msg("error", i, 0) \in Out
    BY Messages, Numbering
  <2>3. wire' \in Seq(Out)
    BY <1>16, <2>1, SessionWritten, Appends
  <2>2. spc' \in [Ids -> {"none", "select", "next", "error", "writeNext", "writeError", "ended"}]
    BY <1>16, SessionWritten DEF Goes
  <2> QED  BY <1>16, <2>2, <2>3 DEF SessionWrites, client
<1> QED
  BY <1>0, <1>1, <1>2, <1>3, <1>4, <1>5, <1>6, <1>7, <1>8, <1>9, <1>10, <1>11, <1>12, <1>13,
     <1>14, <1>15, <1>16 DEF Next, Server, Session

-----------------------------------------------------------------------------
(* The numbers of the results. *)

LEMMA Weaker ==
  ASSUME NEW w \in Seq(Out), NEW i, NEW s \in Nat, NEW t \in Nat, NEW u \in Nat,
         NEW lost \in BOOLEAN, NEW more \in BOOLEAN,
         Numbered(w, i, s, t, lost), t =< u, ~more => ~lost /\ u = t
  PROVE  Numbered(w, i, s, u, more)
<1>1. \A k \in 1..Len(w) : w[k].no \in Nat
  BY MessageNo
<1>2. \A k \in 1..Len(w) : IsResult(w[k], i) => s < w[k].no /\ w[k].no =< u
  BY <1>1 DEF Numbered
<1>3. ~more => \A x \in Nat :
        s < x /\ x =< u => \E l \in 1..Len(w) : IsResult(w[l], i) /\ w[l].no = x
  BY DEF Numbered
<1>4. s =< u
  BY DEF Numbered
<1> QED  BY <1>2, <1>3, <1>4 DEF Numbered

LEMMA ResultsQuiet ==
  ASSUME Types, Results, wire' = wire, seen' = seen, broken' = broken \/ broken' = TRUE,
         \A i \in Ids : Sent(i)' = Sent(i)
  PROVE  Results'
<1> SUFFICES ASSUME NEW i \in Ids
             PROVE  Sent(i)' \in Nat /\ Numbered(wire', i, seen'[i], Sent(i)', broken')
  BY DEF Results
<1>1. Sent(i) \in Nat /\ Numbered(wire, i, seen[i], Sent(i), broken)
  BY DEF Results
<1>2. /\ seen[i] \in Nat /\ wire \in Seq(Out) /\ Sent(i)' = Sent(i)
      /\ broken \in BOOLEAN /\ broken' \in BOOLEAN
  BY DEF Types
<1>3. Numbered(wire, i, seen[i], Sent(i), broken')
  BY <1>1, <1>2, Weaker
<1> QED  BY <1>1, <1>2, <1>3

LEMMA ResultsRead == Types /\ Results /\ OnMessage => Results'
<1> SUFFICES ASSUME Types, Results, OnMessage, NEW i \in Ids
             PROVE  Sent(i)' \in Nat /\ Numbered(wire', i, seen'[i], Sent(i)', broken')
  BY DEF Results
<1> PICK d : d = Head(wire)
  OBVIOUS
<1>1. /\ wire # <<>> /\ wire' = Tail(wire) /\ Sent(i)' = Sent(i)
      /\ (broken' = broken \/ broken' = TRUE)
      /\ seen' = IF d.type = "next" THEN [seen EXCEPT ![d.id] = d.no] ELSE seen
  BY DEF OnMessage, server, Sent, Taken
<1>2. /\ Sent(i) \in Nat /\ Numbered(wire, i, seen[i], Sent(i), broken)
      /\ wire \in Seq(Out) /\ seen[i] \in Nat /\ broken \in BOOLEAN /\ seen \in [Ids -> Nat]
  BY DEF Results, Types
<1>3. Tail(wire) \in Seq(Out) /\ d.no \in Nat
  BY <1>1, <1>2, Rest, MessageNo
<1>4. Numbered(Tail(wire), i, seen'[i], Sent(i), broken) /\ seen'[i] \in Nat
  <2>1. CASE IsResult(d, i)
    <3>1. seen'[i] = d.no
      BY <1>1, <1>2, <2>1 DEF IsResult
    <3>2. Numbered(Tail(wire), i, d.no, Sent(i), broken)
      BY <1>1, <1>2, <2>1, ReadResult
    <3> QED  BY <1>3, <3>1, <3>2
  <2>2. CASE ~IsResult(d, i)
    <3>1. seen'[i] = seen[i]
      BY <1>1, <1>2, <2>2 DEF IsResult
    <3>2. Numbered(Tail(wire), i, seen[i], Sent(i), broken)
      BY <1>1, <1>2, <2>2, ReadOther
    <3> QED  BY <1>2, <3>1, <3>2
  <2> QED  BY <2>1, <2>2
<1>5. Numbered(Tail(wire), i, seen'[i], Sent(i), broken')
  <2>1. CASE broken' = broken
    BY <1>4, <2>1
  <2>2. CASE broken' = TRUE
    <3>1. Numbered(Tail(wire), i, seen'[i], Sent(i), TRUE)
      BY <1>4 DEF Numbered
    <3> QED  BY <2>2, <3>1
  <2> QED  BY <1>1, <2>1, <2>2
<1> QED  BY <1>1, <1>2, <1>5

LEMMA ResultsWritten ==
  ASSUME Types, Results, NEW i \in Ids, SessionWrites(i) PROVE Results'
<1> SUFFICES ASSUME NEW j \in Ids
             PROVE  Sent(j)' \in Nat /\ Numbered(wire', j, seen'[j], Sent(j)', broken')
  BY DEF Results
<1>1. /\ Sent(j) \in Nat /\ Numbered(wire, j, seen[j], Sent(j), broken)
      /\ wire \in Seq(Out) /\ seen[j] \in Nat /\ broken \in BOOLEAN
      /\ produced[j] \in Nat /\ results[j] \in Nat
  BY DEF Results, Types
<1>2. seen' = seen /\ broken' = broken /\ produced' = produced /\ results' = results
  BY DEF SessionWrites, client
<1>3. /\ Msg("next", i, Number(i)) \in Out /\ Msg("error", i, 0) \in Out
      /\ (spc[i] = "writeNext" => Number(i) = Sent(i) + 1)
  BY Messages, Numbering
<1>4. /\ IsResult(Msg("next", i, Number(i)), j) <=> i = j
      /\ ~IsResult(Msg("error", i, 0), j)
      /\ Msg("next", i, Number(i)).no = Number(i)
  BY DEF IsResult, Msg
<1>5. \A p : spc[i] = "writeNext" /\ spc' = [spc EXCEPT ![i] = p] /\ p \in {"select", "error"} =>
        Sent(j)' = IF j = i THEN Sent(j) + 1 ELSE Sent(j)
  <2> SUFFICES ASSUME NEW p, spc[i] = "writeNext", spc' = [spc EXCEPT ![i] = p],
                      p \in {"select", "error"}
               PROVE  Sent(j)' = IF j = i THEN Sent(j) + 1 ELSE Sent(j)
    OBVIOUS
  <2>1. CASE j = i
    <3>1. spc'[j] = p
      BY <2>1 DEF Types
    <3> QED  BY <1>1, <1>2, <2>1, <3>1 DEF Sent, Taken
  <2>2. CASE j # i
    <3>1. spc'[j] = spc[j]
      BY <2>2 DEF Types
    <3> QED  BY <1>2, <2>2, <3>1 DEF Sent, Taken
  <2> QED  BY <2>1, <2>2
<1>6. CASE /\ ~broken /\ wire' = Append(wire, Msg("next", i, Number(i)))
           /\ Goes(i, "writeNext", "select")
  <2>1. Sent(j)' = IF j = i THEN Sent(j) + 1 ELSE Sent(j)
    BY <1>5, <1>6 DEF Goes
  <2>2. CASE j = i
    <3>2. Number(i) = Sent(i) + 1
      BY <1>3, <1>6 DEF Goes
    <3>3. Numbered(Append(wire, Msg("next", i, Number(i))), j, seen[j], Sent(j) + 1, broken)
      BY <1>1, <1>3, <1>4, <1>6, <2>2, <3>2, WrittenResult
    <3> QED  BY <1>1, <1>2, <1>6, <2>1, <2>2, <3>3
  <2>3. CASE j # i
    <3>1. Numbered(Append(wire, Msg("next", i, Number(i))), j, seen[j], Sent(j), broken)
      BY <1>1, <1>3, <1>4, <2>3, WrittenOther
    <3> QED  BY <1>1, <1>2, <1>6, <2>1, <2>3, <3>1
  <2> QED  BY <2>2, <2>3
<1>7. CASE broken /\ wire' = wire /\ Goes(i, "writeNext", "error")
  <2>1. Sent(j)' = IF j = i THEN Sent(j) + 1 ELSE Sent(j)
    BY <1>5, <1>7 DEF Goes
  <2>2. Sent(j)' \in Nat /\ Sent(j) =< Sent(j)'
    BY <1>1, <2>1
  <2>3. Numbered(wire, j, seen[j], Sent(j)', broken)
    BY <1>1, <1>7, <2>2, Weaker
  <2> QED  BY <1>2, <1>7, <2>2, <2>3
<1>8. spc[i] = "writeError" /\ spc' = [spc EXCEPT ![i] = "select"] => Sent(j)' = Sent(j)
  <2> SUFFICES ASSUME spc[i] = "writeError", spc' = [spc EXCEPT ![i] = "select"]
               PROVE  Taken(j)' = Taken(j)
    BY <1>2 DEF Sent
  <2>1. CASE j = i
    <3>1. spc'[j] = "select"
      BY <2>1 DEF Types
    <3> QED  BY <2>1, <3>1 DEF Taken
  <2>2. CASE j # i
    <3>1. spc'[j] = spc[j]
      BY <2>2 DEF Types
    <3> QED  BY <3>1 DEF Taken
  <2> QED  BY <2>1, <2>2
<1>9. CASE /\ ~broken /\ wire' = Append(wire, Msg("error", i, 0))
           /\ Goes(i, "writeError", "select")
  <2>1. Numbered(Append(wire, Msg("error", i, 0)), j, seen[j], Sent(j), broken)
    BY <1>1, <1>3, <1>4, WrittenOther
  <2> QED  BY <1>1, <1>2, <1>8, <1>9, <2>1 DEF Goes
<1>10. CASE broken /\ wire' = wire /\ Goes(i, "writeError", "select")
  BY <1>1, <1>2, <1>8, <1>10 DEF Goes
<1> QED  BY <1>6, <1>7, <1>9, <1>10, SessionWritten

LEMMA ResultsMoved ==
  ASSUME Types, Results, wire' = wire, seen' = seen, broken' = broken \/ broken' = TRUE,
         produced' = produced, results' = results,
         NEW i, NEW p, spc' = [spc EXCEPT ![i] = p],
         spc[i] \in {"next", "writeNext"} <=> p \in {"next", "writeNext"}
  PROVE  Results'
<1>1. \A j \in Ids : Taken(j)' = Taken(j)
  <2> SUFFICES ASSUME NEW j \in Ids PROVE Taken(j)' = Taken(j)
    OBVIOUS
  <2>1. spc'[j] = IF j = i THEN p ELSE spc[j]
    BY DEF Types
  <2> QED  BY <2>1 DEF Taken
<1>2. \A j \in Ids : Sent(j)' = Sent(j)
  BY <1>1 DEF Sent
<1> QED  BY <1>2, ResultsQuiet

LEMMA ResultsStep == Types /\ Results /\ Greeting /\ Opened /\ [Next]_vars => Results'
<1> SUFFICES ASSUME Types, Results, Greeting, Opened, [Next]_vars PROVE Results'
  OBVIOUS
<1>a. produced' = produced /\ results' = results /\ spc' = spc =>
        \A i \in Ids : Sent(i)' = Sent(i)
  BY DEF Sent, Taken
<1>b. wire' = wire /\ seen' = seen /\ broken' = broken /\ produced' = produced /\ results' = results
        /\ spc' = spc => Results'
  BY <1>a, ResultsQuiet
<1>0. CASE UNCHANGED vars
  BY <1>0, <1>b DEF vars, server, client
<1>1. CASE OnOpen
  BY <1>1, <1>b DEF OnOpen, server
<1>2. CASE OnMessage
  BY <1>2, ResultsRead
<1>3. CASE Lose
  BY <1>3, <1>a, ResultsQuiet DEF Lose, server
<1>4. ASSUME NEW i \in Ids, SubscribeAgain(i) PROVE Results'
  BY <1>4, <1>b DEF SubscribeAgain, server
<1>5. ASSUME NEW i \in Ids, NEW t \in {"stop", "unknown"}, StopOrUnknown(t, i) PROVE Results'
  BY <1>5, <1>b DEF StopOrUnknown, server, client
<1>6. CASE Read
  <2>1. /\ wire' = wire /\ seen' = seen /\ broken' = broken
        /\ produced' = produced /\ results' = results
    BY <1>6 DEF Read, client
  <2>2. CASE spc' = spc
    BY <2>1, <2>2, <1>b
  <2>3. CASE /\ Head(inbound).type = "subscribe" /\ Head(inbound).id \in Ids
             /\ spc' = [spc EXCEPT ![Head(inbound).id] = "select"]
    <3>1. inbound # <<>> /\ Head(inbound) = inbound[1] /\ 1 \in 1..Len(inbound)
      BY <1>6, Rest DEF Read, Types
    <3>2. spc[Head(inbound).id] = "none"
      BY <2>3, <3>1 DEF Opened, Asks
    <3> QED  BY <2>1, <2>3, <3>2, ResultsMoved
  <2>4. CASE spc' = [spc EXCEPT ![Head(inbound).id] = "select"] /\ Head(inbound).id \notin Ids
    <3>1. spc' = spc
      BY <2>4 DEF Types
    <3> QED  BY <2>2, <3>1
  <2> QED  BY <1>6, <2>2, <2>3, <2>4 DEF Read
<1>7. CASE ReadFails
  BY <1>7, <1>b DEF ReadFails, client
<1>8. CASE HandlerLocks
  BY <1>8, <1>b DEF HandlerLocks, client
<1>9. CASE HandlerWrites
  <2>1. /\ spc' = spc /\ seen' = seen /\ broken' = broken
        /\ produced' = produced /\ results' = results
    BY <1>9 DEF HandlerWrites, client
  <2>2. CASE wire' = wire
    BY <2>1, <2>2, <1>b
  <2>3. ASSUME NEW m \in Out, m.type # "next", wire' = Append(wire, m) PROVE Results'
    <3> SUFFICES ASSUME NEW j \in Ids
                 PROVE  Sent(j)' \in Nat /\ Numbered(wire', j, seen'[j], Sent(j)', broken')
      BY DEF Results
    <3>1. /\ Sent(j) \in Nat /\ Numbered(wire, j, seen[j], Sent(j), broken)
          /\ wire \in Seq(Out) /\ seen[j] \in Nat /\ broken \in BOOLEAN
      BY DEF Results, Types
    <3>2. ~IsResult(m, j)
      BY <2>3 DEF IsResult
    <3>3. Numbered(Append(wire, m), j, seen[j], Sent(j), broken)
      BY <3>1, <3>2, WrittenOther
    <3>4. Sent(j)' = Sent(j)
      BY <2>1 DEF Sent, Taken
    <3> QED  BY <2>1, <2>3, <3>1, <3>3, <3>4
  <2>4. /\ Msg("connection_ack", req, 0) \in Out /\ Msg("error", req, 0) \in Out
        /\ Msg("connection_ack", req, 0).type # "next" /\ Msg("error", req, 0).type # "next"
    BY Messages DEF Types, Msg
  <2> QED  BY <1>9, <2>2, <2>3, <2>4, HandlerWritten
<1>10. CASE Stop
  BY <1>10, ResultsMoved DEF Stop, client
<1>11. CASE Close
  BY <1>11, <1>b DEF Close, client
<1>12. ASSUME NEW i \in Ids, Done(i) PROVE Results'
  BY <1>12, ResultsMoved DEF Done, client
<1>13. ASSUME NEW i \in Ids, Produce(i) PROVE Results'
  <2>1. /\ produced' = [produced EXCEPT ![i] = @ + 1] /\ results' = [results EXCEPT ![i] = @ + 1]
        /\ spc' = spc /\ wire' = wire /\ seen' = seen /\ broken' = broken
    BY <1>13 DEF Produce, client
  <2>2. \A j \in Ids : produced'[j] - results'[j] = produced[j] - results[j]
    BY <2>1 DEF Types
  <2>3. \A j \in Ids : Sent(j)' = Sent(j)
    BY <2>1, <2>2 DEF Sent, Taken
  <2> QED  BY <2>1, <2>3, ResultsQuiet
<1>14. ASSUME NEW i \in Ids, TakeResult(i) PROVE Results'
  <2>1. /\ results' = [results EXCEPT ![i] = @ - 1] /\ produced' = produced
        /\ spc[i] = "select" /\ spc' = [spc EXCEPT ![i] = "next"]
        /\ wire' = wire /\ seen' = seen /\ broken' = broken
    BY <1>14 DEF TakeResult, client, Goes
  <2>2. \A j \in Ids : /\ results'[j] = IF j = i THEN results[j] - 1 ELSE results[j]
                       /\ spc'[j] = IF j = i THEN "next" ELSE spc[j]
                       /\ results[j] \in Nat /\ produced[j] \in Nat
    BY <2>1 DEF Types
  <2>3. \A j \in Ids : Sent(j)' = Sent(j)
    BY <2>1, <2>2 DEF Sent, Taken
  <2> QED  BY <2>1, <2>3, ResultsQuiet
<1>15. ASSUME NEW i \in Ids, Lock(i) PROVE Results'
  BY <1>15, ResultsMoved DEF Lock, client, Goes
<1>16. ASSUME NEW i \in Ids, SessionWrites(i) PROVE Results'
  BY <1>16, ResultsWritten
<1> QED
  BY <1>0, <1>1, <1>2, <1>3, <1>4, <1>5, <1>6, <1>7, <1>8, <1>9, <1>10, <1>11, <1>12, <1>13,
     <1>14, <1>15, <1>16 DEF Next, Server, Session

-----------------------------------------------------------------------------
(* The opening of sessions. *)

LEMMA OpenedMoved ==
  ASSUME Types, Opened, inbound' = inbound, sessions' = sessions, asked' = asked,
         NEW i \in Ids, spc[i] \notin {"none", "ended"}, NEW p, spc' = [spc EXCEPT ![i] = p]
  PROVE  Opened'
<1> SUFFICES ASSUME NEW j \in Ids
             PROVE  /\ \A k \in 1..Len(inbound) :
                         Asks(inbound[k], j) => j \in asked /\ spc'[j] = "none"
                    /\ j \notin asked => spc'[j] = "none"
                    /\ j \notin sessions => spc'[j] \in {"none", "ended"}
  BY DEF Opened
<1>1. spc'[j] = IF j = i THEN p ELSE spc[j]
  BY DEF Types
<1> QED  BY <1>1 DEF Opened

LEMMA OpenedSent ==
  ASSUME Types, Opened, spc' = spc, sessions' = sessions, asked \subseteq asked',
         NEW m \in In, inbound' = Append(inbound, m),
         \A i \in Ids : Asks(m, i) => i \in asked' /\ i \notin asked
  PROVE  Opened'
<1>1. /\ Len(inbound') = Len(inbound) + 1 /\ Len(inbound) \in Nat
      /\ inbound'[Len(inbound) + 1] = m
      /\ \A k \in 1..Len(inbound) : inbound'[k] = inbound[k]
      /\ \A k \in 1..Len(inbound') : k \in 1..Len(inbound) \/ k = Len(inbound) + 1
  BY Appended DEF Types
<1> SUFFICES ASSUME NEW i \in Ids
             PROVE  /\ \A k \in 1..Len(inbound') :
                         Asks(inbound'[k], i) => i \in asked' /\ spc[i] = "none"
                    /\ \A k, l \in 1..Len(inbound') :
                         Asks(inbound'[k], i) /\ Asks(inbound'[l], i) => k = l
                    /\ i \notin asked' => spc[i] = "none"
                    /\ i \notin sessions => spc[i] \in {"none", "ended"}
  BY DEF Opened
<1>2. \A k \in 1..Len(inbound) : Asks(inbound[k], i) => i \in asked /\ spc[i] = "none"
  BY DEF Opened
<1>3. Asks(m, i) => \A k \in 1..Len(inbound) : ~Asks(inbound[k], i)
  BY <1>2
<1>4. \A k \in 1..Len(inbound') :
        Asks(inbound'[k], i) => i \in asked' /\ spc[i] = "none"
  BY <1>1, <1>2 DEF Opened
<1>5. \A k, l \in 1..Len(inbound') : Asks(inbound'[k], i) /\ Asks(inbound'[l], i) => k = l
  BY <1>1, <1>3 DEF Opened
<1> QED  BY <1>4, <1>5 DEF Opened

LEMMA OpenedRead == Types /\ Opened /\ Read => Opened'
<1> SUFFICES ASSUME Types, Opened, Read PROVE Opened'
  OBVIOUS
<1> PICK m : m = Head(inbound)
  OBVIOUS
<1> PICK q : q = inbound'
  OBVIOUS
<1>1. /\ Len(inbound) \in Nat /\ Len(q) \in Nat /\ m = inbound[1] /\ 1 \in 1..Len(inbound)
      /\ m \in In
      /\ \A k \in 1..Len(q) : q[k] = inbound[k + 1] /\ k + 1 \in 1..Len(inbound) /\ k + 1 # 1
  BY Rest DEF Read, Types
<1>2. /\ asked' = asked
      /\ \/ spc' = spc /\ sessions' = sessions
         \/ /\ m.type = "subscribe" /\ sessions' = sessions \cup {m.id}
            /\ spc' = [spc EXCEPT ![m.id] = "select"]
  BY DEF Read, client
<1> SUFFICES ASSUME NEW i \in Ids
             PROVE  /\ \A k \in 1..Len(q) : Asks(q[k], i) => i \in asked /\ spc'[i] = "none"
                    /\ \A k, l \in 1..Len(q) : Asks(q[k], i) /\ Asks(q[l], i) => k = l
                    /\ i \notin asked => spc'[i] = "none"
                    /\ i \notin sessions' => spc'[i] \in {"none", "ended"}
  BY <1>2 DEF Opened
<1>3. \A k, l \in 1..Len(q) : Asks(q[k], i) /\ Asks(q[l], i) => k = l
  <2> SUFFICES ASSUME NEW k \in 1..Len(q), NEW l \in 1..Len(q), Asks(q[k], i), Asks(q[l], i)
               PROVE  k = l
    OBVIOUS
  <2>1. k + 1 = l + 1
    BY <1>1 DEF Opened
  <2> QED  BY <2>1
<1>4. CASE Asks(m, i)
  <2>1. \A k \in 1..Len(q) : ~Asks(q[k], i)
    BY <1>1, <1>4 DEF Opened
  <2>2. i \in asked
    BY <1>1, <1>4 DEF Opened
  <2>3. i \notin sessions' => spc'[i] \in {"none", "ended"}
    BY <1>2, <1>4 DEF Opened, Asks
  <2> QED  BY <1>3, <2>1, <2>2, <2>3
<1>5. CASE ~Asks(m, i)
  <2>1. spc'[i] = spc[i] /\ (i \notin sessions' => i \notin sessions)
    BY <1>2, <1>5 DEF Asks, Types
  <2> QED  BY <1>1, <1>3, <2>1 DEF Opened
<1> QED  BY <1>4, <1>5

LEMMA OpenedStep == Types /\ Greeting /\ Opened /\ [Next]_vars => Opened'
<1> SUFFICES ASSUME Types, Greeting, Opened, [Next]_vars PROVE Opened'
  OBVIOUS
<1>a. inbound' = inbound /\ sessions' = sessions /\ asked' = asked /\ spc' = spc => Opened'
  BY DEF Opened
<1>b. \A t, i, n : Msg(t, i, n).type = t /\ Msg(t, i, n).id = i
  BY DEF Msg
<1>0. CASE UNCHANGED vars
  BY <1>0, <1>a DEF vars, server, client
<1>1. CASE OnOpen
  <2>1. \A i \in Ids : ~Asks(Msg("connection_init", None, 0), i)
    BY <1>b DEF Asks
  <2> QED  BY <1>1, <2>1, OpenedSent, Messages DEF OnOpen, server, Send
<1>2. CASE OnMessage
  <2>1. spc' = spc /\ sessions' = sessions
    BY <1>2 DEF OnMessage, server
  <2>2. CASE asked' = asked /\ inbound' = inbound
    BY <2>1, <2>2, <1>a
  <2>3. CASE /\ Head(wire).type = "connection_ack"
             /\ asked' = asked \cup {Body} /\ Send("subscribe", Body)
    <3>1. Head(wire) = wire[1] /\ 1 \in 1..Len(wire)
      BY <1>2, Rest DEF OnMessage, Types
    <3>2. Body \notin asked
      BY <2>3, <3>1 DEF Greeting
    <3>3. \A i \in Ids : Asks(Msg("subscribe", Body, 0), i) => i = Body
      BY <1>b DEF Asks
    <3> QED  BY <2>1, <2>3, <3>2, <3>3, OpenedSent, Messages, BodyIsAnId DEF Send
  <2> QED  BY <1>2, <2>2, <2>3 DEF OnMessage
<1>3. CASE Lose
  BY <1>3, <1>a DEF Lose, server
<1>4. ASSUME NEW i \in Ids, SubscribeAgain(i) PROVE Opened'
  <2>1. \A j \in Ids : Asks(Msg("subscribe", i, 0), j) => j = i
    BY <1>b DEF Asks
  <2> QED  BY <1>4, <2>1, OpenedSent, Messages DEF SubscribeAgain, server, Send
<1>5. ASSUME NEW i \in Ids, NEW t \in {"stop", "unknown"}, StopOrUnknown(t, i) PROVE Opened'
  <2>1. \A j \in Ids : ~Asks(Msg(t, i, 0), j)
    BY <1>b DEF Asks
  <2> QED  BY <1>5, <2>1, OpenedSent, Messages DEF StopOrUnknown, server, client, Send
<1>6. CASE Read
  BY <1>6, OpenedRead
<1>7. CASE ReadFails
  BY <1>7, <1>a DEF ReadFails, client
<1>8. CASE HandlerLocks
  BY <1>8, <1>a DEF HandlerLocks, client
<1>9. CASE HandlerWrites
  BY <1>9, <1>a DEF HandlerWrites, client
<1>10. CASE Stop
  <2>1. /\ spc[req] = "select" /\ spc' = [spc EXCEPT ![req] = "ended"]
        /\ sessions' = sessions \ {req} /\ inbound' = inbound /\ asked' = asked
    BY <1>10 DEF Stop, client
  <2> SUFFICES ASSUME NEW j \in Ids
               PROVE  /\ \A k \in 1..Len(inbound) :
                           Asks(inbound[k], j) => j \in asked /\ spc'[j] = "none"
                      /\ j \notin asked => spc'[j] = "none"
                      /\ j \notin sessions' => spc'[j] \in {"none", "ended"}
    BY <2>1 DEF Opened
  <2>2. spc'[j] = IF j = req THEN "ended" ELSE spc[j]
    BY <2>1 DEF Types
  <2> QED  BY <2>1, <2>2 DEF Opened
<1>11. CASE Close
  BY <1>11, <1>a DEF Close, client
<1>12. ASSUME NEW i \in Ids, Done(i) PROVE Opened'
  BY <1>12, OpenedMoved DEF Done, client
<1>13. ASSUME NEW i \in Ids, Produce(i) PROVE Opened'
  BY <1>13, <1>a DEF Produce, client
<1>14. ASSUME NEW i \in Ids, TakeResult(i) PROVE Opened'
  BY <1>14, OpenedMoved DEF TakeResult, client, Goes
<1>15. ASSUME NEW i \in Ids, Lock(i) PROVE Opened'
  BY <1>15, OpenedMoved DEF Lock, client, Goes
<1>16. ASSUME NEW i \in Ids, SessionWrites(i) PROVE Opened'
  BY <1>16, OpenedMoved, SessionWritten DEF SessionWrites, client, Goes
<1> QED
  BY <1>0, <1>1, <1>2, <1>3, <1>4, <1>5, <1>6, <1>7, <1>8, <1>9, <1>10, <1>11, <1>12, <1>13,
     <1>14, <1>15, <1>16 DEF Next, Server, Session

LEMMA AtMostOne ==
  /\ \A m, n \in Nat : m = n + 1 /\ m =< 1 => m = 1 /\ n = 0
  /\ \A n \in Nat : n =< 1 /\ n # 1 => n = 0
OBVIOUS

LEMMA GreetingStep == Types /\ Results /\ Greeting /\ [Next]_vars => Greeting'
<1> SUFFICES ASSUME Types, Results, Greeting, [Next]_vars PROVE Greeting'
  OBVIOUS
<1>t. \A t, i, n : Msg(t, i, n).type = t
  BY DEF Msg
<1>l. Len(wire) \in Nat /\ Len(inbound) \in Nat
  BY DEF Types
<1>a. asked' = asked /\ spc' = spc /\ inbound' = inbound /\ wire' = wire /\ hpc' = hpc /\ cpc' = cpc
        /\ broken' = broken => Greeting'
  BY DEF Greeting
<1>b. asked' = asked /\ Body \in asked /\ inbound' = inbound /\ wire' = wire
        /\ hpc' \notin {"ack", "writeAck"} /\ cpc' = cpc => Greeting'
  BY DEF Greeting
<1>c. \A i \in Ids : spc[i] # "none" => Body \in asked
  BY DEF Greeting
<1>0. CASE UNCHANGED vars
  BY <1>0, <1>a DEF vars, server, client
<1>1. CASE OnOpen
  <2>1. /\ inbound' = Append(inbound, Msg("connection_init", None, 0)) /\ cpc = "connecting"
        /\ cpc' = "open" /\ wire' = wire /\ asked' = asked /\ hpc' = hpc /\ spc' = spc
    BY <1>1 DEF OnOpen, Send, server
  <2>2. Body \notin asked /\ Len(inbound) = 0
    BY <2>1 DEF Greeting
  <2>3. Len(inbound') = 1 /\ inbound'[1] = Msg("connection_init", None, 0)
    BY <2>1, <2>2, Appended, Messages DEF Types
  <2>4. \A k \in 1..Len(inbound') : inbound'[k].type = "connection_init"
    BY <2>3, <1>t
  <2> QED  BY <2>1, <2>2, <2>3, <2>4 DEF Greeting
<1>2. CASE OnMessage
  <2>1. /\ Head(wire) = wire[1] /\ 1 \in 1..Len(wire)
        /\ wire' = Tail(wire) /\ Len(wire) = Len(wire') + 1 /\ Len(wire') \in Nat
        /\ \A k \in 1..Len(wire') : wire'[k] = wire[k + 1] /\ k + 1 \in 1..Len(wire)
    BY <1>2, Rest DEF OnMessage, Types
  <2>2. hpc' = hpc /\ spc' = spc
    BY <1>2 DEF OnMessage, server
  <2>3. CASE Head(wire).type = "connection_ack"
    <3>a. Body \notin asked
      BY <2>1, <2>3 DEF Greeting
    <3>b. Len(wire) =< 1 /\ Len(inbound) =< 1
      BY <3>a DEF Greeting
    <3>c. Len(wire) = 1 /\ Len(wire') = 0
      BY <1>l, <2>1, <3>b, AtMostOne, Zenon
    <3>d. Len(inbound) # 1 /\ hpc \notin {"ack", "writeAck"}
      BY <3>a, <3>c DEF Greeting
    <3>1. Body \notin asked /\ hpc \notin {"ack", "writeAck"} /\ Len(wire') = 0 /\ Len(inbound) = 0
      BY <1>l, <3>a, <3>b, <3>c, <3>d, AtMostOne, Zenon
    <3>2. /\ asked' = asked \cup {Body} /\ cpc' = "open"
          /\ inbound' = Append(inbound, Msg("subscribe", Body, 0))
      BY <1>2, <2>3 DEF OnMessage, Send
    <3>3. Len(inbound') = 1 /\ inbound'[1] = Msg("subscribe", Body, 0)
      BY <3>1, <3>2, Appended, Messages, BodyIsAnId DEF Types
    <3>4. /\ \A k \in 1..Len(inbound') : inbound'[k].type # "connection_init"
          /\ \A k \in 1..Len(wire') : wire'[k].type # "connection_ack"
      BY <3>1, <3>3, <1>t
    <3> QED  BY <2>2, <3>1, <3>2, <3>4 DEF Greeting
  <2>4. CASE Head(wire).type # "connection_ack"
    <3>1. Body \in asked
      BY <2>1, <2>4 DEF Greeting
    <3>2. asked' = asked /\ inbound' = inbound /\ cpc' # "connecting"
      BY <1>2, <2>4 DEF OnMessage
    <3> QED  BY <2>1, <2>2, <3>1, <3>2 DEF Greeting
  <2> QED  BY <2>3, <2>4
<1>3. CASE Lose
  BY <1>3 DEF Lose, server, Greeting
<1>d. ASSUME NEW m \in In, m.type # "connection_init", inbound' = Append(inbound, m),
             Body \in asked, asked \subseteq asked', wire' = wire, hpc' = hpc, cpc' = cpc
      PROVE  Greeting'
  <2>1. /\ \A k \in 1..Len(inbound) : inbound'[k] = inbound[k]
        /\ inbound'[Len(inbound) + 1] = m
        /\ \A k \in 1..Len(inbound') : k \in 1..Len(inbound) \/ k = Len(inbound) + 1
    BY <1>d, Appended DEF Types
  <2>2. \A k \in 1..Len(inbound') : inbound'[k].type # "connection_init"
    BY <1>d, <2>1 DEF Greeting
  <2> QED  BY <1>d, <2>2 DEF Greeting
<1>e. ASSUME NEW m \in Out, m.type # "connection_ack", wire' = Append(wire, m),
             Body \in asked, asked' = asked, inbound' = inbound, cpc' = cpc,
             hpc' \notin {"ack", "writeAck"}
      PROVE  Greeting'
  <2>1. /\ \A k \in 1..Len(wire) : wire'[k] = wire[k]
        /\ wire'[Len(wire) + 1] = m
        /\ \A k \in 1..Len(wire') : k \in 1..Len(wire) \/ k = Len(wire) + 1
    BY <1>e, Appended DEF Types
  <2>2. \A k \in 1..Len(wire') : wire'[k].type # "connection_ack"
    BY <1>e, <2>1 DEF Greeting
  <2> QED  BY <1>e, <2>2 DEF Greeting
<1>4. ASSUME NEW i \in Ids, SubscribeAgain(i) PROVE Greeting'
  BY <1>4, <1>d, <1>t, Messages DEF SubscribeAgain, server, Send
<1>5. ASSUME NEW i \in Ids, NEW t \in {"stop", "unknown"}, StopOrUnknown(t, i) PROVE Greeting'
  <2>1. Body \in asked
    BY <1>5 DEF StopOrUnknown, Greeting
  <2> QED  BY <1>5, <2>1, <1>d, <1>t, Messages DEF StopOrUnknown, server, client, Send
<1>6. CASE Read
  <2>1. /\ Head(inbound) = inbound[1] /\ 1 \in 1..Len(inbound)
        /\ inbound' = Tail(inbound) /\ Len(inbound) = Len(inbound') + 1 /\ Len(inbound') \in Nat
        /\ \A k \in 1..Len(inbound') : inbound'[k] = inbound[k + 1] /\ k + 1 \in 1..Len(inbound)
    BY <1>6, Rest DEF Read, Types
  <2>2. wire' = wire /\ asked' = asked /\ cpc' = cpc
    BY <1>6 DEF Read, client
  <2>3. CASE Body \notin asked
    <3>0. Head(inbound).type = "connection_init" /\ Len(inbound) =< 1
      BY <2>1, <2>3 DEF Greeting
    <3>1. Len(inbound) = 1 /\ Len(inbound') = 0
      BY <1>l, <2>1, <3>0, AtMostOne, Zenon
    <3>a. Len(wire) = 0
      BY <2>3, <3>1 DEF Greeting
    <3>2. spc' = spc /\ hpc' \in {"ack", "close"}
      BY <1>6, <3>0 DEF Read
    <3>3. cpc # "connecting"
      BY <2>3, <3>1 DEF Greeting
    <3> QED  BY <2>2, <2>3, <3>1, <3>2, <3>3, <3>a DEF Greeting
  <2>4. CASE Body \in asked
    <3>1. Head(inbound).type # "connection_init"
      BY <2>1, <2>4 DEF Greeting
    <3>2. hpc' \notin {"ack", "writeAck"}
      BY <1>6, <3>1 DEF Read
    <3> QED  BY <2>1, <2>2, <2>4, <3>2 DEF Greeting
  <2> QED  BY <2>3, <2>4
<1>7. CASE ReadFails
  <2>1. /\ hpc = "read" /\ hpc' = "close" /\ inbound = <<>> /\ inbound' = inbound /\ wire' = wire
        /\ asked' = asked /\ cpc' = cpc /\ spc' = spc /\ broken
    BY <1>7 DEF ReadFails, client
  <2>2. Len(inbound) = 0
    BY <2>1
  <2>3. CASE Body \in asked
    BY <2>1, <2>3, <1>b
  <2>4. CASE Body \notin asked
    <3>1. cpc # "connecting"
      BY <2>1, <2>4 DEF Greeting
    <3> QED  BY <2>1, <2>2, <2>4, <3>1 DEF Greeting
  <2> QED  BY <2>3, <2>4
<1>8. CASE HandlerLocks
  <2>1. /\ hpc \in {"ack", "error"} /\ hpc' = (IF hpc = "ack" THEN "writeAck" ELSE "writeError")
        /\ inbound' = inbound /\ wire' = wire /\ asked' = asked /\ cpc' = cpc /\ spc' = spc
    BY <1>8 DEF HandlerLocks, client
  <2> QED  BY <2>1 DEF Greeting
<1>9. CASE HandlerWrites
  <2>1. inbound' = inbound /\ asked' = asked /\ cpc' = cpc /\ spc' = spc
    BY <1>9 DEF HandlerWrites, client
  <2>2. CASE hpc = "writeAck"
    <3>1. Body \notin asked /\ Len(wire) = 0 /\ cpc # "connecting" /\ Len(inbound) # 1
      BY <2>2 DEF Greeting
    <3>2. CASE wire' = wire
      BY <1>9, <2>1, <2>2, <3>1, <3>2, HandlerWritten DEF Greeting
    <3>3. CASE wire' = Append(wire, Msg("connection_ack", req, 0)) /\ hpc' = "read"
      <4>1. Len(wire') = 1 /\ wire'[1] = Msg("connection_ack", req, 0)
        BY <3>1, <3>3, Appended, Messages DEF Types
      <4>2. \A k \in 1..Len(wire') : wire'[k].type = "connection_ack"
        BY <4>1, <1>t
      <4> QED  BY <2>1, <3>1, <3>3, <4>1, <4>2 DEF Greeting
    <3> QED  BY <1>9, <2>2, <3>2, <3>3, HandlerWritten
  <2>3. CASE hpc = "writeError"
    <3>1. Body \in asked /\ hpc' = "close"
      BY <1>9, <2>3, HandlerWritten DEF Greeting
    <3>2. CASE wire' = wire
      BY <2>1, <3>1, <3>2, <1>b
    <3>3. CASE wire' = Append(wire, Msg("error", req, 0))
      <4>1. Msg("error", req, 0) \in Out /\ Msg("error", req, 0).type # "connection_ack"
        BY Messages, <1>t DEF Types
      <4> QED  BY <2>1, <3>1, <3>3, <4>1, <1>e
    <3> QED  BY <1>9, <2>3, <3>2, <3>3, HandlerWritten
  <2> QED  BY <1>9, <2>2, <2>3 DEF HandlerWrites
<1>10. CASE Stop
  <2>1. Body \in asked
    BY <1>10 DEF Stop, Greeting
  <2> QED  BY <1>10, <2>1, <1>b DEF Stop, client
<1>11. CASE Close
  BY <1>11 DEF Close, client, Greeting
<1>12. ASSUME NEW i \in Ids, Done(i) PROVE Greeting'
  <2>1. Body \in asked
    BY <1>12, <1>c DEF Done
  <2> QED  BY <1>12, <2>1, <1>b DEF Done, client
<1>13. ASSUME NEW i \in Ids, Produce(i) PROVE Greeting'
  BY <1>13, <1>a DEF Produce, client
<1>f. Body \in asked => hpc \notin {"ack", "writeAck"}
  BY DEF Greeting
<1>14. ASSUME NEW i \in Ids, TakeResult(i) PROVE Greeting'
  BY <1>14, <1>b, <1>c, <1>f DEF TakeResult, client, Goes
<1>15. ASSUME NEW i \in Ids, Lock(i) PROVE Greeting'
  BY <1>15, <1>b, <1>c, <1>f DEF Lock, client, Goes
<1>16. ASSUME NEW i \in Ids, SessionWrites(i) PROVE Greeting'
  <2>1. Body \in asked
    BY <1>16, <1>c, SessionWritten DEF Goes
  <2>2. /\ Msg("next", i, Number(i)) \in Out /\ Msg("error", i, 0) \in Out
        /\ Msg("next", i, Number(i)).type # "connection_ack"
        /\ Msg("error", i, 0).type # "connection_ack"
    BY Messages, Numbering, <1>t
  <2>3. hpc' = hpc /\ asked' = asked /\ cpc' = cpc /\ inbound' = inbound
    BY <1>16 DEF SessionWrites, client
  <2> QED  BY <1>16, <2>1, <2>2, <2>3, <1>b, <1>e, <1>f, SessionWritten
<1> QED
  BY <1>0, <1>1, <1>2, <1>3, <1>4, <1>5, <1>6, <1>7, <1>8, <1>9, <1>10, <1>11, <1>12, <1>13,
     <1>14, <1>15, <1>16 DEF Next, Server, Session

-----------------------------------------------------------------------------
(* The invariant and what follows from it. *)

LEMMA InitIInv == Init => IInv
<1> SUFFICES ASSUME Init PROVE IInv
  OBVIOUS
<1>1. Types
  <2>1. wire \in Seq(Out) /\ inbound \in Seq(In)
    BY DEF Init
  <2>2. results \in [Ids -> Nat] /\ produced \in [Ids -> Nat] /\ seen \in [Ids -> Nat]
    BY DEF Init
  <2>3. spc \in [Ids -> {"none", "select", "next", "error", "writeNext", "writeError", "ended"}]
    BY DEF Init
  <2> QED  BY <2>1, <2>2, <2>3 DEF Init, Types
<1>2. Results
  <2> SUFFICES ASSUME NEW i \in Ids
               PROVE  Sent(i) \in Nat /\ Numbered(wire, i, seen[i], Sent(i), broken)
    BY DEF Results
  <2>1. Sent(i) = 0 /\ seen[i] = 0 /\ wire = <<>>
    BY DEF Init, Sent, Taken
  <2> QED  BY <2>1 DEF Numbered
<1>3. Greeting
  BY DEF Init, Greeting
<1>4. Opened
  BY DEF Init, Opened
<1> QED  BY <1>1, <1>2, <1>3, <1>4 DEF IInv

LEMMA NextIInv == IInv /\ [Next]_vars => IInv'
BY TypesStep, ResultsStep, GreetingStep, OpenedStep DEF IInv

LEMMA Invariant == Spec => []IInv
BY InitIInv, NextIInv, PTL DEF Spec

\* What the client reads of a subscription is the result after the last one it has read:
\* none is left out, repeated or overtaken on the way through goroutine, mutex and connection.
THEOREM ReadInOrder == Spec => InOrder
<1> DEFINE Step == \A i \in Ids : seen'[i] # seen[i] => seen'[i] = seen[i] + 1
<1>1. IInv /\ [Next]_vars => [Step]_vars
  <2> SUFFICES ASSUME IInv, [Next]_vars, NEW i \in Ids, seen'[i] # seen[i]
               PROVE  seen'[i] = seen[i] + 1
    BY DEF Step
  <2>1. OnMessage
    BY DEF Next, vars, OnOpen, Lose, SubscribeAgain, StopOrUnknown, Server, Read, ReadFails,
           HandlerLocks, HandlerWrites, Stop, Close, Done, Produce, Session, TakeResult, Lock,
           SessionWrites, client
  <2>2. /\ Numbered(wire, i, seen[i], Sent(i), broken) /\ Sent(i) \in Nat /\ wire \in Seq(Out)
        /\ seen[i] \in Nat /\ seen \in [Ids -> Nat] /\ broken \in BOOLEAN
    BY DEF IInv, Results, Types
  <2>3. IsResult(Head(wire), i) /\ seen'[i] = Head(wire).no /\ wire # <<>>
    BY <2>1, <2>2 DEF OnMessage, IsResult
  <2> QED  BY <2>2, <2>3, ReadResult
<1>2. []IInv /\ [][Next]_vars => [][Step]_vars
  BY <1>1, PTL
<1> QED  BY Invariant, <1>2, PTL DEF Spec, InOrder, Step

\* After its stop a session writes no result, as only the goroutine that was told to end wrote
\* for it and the client does not ask again with the same id.
THEOREM StoppedIsSilent == Spec => NothingAfterStop
<1> DEFINE Step == \A i \in Ids : i \in asked /\ spc[i] # "none" /\ i \notin sessions =>
       (Len(wire') > Len(wire) /\ wire'[Len(wire')].id = i => wire'[Len(wire')].type # "next")
<1>1. IInv /\ [Next]_vars => [Step]_vars
  <2> SUFFICES ASSUME IInv, [Next]_vars, NEW i \in Ids, spc[i] # "none", i \notin sessions,
                      Len(wire') > Len(wire), wire'[Len(wire')].id = i
               PROVE  wire'[Len(wire')].type # "next"
    BY DEF Step
  <2>1. spc[i] = "ended" /\ wire \in Seq(Out) /\ Len(wire) \in Nat /\ wire' # wire
    BY DEF IInv, Opened, Types
  <2>2. CASE OnMessage
    <3>1. Len(wire) = Len(wire') + 1 /\ Len(wire') \in Nat
      BY <2>1, <2>2, Rest DEF OnMessage
    <3> QED  BY <3>1
  <2>3. CASE HandlerWrites
    <3>1. PICK m \in Out : wire' = Append(wire, m) /\ m.type # "next"
      BY <2>1, <2>3, HandlerWritten, Messages DEF IInv, Types, Msg
    <3>2. wire'[Len(wire')] = m
      BY <2>1, <3>1, Appended
    <3> QED  BY <3>1, <3>2
  <2>4. ASSUME NEW j \in Ids, SessionWrites(j) PROVE wire'[Len(wire')].type # "next"
    <3>1. /\ Msg("next", j, Number(j)) \in Out /\ Msg("error", j, 0) \in Out
          /\ Msg("next", j, Number(j)).id = j /\ Msg("error", j, 0).type = "error"
      BY Messages, Numbering DEF IInv, Msg
    <3>2. CASE wire' = Append(wire, Msg("next", j, Number(j))) /\ spc[j] = "writeNext"
      <4>1. wire'[Len(wire')] = Msg("next", j, Number(j))
        BY <2>1, <3>1, <3>2, Appended
      <4> QED  BY <2>1, <3>1, <3>2, <4>1
    <3>3. CASE wire' = Append(wire, Msg("error", j, 0))
      <4>1. wire'[Len(wire')] = Msg("error", j, 0)
        BY <2>1, <3>1, <3>3, Appended
      <4> QED  BY <3>1, <4>1
    <3> QED  BY <2>1, <2>4, <3>2, <3>3, SessionWritten DEF Goes
  <2> QED
    BY <2>1, <2>2, <2>3, <2>4 DEF Next, vars, OnOpen, Lose, SubscribeAgain, StopOrUnknown, Server,
       Read, ReadFails, HandlerLocks, Stop, Close, Done, Produce, Session, TakeResult, Lock
<1>2. []IInv /\ [][Next]_vars => [][Step]_vars
  BY <1>1, PTL
<1> QED  BY Invariant, <1>2, PTL DEF Spec, NothingAfterStop, Step

=============================================================================
